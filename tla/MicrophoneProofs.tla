-------------------------- MODULE MicrophoneProofs --------------------------
(***************************************************************************)
(* What is proved of Microphone for every value of the constants: a lit    *)
(* mute light at rest is never lit over an open microphone.                *)
(***************************************************************************)
EXTENDS Microphone, SequenceTheorems, TLAPS

(* Types.  *)

VoiceTypes == Voice!VoiceTypeOK
MicTypes ==
    /\ {file, light, muted, unknown, reconcile, retrying, notice} \subseteq BOOLEAN
    /\ op \in Operations
ServiceTypes ==
    /\ {up} \subseteq BOOLEAN
    /\ served \in {"closed", "booted", "restoring", "open"}
    /\ requests \in Seq(Requests) /\ dispatched \in Requests
    /\ outcome \in {"none", "ok", "error"}
    /\ DOMAIN cell = {"gain", "mic"} /\ {cell["mic"]} \subseteq BOOLEAN
    /\ todo \in Seq(Queued)
    /\ DOMAIN stage = {"restore", "mic", "session"}

LEMMA TypeParts == TypeOK <=> MicTypes /\ ServiceTypes /\ VoiceTypes
  BY DEF TypeOK, MicTypes, ServiceTypes, VoiceTypes

LEMMA TypeInit == Init => TypeOK
<1> SUFFICES ASSUME Init PROVE TypeOK
  OBVIOUS
<1>1. MicTypes
  BY DEF Init, OwnInit, MicTypes, NoOp, Operations, Places, Callers
<1>2. ServiceTypes
  <2>1. cell = PowerOn /\ cell["mic"] = FALSE /\ DOMAIN cell = {"gain", "mic"}
    BY DEF Init, DspInit, Dsp!Init, PowerOn
  <2>2. /\ requests \in Seq(Requests) /\ todo \in Seq(Queued)
        /\ dispatched \in Requests
    BY DEF Init, OwnInit, DspInit, Dsp!Init, NoRequest, Requests
  <2>3. /\ up = FALSE /\ served = "closed" /\ outcome = "none"
        /\ DOMAIN stage = {"restore", "mic", "session"}
    BY DEF Init, OwnInit, DspInit, Dsp!Init
  <2> QED
    BY <2>1, <2>2, <2>3 DEF ServiceTypes
<1>3. VoiceTypes
  BY DEF Init, OwnInit, VoiceTypes, Voice!VoiceTypeOK, Voice!VoiceInit
<1> QED
  BY <1>1, <1>2, <1>3, TypeParts

(* A request that is given up stays a request; of a queue only the ends    *)
(* change.                                                                 *)
Given == [i \in DOMAIN requests |-> GivenUp(requests[i])]

LEMMA GivenRequests ==
  ASSUME requests \in Seq(Requests), dispatched \in Requests
  PROVE  /\ Given \in Seq(Requests) /\ Len(Given) = Len(requests)
         /\ \A i \in 1 .. Len(requests) : ~Given[i].open
         /\ requests = <<>> => Given = <<>>
         /\ GivenUp(dispatched) \in Requests /\ ~GivenUp(dispatched).open
         /\ GivenUp(dispatched).want = dispatched.want
<1>1. DOMAIN requests = 1 .. Len(requests) /\ Len(requests) \in Nat
  BY LenProperties
<1>2. \A i \in 1 .. Len(requests) : requests[i] \in Requests
  BY ElementOfSeq
<1>3. \A r \in Requests : /\ GivenUp(r) \in Requests /\ ~GivenUp(r).open
                          /\ GivenUp(r).want = r.want
  BY DEF GivenUp, Requests
<1>4. requests = <<>> => Given = <<>>
  <2>1. ASSUME requests = <<>> PROVE Given = <<>>
    <3>1. Given = [i \in {} |-> GivenUp(requests[i])]
      BY <2>1 DEF Given
    <3> QED
      BY <3>1
  <2> QED
    BY <2>1
<1> QED
  BY <1>1, <1>2, <1>3, <1>4 DEF Given

LEMMA RequestSteps ==
  ASSUME requests \in Seq(Requests)
  PROVE  /\ Len(requests) \in Nat
         /\ \A r \in Requests :
              /\ Append(requests, r) \in Seq(Requests) /\ Append(requests, r) # <<>>
              /\ Len(Append(requests, r)) = Len(requests) + 1
              /\ Append(requests, r)[Len(requests) + 1] = r
              /\ \A i \in 1 .. Len(requests) : Append(requests, r)[i] = requests[i]
         /\ requests # <<>> =>
              /\ Head(requests) = requests[1] /\ Head(requests) \in Requests
              /\ Tail(requests) \in Seq(Requests)
              /\ Len(Tail(requests)) = Len(requests) - 1 /\ Len(requests) # 0
              /\ \A i \in 1 .. Len(requests) - 1 : Tail(requests)[i] = requests[i + 1]
<1>1. Len(requests) \in Nat /\ DOMAIN requests = 1 .. Len(requests)
  BY LenProperties
<1>2. ASSUME NEW r \in Requests
      PROVE  /\ Append(requests, r) \in Seq(Requests) /\ Append(requests, r) # <<>>
             /\ Len(Append(requests, r)) = Len(requests) + 1
             /\ Append(requests, r)[Len(requests) + 1] = r
             /\ \A i \in 1 .. Len(requests) : Append(requests, r)[i] = requests[i]
  BY <1>1
<1>3. ASSUME requests # <<>>
      PROVE  /\ Head(requests) = requests[1] /\ Head(requests) \in Requests
             /\ Tail(requests) \in Seq(Requests)
             /\ Len(Tail(requests)) = Len(requests) - 1 /\ Len(requests) # 0
             /\ \A i \in 1 .. Len(requests) - 1 : Tail(requests)[i] = requests[i + 1]
  <2>1. Head(requests) = requests[1]
    BY <1>3
  <2>2. Len(requests) # 0
    BY <1>3, EmptySeq
  <2> QED
    BY <1>3, <2>1, <2>2, HeadTailProperties
<1> QED
  BY <1>1, <1>2, <1>3

LEMMA QueueSteps ==
  ASSUME todo \in Seq(Queued)
  PROVE  /\ Len(todo) \in Nat /\ DOMAIN todo = 1 .. Len(todo)
         /\ \A i \in 1 .. Len(todo) : todo[i] \in Queued
         /\ \A e \in Queued :
              /\ Append(todo, e) \in Seq(Queued)
              /\ Len(Append(todo, e)) = Len(todo) + 1
              /\ Append(todo, e)[Len(todo) + 1] = e
              /\ \A i \in 1 .. Len(todo) : Append(todo, e)[i] = todo[i]
         /\ todo # <<>> => /\ Tail(todo) \in Seq(Queued) /\ Head(todo) = todo[1]
                           /\ Len(Tail(todo)) = Len(todo) - 1 /\ Len(todo) # 0
                           /\ \A i \in 1 .. Len(todo) - 1 : Tail(todo)[i] = todo[i + 1]
         /\ \A i \in 1 .. Len(todo) :
              /\ Dsp!Without(i) \in Seq(Queued)
              /\ Len(Dsp!Without(i)) = Len(todo) - 1
              /\ \A j \in 1 .. Len(todo) - 1 :
                    Dsp!Without(i)[j] = todo[IF j < i THEN j ELSE j + 1]
         /\ todo # <<>> =>
              LET given == [todo EXCEPT ![1].open = FALSE] IN
              /\ given \in Seq(Queued) /\ Len(given) = Len(todo)
              /\ ~given[1].open /\ \A i \in 1 .. Len(todo) : given[i].owner = todo[i].owner
<1>1. \A i \in 1 .. Len(todo) : todo[i] \in Queued
  BY ElementOfSeq
<1>2. Len(todo) \in Nat /\ DOMAIN todo = 1 .. Len(todo)
  BY LenProperties
<1>3. todo # <<>> => Len(todo) # 0
  BY EmptySeq
<1>4. ASSUME NEW i \in 1 .. Len(todo)
      PROVE  /\ Dsp!Without(i) \in Seq(Queued)
             /\ Len(Dsp!Without(i)) = Len(todo) - 1
             /\ \A j \in 1 .. Len(todo) - 1 :
                   Dsp!Without(i)[j] = todo[IF j < i THEN j ELSE j + 1]
  BY <1>1, <1>2 DEF Dsp!Without
<1>5. ASSUME todo # <<>>
      PROVE  LET given == [todo EXCEPT ![1].open = FALSE] IN
             /\ given \in Seq(Queued) /\ Len(given) = Len(todo)
             /\ ~given[1].open /\ \A i \in 1 .. Len(todo) : given[i].owner = todo[i].owner
  <2>1. \A q \in Queued : /\ [q EXCEPT !.open = FALSE] \in Queued
                         /\ ~[q EXCEPT !.open = FALSE].open
                         /\ [q EXCEPT !.open = FALSE].owner = q.owner
    BY DEF Queued
  <2>2. 1 \in 1 .. Len(todo)
    BY <1>2, <1>3, <1>5
  <2>3. [todo EXCEPT ![1].open = FALSE] = [todo EXCEPT ![1] = [todo[1] EXCEPT !.open = FALSE]]
    OBVIOUS
  <2> QED
    BY <1>1, <2>1, <2>2, <2>3, ExceptSeq
<1>6. ASSUME todo # <<>>
      PROVE  /\ Tail(todo) \in Seq(Queued) /\ Head(todo) = todo[1]
             /\ Len(Tail(todo)) = Len(todo) - 1 /\ Len(todo) # 0
             /\ \A i \in 1 .. Len(todo) - 1 : Tail(todo)[i] = todo[i + 1]
  <2>1. Head(todo) = todo[1]
    BY <1>6
  <2> QED
    BY <1>3, <1>6, <2>1, HeadTailProperties
<1>7. ASSUME NEW e \in Queued
      PROVE  /\ Append(todo, e) \in Seq(Queued)
             /\ Len(Append(todo, e)) = Len(todo) + 1
             /\ Append(todo, e)[Len(todo) + 1] = e
             /\ \A i \in 1 .. Len(todo) : Append(todo, e)[i] = todo[i]
  BY <1>2
<1> QED
  BY <1>1, <1>2, <1>4, <1>5, <1>6, <1>7

-----------------------------------------------------------------------------
(* Every step keeps the types. *)

LEMMA VoiceKept == VoiceTypes /\ UNCHANGED voice => VoiceTypes'
  BY DEF VoiceTypes, Voice!VoiceTypeOK, voice

(* The light and the music are set or left, whatever fails. *)
LEMMA VoiceSets ==
  ASSUME VoiceTypes, {light} \subseteq BOOLEAN, NEW on \in BOOLEAN, Voice!Set(on)
  PROVE  {glow, ducked}' \subseteq BOOLEAN
<1>1. {glow, ducked} \subseteq BOOLEAN
  BY DEF VoiceTypes, Voice!VoiceTypeOK
<1>2. {Voice!Lit(on)} \subseteq BOOLEAN
  BY DEF Voice!Lit
<1> QED
  BY <1>1, <1>2 DEF Voice!Set

LEMMA VoiceClears ==
  ASSUME VoiceTypes, {light} \subseteq BOOLEAN, Voice!Clear
  PROVE  {cleanup, glow, ducked}' \subseteq BOOLEAN /\ state' = ""
<1>1. CASE cleanup
  <2>1. {glow, ducked}' \subseteq BOOLEAN
    BY <1>1, VoiceSets DEF Voice!Clear
  <2>2. {cleanup'} \subseteq BOOLEAN /\ state' = ""
    BY <1>1 DEF Voice!Clear
  <2> QED
    BY <2>1, <2>2
<1>2. CASE ~cleanup
  BY <1>2 DEF Voice!Clear, VoiceTypes, Voice!VoiceTypeOK
<1> QED
  BY <1>1, <1>2

LEMMA VoiceTalks ==
  ASSUME VoiceTypes, {light} \subseteq BOOLEAN, Talks \/ Voice!Reset
  PROVE  VoiceTypes'
<1>0. /\ {state, report} \subseteq Voice!States \cup {""}
      /\ step \in {"none", "ask", "apply", "cue"}
      /\ {cleanup, glow, ducked} \subseteq BOOLEAN
  BY DEF VoiceTypes, Voice!VoiceTypeOK
<1> USE DEF VoiceTypes, Voice!VoiceTypeOK, Voice!shown, Voice!Handled
<1>1. CASE Voice!Withdrawn
  BY <1>0, <1>1, VoiceClears DEF Voice!Withdrawn
<1>2. CASE Voice!Permitted
  BY <1>0, <1>2 DEF Voice!Permitted
<1>3. CASE Voice!Applied
  <2>1. {glow, ducked}' \subseteq BOOLEAN
    BY <1>3, VoiceSets DEF Voice!Applied
  <2>2. /\ state' = report /\ {cleanup'} \subseteq BOOLEAN
        /\ report' \in {report, ""} /\ step' \in {"none", "cue"}
    BY <1>3 DEF Voice!Applied
  <2> QED
    BY <1>0, <2>1, <2>2
<1>4. CASE Voice!Cue
  BY <1>0, <1>4, VoiceClears DEF Voice!Cue
<1>5. CASE Voice!Ended
  BY <1>0, <1>5, VoiceClears DEF Voice!Ended
<1>6. CASE Voice!Retried
  BY <1>0, <1>6, VoiceClears, VoiceSets DEF Voice!Retried
<1>7. CASE \E s \in Voice!States \cup {""} : Voice!Reported(s)
  BY <1>0, <1>7 DEF Voice!Reported
<1>8. CASE Voice!Reset
  BY <1>0, <1>8, VoiceClears DEF Voice!Reset
<1> QED
  BY <1>1, <1>2, <1>3, <1>4, <1>5, <1>6, <1>7, <1>8 DEF Talks, FeedbackStep, Voice!Handles

LEMMA MicKept == MicTypes /\ UNCHANGED mic => MicTypes'
  BY DEF MicTypes, mic

LEMMA OpMoves ==
  ASSUME op \in Operations
  PROVE  /\ NoOp \in Operations
         /\ \A place \in Places :
              /\ [op EXCEPT !.at = place] \in Operations
              /\ [op EXCEPT !.at = place].at = place
              /\ [op EXCEPT !.at = place].want = op.want
         /\ \A want \in BOOLEAN, by \in Callers, place \in Places :
              [want |-> want, by |-> by, at |-> place] \in Operations
         /\ op.at \in Places /\ {op.want} \subseteq BOOLEAN
  BY DEF Operations, NoOp, Places

LEMMA EndsTypes ==
  ASSUME MicTypes, NEW failed \in BOOLEAN, Ends(failed), {muted, unknown}' \subseteq BOOLEAN
  PROVE  /\ {reconcile, retrying, notice}' \subseteq BOOLEAN
         /\ op' \in Operations
<1>1. op' \in Operations
  BY OpMoves DEF Ends, MicTypes
<1>2. {reconcile, retrying, notice} \subseteq BOOLEAN
  BY DEF MicTypes
<1>3. {reconcile, retrying}' \subseteq BOOLEAN
  BY <1>2 DEF Ends
<1>4. {notice'} \subseteq BOOLEAN
  BY <1>2 DEF Ends
<1> QED
  BY <1>1, <1>3, <1>4

LEMMA StepFailsTypes ==
  ASSUME MicTypes, StepFails
  PROVE  /\ {muted, unknown, reconcile, retrying, notice}' \subseteq BOOLEAN
         /\ op' \in Operations
<1>1. CASE ~op.want /\ ~Undoing
  <2>1. op' = [op EXCEPT !.at = "restore"] /\ "restore" \in Places
    BY <1>1 DEF StepFails, GoTo, Places
  <2>2. op' \in Operations
    BY <2>1, OpMoves DEF MicTypes
  <2>3. UNCHANGED <<muted, unknown, reconcile, retrying, notice>>
    BY <1>1 DEF StepFails
  <2> QED
    BY <2>2, <2>3 DEF MicTypes
<1>2. CASE ~(~op.want /\ ~Undoing)
  BY <1>2, EndsTypes DEF StepFails, MicTypes
<1> QED
  BY <1>1, <1>2

(* The operations of the controller. *)
LEMMA MicTypesWorks ==
  ASSUME MicTypes, Works \/ Expires \/ ConfirmFails
  PROVE  MicTypes'
<1>0. /\ {file, light, muted, unknown, reconcile, retrying, notice} \subseteq BOOLEAN
      /\ op \in Operations
  BY DEF MicTypes
<1>1. CASE ClearLight
  <2>1. {light'} \subseteq BOOLEAN /\ file' = file
    BY <1>0, <1>1 DEF ClearLight
  <2>2. CASE GoTo("send") /\ UNCHANGED <<muted, unknown, reconcile, retrying, notice>>
    BY <1>0, <2>1, <2>2, OpMoves DEF GoTo, Places, MicTypes
  <2>3. CASE UNCHANGED <<muted, unknown>> /\ Ends(TRUE)
    BY <1>0, <2>1, <2>3, EndsTypes DEF MicTypes
  <2> QED
    BY <1>1, <2>2, <2>3 DEF ClearLight
<1>2. CASE RecordMute
  <2>1. {file'} \subseteq BOOLEAN /\ light' = light
    BY <1>0, <1>2 DEF RecordMute
  <2>2. CASE GoTo("send") /\ UNCHANGED <<muted, unknown, reconcile, retrying, notice>>
    BY <1>0, <2>1, <2>2, OpMoves DEF GoTo, Places, MicTypes
  <2>3. CASE UNCHANGED <<muted, unknown>> /\ Ends(TRUE)
    BY <1>0, <2>1, <2>3, EndsTypes DEF MicTypes
  <2> QED
    BY <1>2, <2>2, <2>3 DEF RecordMute
<1>3. ASSUME UNCHANGED <<file, light>>, StepFails PROVE MicTypes'
  BY <1>0, <1>3, StepFailsTypes DEF MicTypes
<1>4. CASE Send
  <2>1. CASE served # "closed"
    <3>1. op' \in Operations
      BY <1>0, <1>4, <2>1, OpMoves DEF Send, GoTo, Places
    <3> QED
      BY <1>0, <1>4, <2>1, <3>1 DEF Send, MicTypes
  <2>2. CASE served = "closed"
    BY <1>3, <1>4, <2>2 DEF Send
  <2> QED
    BY <2>1, <2>2
<1>5. CASE GotOk
  <2>1. op' \in Operations
    BY <1>0, <1>5, OpMoves DEF GotOk, GoTo, Places
  <2> QED
    BY <1>0, <1>5, <2>1 DEF GotOk, MicTypes
<1>6. CASE GotError \/ Expires \/ ConfirmFails
  BY <1>3, <1>6 DEF GotError, Expires, ConfirmFails
<1>7. CASE Confirm
  <2> DEFINE on == op.want \/ Undoing
  <2>1. /\ file' = on /\ muted' = on /\ unknown' = FALSE
        /\ light' \in {on, light, FALSE}
        /\ Ends(Undoing) \/ Ends(TRUE)
    BY <1>7 DEF Confirm
  <2>2. {on} \subseteq BOOLEAN /\ Undoing \in BOOLEAN
    BY DEF Undoing
  <2> HIDE DEF on
  <2>3. {file, muted, unknown, light}' \subseteq BOOLEAN
    BY <1>0, <2>1, <2>2
  <2>4. {muted, unknown}' \subseteq BOOLEAN
    BY <2>3
  <2>5. {reconcile, retrying, notice}' \subseteq BOOLEAN /\ op' \in Operations
    BY <2>1, <2>2, <2>4, EndsTypes
  <2> QED
    BY <2>3, <2>5 DEF MicTypes
<1> QED
  BY <1>1, <1>2, <1>4, <1>5, <1>6, <1>7 DEF Works

LEMMA MicTypesTakes ==
  ASSUME MicTypes, NEW want \in BOOLEAN, NEW by \in Callers, Takes(want, by)
  PROVE  op' \in Operations /\ {unknown'} \subseteq BOOLEAN
<1>1. FirstStep(want) \in Places
  BY DEF FirstStep, Places
<1>2. [want |-> want, by |-> by, at |-> FirstStep(want)] \in Operations
  BY <1>1 DEF Operations
<1> QED
  BY <1>2 DEF Takes

LEMMA MicTypesOthers ==
  ASSUME MicTypes,
         \/ \E want \in BOOLEAN, by \in {"button", "call"} : Press(want, by)
         \/ \E by \in {"event", "worker"} : Reconcile(by)
         \/ Notified \/ Talks \/ DspWorks \/ ServeFails \/ DspCrashes \/ McuRestarts
  PROVE  MicTypes'
<1>0. /\ {file, light, muted, unknown, reconcile, retrying, notice} \subseteq BOOLEAN
      /\ op \in Operations
  BY DEF MicTypes
<1>1. ASSUME NEW want \in BOOLEAN, NEW by \in {"button", "call"}, Press(want, by)
      PROVE  MicTypes'
  <2>1. op' \in Operations /\ {unknown'} \subseteq BOOLEAN
    BY <1>1, MicTypesTakes DEF Press, Callers
  <2> QED
    BY <1>0, <1>1, <2>1 DEF Press, MicTypes
<1>2. ASSUME NEW by \in {"event", "worker"}, Reconcile(by) PROVE MicTypes'
  <2>1. op' \in Operations /\ {unknown'} \subseteq BOOLEAN
    <3>1. CASE Blocked
      BY <1>2, <3>1, MicTypesTakes DEF Reconcile, Callers
    <3>2. CASE ~Blocked
      BY <1>0, <1>2, <3>2 DEF Reconcile
    <3> QED
      BY <3>1, <3>2
  <2>2. {reconcile, retrying}' \subseteq BOOLEAN
    BY <1>0, <1>2 DEF Reconcile
  <2>3. UNCHANGED <<file, light, muted, notice>>
    BY <1>2 DEF Reconcile
  <2> QED
    BY <1>0, <2>1, <2>2, <2>3 DEF MicTypes
<1>3. CASE Notified
  BY <1>0, <1>3 DEF Notified, MicTypes
<1>4. CASE Talks \/ DspWorks \/ ServeFails \/ DspCrashes
  BY <1>4, MicKept DEF Talks, FeedbackStep, DspWorks, DspResets, DspBoots, RestoreReads,
     Restored, Serve, Executes, ServeOk, ServeFails, Answered, DspCrashes
<1>5. CASE McuRestarts
  <2>1. op' = NoOp /\ file' = file /\ muted' = file /\ unknown' = file
        /\ reconcile' = file /\ retrying' = FALSE /\ notice' = FALSE
        /\ light' = (light /\ file)
    BY <1>5 DEF McuRestarts
  <2>2. {light'} \subseteq BOOLEAN
    BY <2>1
  <2>3. op' \in Operations
    BY <1>0, <2>1, OpMoves
  <2> QED
    BY <1>0, <2>1, <2>2, <2>3 DEF MicTypes
<1> QED
  BY <1>1, <1>2, <1>3, <1>4, <1>5

LEMMA ServiceKept == ServiceTypes /\ UNCHANGED <<socket, dsp>> => ServiceTypes'
  BY DEF ServiceTypes, socket, dsp

LEMMA ServiceTypesMic ==
  ASSUME MicTypes, ServiceTypes,
         Works \/ Expires \/ ConfirmFails \/ McuRestarts
  PROVE  ServiceTypes'
<1>1. CASE ClearLight \/ RecordMute \/ Confirm \/ ConfirmFails
  BY <1>1, ServiceKept DEF ClearLight, RecordMute, Confirm, ConfirmFails
<1>2. CASE Send
  <2>1. [want |-> op.want \/ Undoing, open |-> TRUE] \in Requests
    BY DEF Requests, Undoing
  <2>2. requests' \in Seq(Requests)
    BY <1>2, <2>1, RequestSteps DEF Send, ServiceTypes
  <2> QED
    BY <1>2, <2>2 DEF Send, ServiceTypes, dsp
<1>3. CASE GotOk \/ GotError
  BY <1>3 DEF GotOk, GotError, ServiceTypes, dsp
<1>4. CASE Expires \/ McuRestarts
  <2>1. requests' \in Seq(Requests) /\ dispatched' \in Requests
    BY <1>4, GivenRequests DEF Expires, McuRestarts, AbandonRequest, Given, ServiceTypes
  <2> QED
    BY <1>4, <2>1 DEF Expires, McuRestarts, ServiceTypes, dsp
<1> QED
  BY <1>1, <1>2, <1>3, <1>4 DEF Works

LEMMA ServiceTypesDsp ==
  ASSUME MicTypes, ServiceTypes, DspWorks \/ ServeFails \/ DspCrashes
  PROVE  ServiceTypes'
<1>0. NoRequest \in Requests
  BY DEF NoRequest, Requests
<1>1. CASE DspResets
  <2>1. DOMAIN cell' = {"gain", "mic"} /\ {cell'["mic"]} \subseteq BOOLEAN
    <3>1. cell' = PowerOn
      BY <1>1 DEF DspResets, Dsp!Reset
    <3>2. DOMAIN PowerOn = {"gain", "mic"} /\ PowerOn["mic"] = FALSE
      BY DEF PowerOn
    <3> QED
      BY <3>1, <3>2
  <2> QED
    BY <1>1, <2>1 DEF DspResets, Dsp!Reset, ServiceTypes, socket
<1>2. CASE DspBoots
  BY <1>2 DEF DspBoots, Dsp!Boot, ServiceTypes
<1>3. CASE RestoreReads
  <2>1. [owner |-> "restore", cmd |-> Mute(TRUE), open |-> TRUE] \in Queued
    BY DEF Queued
  <2>2. CASE file
    <3>1. todo' \in Seq(Queued)
      <4>1. todo' = Append(todo, [owner |-> "restore", cmd |-> Mute(TRUE), open |-> TRUE])
        BY <1>3, <2>2 DEF RestoreReads, Dsp!Accept
      <4>2. todo \in Seq(Queued)
        BY DEF ServiceTypes
      <4> QED
        BY <2>1, <4>1, <4>2, QueueSteps
    <3> QED
      BY <1>3, <2>2, <3>1 DEF RestoreReads, Dsp!Accept, ServiceTypes
  <2>3. CASE ~file
    BY <1>3, <2>3 DEF RestoreReads, ServiceTypes, dsp
  <2> QED
    BY <2>2, <2>3
<1>4. CASE Restored
  BY <1>4 DEF Restored, Dsp!AnswerOk, ServiceTypes
<1>5. CASE Serve
  <2>1. Head(requests) \in Requests /\ Tail(requests) \in Seq(Requests)
    BY <1>5, RequestSteps DEF Serve, ServiceTypes
  <2>2. [owner |-> "mic", cmd |-> Mute(Head(requests).want), open |-> TRUE] \in Queued
    BY <2>1 DEF Queued, Requests
  <2>3. todo' \in Seq(Queued)
    BY <1>5, <2>2, QueueSteps DEF Serve, Dsp!Accept, ServiceTypes
  <2> QED
    BY <1>5, <2>1, <2>3 DEF Serve, Dsp!Accept, ServiceTypes
<1>6. CASE Executes
  <2>1. todo # <<>> /\ todo \in Seq(Queued)
    BY <1>6 DEF Executes, Dsp!Execute, ServiceTypes
  <2>2. Head(todo) \in Queued /\ todo' \in Seq(Queued)
    <3>1. /\ Tail(todo) \in Seq(Queued) /\ Head(todo) = todo[1] /\ Len(todo) # 0
          /\ Len(todo) \in Nat /\ \A i \in 1 .. Len(todo) : todo[i] \in Queued
      BY <2>1, QueueSteps
    <3>2. 1 \in 1 .. Len(todo)
      BY <3>1
    <3>3. todo' = Tail(todo)
      BY <1>6 DEF Executes, Dsp!Execute
    <3> QED
      BY <3>1, <3>2, <3>3
  <2>3. Head(todo).cmd.op = "mic" /\ {Head(todo).cmd.value} \subseteq BOOLEAN
    <3>1. PICK on \in BOOLEAN : Head(todo).cmd = Mute(on)
      BY <2>2 DEF Queued
    <3> QED
      BY <3>1 DEF Mute
  <2>4. cell' = [cell EXCEPT !["mic"] = Head(todo).cmd.value]
    BY <1>6, <2>3 DEF Executes, Dsp!Execute
  <2>5. DOMAIN cell' = {"gain", "mic"} /\ {cell'["mic"]} \subseteq BOOLEAN
    BY <2>3, <2>4 DEF ServiceTypes
  <2>6. DOMAIN stage' = {"restore", "mic", "session"}
    BY <1>6 DEF Executes, Dsp!Execute
  <2>7. UNCHANGED <<up, served, requests, dispatched, outcome>>
    BY <1>6 DEF Executes, Dsp!Execute, socket
  <2> QED
    BY <2>2, <2>5, <2>6, <2>7 DEF ServiceTypes
<1>7. CASE ServeOk
  BY <1>0, <1>7 DEF ServeOk, Answered, Dsp!AnswerOk, ServiceTypes
<1>8. CASE ServeFails
  <2>1. /\ todo \in Seq(Queued) /\ DOMAIN todo = 1 .. Len(todo)
        /\ (1 \in DOMAIN todo => todo # <<>>)
    BY LenProperties, EmptySeq DEF ServiceTypes
  <2>2. \/ todo' = todo
        \/ \E i \in 1 .. Len(todo) : todo' = Dsp!Without(i)
        \/ todo # <<>> /\ todo' = [todo EXCEPT ![1].open = FALSE]
    BY <1>8, <2>1 DEF ServeFails, Dsp!AnswerError, Dsp!Waiting
  <2>3. todo' \in Seq(Queued)
    BY <2>1, <2>2, QueueSteps
  <2> QED
    BY <1>0, <1>8, <2>3 DEF ServeFails, Answered, Dsp!AnswerError, ServiceTypes
<1>9. CASE DspCrashes
  <2>1. /\ up' = FALSE /\ served' = "closed" /\ requests' = <<>> /\ todo' = <<>>
        /\ dispatched' = NoRequest /\ outcome' \in {outcome, "error"} /\ cell' = cell
        /\ DOMAIN stage' = {"restore", "mic", "session"}
    BY <1>9 DEF DspCrashes, Dsp!Crash
  <2>2. requests' \in Seq(Requests) /\ todo' \in Seq(Queued)
    BY <2>1
  <2> QED
    BY <1>0, <2>1, <2>2 DEF ServiceTypes
<1> QED
  BY <1>1, <1>2, <1>3, <1>4, <1>5, <1>6, <1>7, <1>8, <1>9 DEF DspWorks

LEMMA TypeStep == ASSUME TypeOK, [Next]_mvars PROVE TypeOK'
<1>0. MicTypes /\ ServiceTypes /\ VoiceTypes
  BY TypeParts
<1>1. MicTypes'
  BY <1>0, MicTypesWorks, MicTypesOthers, MicKept DEF Next, mvars
<1>2. ServiceTypes'
  <2>1. CASE \/ \E want \in BOOLEAN, by \in {"button", "call"} : Press(want, by)
             \/ \E by \in {"event", "worker"} : Reconcile(by)
             \/ Notified \/ Talks \/ UNCHANGED mvars
    BY <1>0, <2>1, ServiceKept DEF Press, Reconcile, Notified, Talks, FeedbackStep, mvars
  <2> QED
    BY <1>0, <2>1, ServiceTypesMic, ServiceTypesDsp DEF Next
<1>3. VoiceTypes'
  <2>0. {light} \subseteq BOOLEAN
    BY <1>0 DEF MicTypes
  <2>1. CASE Talks
    BY <1>0, <2>0, <2>1, VoiceTalks
  <2>2. CASE Notified
    BY <1>0, <2>0, <2>2, VoiceTalks, VoiceKept DEF Notified
  <2>3. CASE \/ \E want \in BOOLEAN, by \in {"button", "call"} : Press(want, by)
             \/ \E by \in {"event", "worker"} : Reconcile(by)
             \/ RecordMute \/ Send \/ GotOk \/ GotError \/ Expires \/ ConfirmFails
             \/ DspWorks \/ ServeFails \/ DspCrashes \/ UNCHANGED mvars
    <3>1. UNCHANGED voice
      BY <2>3 DEF Press, Reconcile, RecordMute, Send, GotOk, GotError, Expires,
         ConfirmFails, DspWorks, DspResets, DspBoots, RestoreReads, Restored, Serve,
         Executes, ServeOk, ServeFails, Answered, DspCrashes, mvars
    <3> QED
      BY <1>0, <3>1, VoiceKept
  <2>4. CASE ClearLight \/ Confirm \/ McuRestarts
    BY <1>0, <2>4 DEF ClearLight, Confirm, McuRestarts, OtherVoice, VoiceTypes,
       Voice!VoiceTypeOK
  <2> QED
    BY <2>1, <2>2, <2>3, <2>4 DEF Next, Works
<1> QED
  BY <1>1, <1>2, <1>3 DEF TypeOK, MicTypes, ServiceTypes, VoiceTypes

-----------------------------------------------------------------------------
(* The invariant behind LightTruth. *)

LEMMA MicInvInit == Init => MicInv
<1> SUFFICES ASSUME Init PROVE MicInv
  OBVIOUS
<1>1. /\ ~up /\ served = "closed" /\ todo = <<>> /\ requests = <<>> /\ Len(requests) = 0
      /\ \A c \in {"restore", "mic"} : stage[c] = "idle"
  BY DEF Init, OwnInit, DspInit, Dsp!Init
<1>2. /\ op = NoOp /\ op.at = "none" /\ op.want = FALSE
      /\ light = FALSE /\ muted = file /\ unknown = file /\ reconcile = file
      /\ outcome = "none" /\ ~dispatched.open
  BY DEF Init, OwnInit, NoOp, NoRequest
<1>3. RestoreFirst
  BY <1>1 DEF RestoreFirst
<1>4. WaitsForLast
  BY <1>1, <1>2 DEF WaitsForLast, Awaits, At, NoneOpen
<1>5. InOrder
  BY <1>2 DEF InOrder, Awaits, At, Blocked
<1>6. SettledMute
  BY <1>2 DEF SettledMute, Agreed, At
<1> QED
  BY <1>3, <1>4, <1>5, <1>6 DEF MicInv

(* While nobody waits for the socket, a step of the controller changes     *)
(* nothing of what is on its way to the DSP.                               *)
LEMMA NobodyWaits ==
  ASSUME MicInv, ~Awaits, ~Awaits', UNCHANGED <<socket, dsp>>
  PROVE  RestoreFirst' /\ WaitsForLast'
<1>1. UNCHANGED <<served, requests, dispatched, outcome, up, cell, todo, stage>>
  BY DEF socket, dsp
<1>2. RestoreFirst'
  BY <1>1 DEF MicInv, RestoreFirst, ServesOne
<1>3. WaitsForLast'
  BY <1>1 DEF MicInv, WaitsForLast, NoneOpen
<1> QED
  BY <1>2, <1>3

(* An operation that ends without success leaves work for the worker; one  *)
(* that ends with success knows what the DSP does.                         *)
LEMMA EndsOrder ==
  ASSUME MicTypes, NEW failed \in BOOLEAN, Ends(failed),
         light' => Blocked', unknown' => failed, outcome' = "none"
  PROVE  InOrder' /\ ~Awaits' /\ (failed => ~Agreed')
<1>1. op' = NoOp /\ op'.at = "none" /\ op'.want = FALSE
  BY DEF Ends, NoOp
<1>2. failed => reconcile' \/ retrying'
  BY DEF Ends
<1>3. InOrder'
  BY <1>1, <1>2 DEF InOrder, Awaits, At
<1> QED
  BY <1>1, <1>2, <1>3 DEF Awaits, At, Agreed

LEMMA FailsOrder ==
  ASSUME MicTypes, InOrder, StepFails, UNCHANGED <<file, light>>, outcome' = "none",
         op.at \notin {"none", "clear", "record"}
  PROVE  InOrder' /\ ~Awaits' /\ ~Agreed'
<1>1. CASE ~op.want /\ ~Undoing
  <2>1. op' = [op EXCEPT !.at = "restore"] /\ "restore" \in Places
        /\ UNCHANGED <<muted, unknown>>
    BY <1>1 DEF StepFails, GoTo, Places
  <2>2. op'.at = "restore" /\ op'.want = op.want
    BY <2>1, OpMoves DEF MicTypes
  <2>3. unknown /\ ~light
    BY <1>1 DEF InOrder, At
  <2>4. op' # NoOp
    BY <2>2 DEF NoOp
  <2> QED
    BY <1>1, <2>1, <2>2, <2>3, <2>4 DEF InOrder, Awaits, At, Agreed, Blocked
<1>2. CASE ~(~op.want /\ ~Undoing)
  <2>1. Ends(TRUE) /\ UNCHANGED <<muted, unknown>>
    BY <1>2 DEF StepFails
  <2>2. light' => Blocked'
    BY <2>1 DEF InOrder, Blocked
  <2> QED
    BY <2>1, <2>2, EndsOrder
<1> QED
  BY <1>1, <1>2

(* An operation begins, with the first of its steps. *)
LEMMA TakesOrder ==
  ASSUME MicTypes, InOrder, NEW want \in BOOLEAN, NEW by, Takes(want, by),
         UNCHANGED <<file, light, outcome>>
  PROVE  InOrder' /\ ~Awaits /\ ~Awaits' /\ ~Agreed'
<1>1. /\ op = NoOp /\ unknown' = TRUE
      /\ op' = [want |-> want, by |-> by, at |-> FirstStep(want)]
  BY DEF Takes
<1>2. /\ op'.want = want /\ op'.at = IF want THEN "record" ELSE "clear"
      /\ op'.at # "none" /\ op' # NoOp
  BY <1>1 DEF FirstStep, NoOp
<1>3. ~Awaits /\ outcome = "none"
  BY <1>1 DEF InOrder, Awaits, At
<1> QED
  BY <1>1, <1>2, <1>3 DEF InOrder, Awaits, At, Agreed, Blocked

LEMMA InvPress ==
  ASSUME MicTypes, MicInv, NEW want \in BOOLEAN, NEW by, Press(want, by)
  PROVE  MicInv'
<1>1. Takes(want, by) /\ UNCHANGED <<file, light, socket, dsp>>
  BY DEF Press
<1>2. outcome' = outcome
  BY <1>1 DEF socket
<1> QED
  BY <1>1, <1>2, TakesOrder, NobodyWaits DEF MicInv, SettledMute

LEMMA InvReconcile ==
  ASSUME MicTypes, MicInv, NEW by, Reconcile(by)
  PROVE  MicInv'
<1>1. UNCHANGED <<file, light, muted, socket, dsp>>
  BY DEF Reconcile
<1>2. UNCHANGED <<served, requests, dispatched, outcome, up, cell, todo, stage>>
  BY <1>1 DEF socket, dsp
<1>3. CASE Blocked
  <2>1. Takes(TRUE, by)
    BY <1>3 DEF Reconcile
  <2> QED
    BY <1>1, <1>2, <2>1, TakesOrder, NobodyWaits DEF MicInv, SettledMute
<1>4. CASE ~Blocked
  <2>1. op = NoOp /\ UNCHANGED <<op, unknown>>
    BY <1>4 DEF Reconcile
  <2>2. op.at = "none" /\ op.want = FALSE /\ ~muted /\ ~unknown
    BY <1>4, <2>1 DEF NoOp, Blocked
  <2>3. ~Awaits /\ ~Awaits' /\ ~Agreed'
    BY <1>1, <2>1, <2>2 DEF Awaits, At, Agreed
  <2>4. InOrder'
    BY <1>1, <1>2, <2>1, <2>2 DEF MicInv, InOrder, Awaits, At, Blocked
  <2> QED
    BY <1>1, <2>3, <2>4, NobodyWaits DEF MicInv, SettledMute
<1> QED
  BY <1>3, <1>4

(* The light goes dark before an unmute is asked for, a mute is recorded   *)
(* before it is.                                                           *)
LEMMA InvClearLight ==
  ASSUME MicTypes, MicInv, ClearLight PROVE MicInv'
<1>1. op.at = "clear" /\ UNCHANGED <<file, muted, unknown, socket, dsp>>
  BY DEF ClearLight, At
<1>2. outcome' = outcome /\ outcome = "none" /\ ~Awaits /\ ~op.want /\ unknown
  BY <1>1 DEF MicInv, InOrder, Awaits, At, socket
<1>3. InOrder' /\ ~Awaits' /\ ~Agreed'
  <2>1. CASE light' = FALSE /\ GoTo("send")
    <3>1. op' = [op EXCEPT !.at = "send"] /\ "send" \in Places
      BY <2>1 DEF GoTo, Places
    <3>2. op'.at = "send" /\ op'.want = op.want /\ op' # NoOp
      BY <3>1, OpMoves DEF MicTypes, NoOp
    <3> QED
      BY <1>1, <1>2, <2>1, <3>2 DEF InOrder, Awaits, At, Agreed
  <2>2. CASE Ends(TRUE)
    <3>1. light' => Blocked'
      BY <1>1, <1>2 DEF Blocked
    <3> QED
      BY <1>2, <2>2, <3>1, EndsOrder
  <2> QED
    BY <2>1, <2>2 DEF ClearLight
<1> QED
  BY <1>1, <1>2, <1>3, NobodyWaits DEF MicInv, SettledMute

LEMMA InvRecordMute ==
  ASSUME MicTypes, MicInv, RecordMute PROVE MicInv'
<1>1. op.at = "record" /\ UNCHANGED <<light, muted, unknown, socket, dsp>>
  BY DEF RecordMute, At
<1>2. outcome' = outcome /\ outcome = "none" /\ ~Awaits /\ op.want /\ unknown
  BY <1>1 DEF MicInv, InOrder, Awaits, At, socket
<1>3. InOrder' /\ ~Awaits' /\ ~Agreed'
  <2>1. CASE file' = TRUE /\ GoTo("send")
    <3>1. op' = [op EXCEPT !.at = "send"] /\ "send" \in Places
      BY <2>1 DEF GoTo, Places
    <3>2. op'.at = "send" /\ op'.want = op.want /\ op' # NoOp
      BY <3>1, OpMoves DEF MicTypes, NoOp
    <3> QED
      BY <1>1, <1>2, <2>1, <3>2 DEF InOrder, Awaits, At, Agreed, Blocked
  <2>2. CASE Ends(TRUE)
    <3>1. light' => Blocked'
      BY <1>1, <1>2 DEF Blocked
    <3> QED
      BY <1>2, <2>2, <3>1, EndsOrder
  <2> QED
    BY <2>1, <2>2 DEF RecordMute
<1> QED
  BY <1>1, <1>2, <1>3, NobodyWaits DEF MicInv, SettledMute

(* The end of setLocked: a mute that is shown was agreed with the DSP, and *)
(* what only undoes an unmute is left to the worker.                       *)
LEMMA InvConfirm ==
  ASSUME MicTypes, MicInv, Confirm PROVE MicInv'
<1> DEFINE on == op.want \/ Undoing
<1>1. /\ op.at \in {"confirm", "confirm again"}
      /\ file' = on /\ muted' = on /\ unknown' = FALSE
      /\ \/ light' = on /\ Ends(Undoing)
         \/ light' \in {light, FALSE} /\ Ends(TRUE)
      /\ UNCHANGED <<socket, dsp>>
  BY DEF Confirm, At
<1>2. UNCHANGED <<served, requests, dispatched, outcome, up, cell, todo, stage>>
  BY <1>1 DEF socket, dsp
<1>3. outcome = "none" /\ ~Awaits
  BY <1>1 DEF MicInv, InOrder, Awaits, At
<1>4. op' = NoOp /\ op'.at = "none" /\ op'.want = FALSE
  <2>1. op' = NoOp
    BY <1>1 DEF Ends
  <2> QED
    BY <2>1 DEF NoOp
<1>5. light' => on
  BY <1>1 DEF MicInv, InOrder, At
<1>6. light' => Blocked'
  BY <1>1, <1>5 DEF Blocked
<1>7. InOrder' /\ ~Awaits'
  <2>1. Undoing \in BOOLEAN /\ unknown' = FALSE /\ outcome' = "none"
    <3>1. Undoing \in BOOLEAN
      BY DEF Undoing
    <3> QED
      BY <1>1, <1>2, <1>3, <3>1
  <2>2. CASE Ends(Undoing)
    BY <1>6, <2>1, <2>2, EndsOrder
  <2>3. CASE Ends(TRUE)
    BY <1>6, <2>1, <2>3, EndsOrder
  <2> QED
    BY <1>1, <2>2, <2>3
<1>8. SettledMute'
  <2>1. CASE op.want /\ op.at = "confirm"
    <3>1. /\ file /\ requests = <<>> /\ stage["mic"] = "idle"
          /\ served = "open" => todo = <<>> /\ cell["mic"]
      BY <2>1 DEF MicInv, SettledMute, Agreed, At
    <3>2. file'
      BY <1>1, <2>1
    <3> QED
      BY <1>2, <3>1, <3>2 DEF SettledMute
  <2>2. CASE op.at = "confirm again"
    <3>1. Ends(TRUE)
      BY <1>1, <2>2 DEF Undoing, Ends
    <3>2. ~Agreed'
      BY <1>2, <1>3, <1>1, <1>6, <3>1, EndsOrder
    <3> QED
      BY <3>2 DEF SettledMute
  <2>3. CASE ~op.want /\ op.at = "confirm"
    <3>1. muted' = FALSE
      BY <1>1, <2>3 DEF Undoing
    <3> QED
      BY <1>4, <3>1 DEF SettledMute, Agreed, At
  <2> QED
    BY <1>1, <2>1, <2>2, <2>3
<1> QED
  BY <1>1, <1>3, <1>7, <1>8, NobodyWaits DEF MicInv

LEMMA InvConfirmFails ==
  ASSUME MicTypes, MicInv, ConfirmFails PROVE MicInv'
<1>1. /\ op.at \in {"confirm", "confirm again"} /\ StepFails
      /\ UNCHANGED <<file, light, socket, dsp>>
  BY DEF ConfirmFails, At
<1>2. ~Awaits /\ outcome' = "none"
  BY <1>1 DEF MicInv, InOrder, Awaits, At, socket
<1> QED
  BY <1>1, <1>2, FailsOrder, NobodyWaits DEF MicInv, SettledMute

(* The request of an operation is the last in the socket. *)
LEMMA InvSend ==
  ASSUME MicTypes, ServiceTypes, MicInv, Send PROVE MicInv'
<1>1. /\ op.at \in {"send", "restore"}
      /\ UNCHANGED <<file, light, served, dispatched, outcome, up, cell, todo, stage>>
  BY DEF Send, At, dsp
<1>2. ~Awaits /\ outcome = "none" /\ NoneOpen
  BY <1>1 DEF MicInv, InOrder, Awaits, At, WaitsForLast
<1>3. CASE served = "closed"
  <2>1. StepFails /\ requests' = requests
    BY <1>3 DEF Send
  <2>2. InOrder' /\ ~Awaits' /\ ~Agreed'
    BY <1>1, <1>2, <2>1, FailsOrder DEF MicInv
  <2>3. UNCHANGED <<socket, dsp>>
    BY <1>3 DEF Send, socket
  <2> QED
    BY <1>2, <2>2, <2>3, NobodyWaits DEF MicInv, SettledMute
<1>4. CASE served # "closed"
  <2> DEFINE place == IF op.at = "send" THEN "answer" ELSE "answer again"
             asked == [want |-> op.want \/ Undoing, open |-> TRUE]
  <2>1. /\ op' = [op EXCEPT !.at = place] /\ place \in Places
        /\ requests' = Append(requests, asked)
        /\ UNCHANGED <<muted, unknown, reconcile, retrying>>
    BY <1>4 DEF Send, GoTo, At, Places
  <2>2. op'.at = place /\ op'.want = op.want /\ op' # NoOp
    BY <2>1, OpMoves DEF MicTypes, NoOp
  <2>3. InOrder' /\ Awaits' /\ ~Agreed'
    <3>1. /\ op'.at \in {"answer", "answer again"} /\ op'.want = op.want
          /\ op'.at = "answer again" => op.at = "restore"
      BY <1>1, <2>2
    <3>2. outcome' = "none" /\ unknown' = unknown /\ muted' = muted
      BY <1>1, <1>2, <2>1
    <3> HIDE DEF place, asked
    <3>3. /\ unknown /\ (op.want => file) /\ (~op.want => ~light)
          /\ op.at = "restore" => ~op.want
      BY <1>1 DEF MicInv, InOrder, At
    <3> QED
      BY <1>1, <2>2, <3>1, <3>2, <3>3 DEF InOrder, Awaits, At, Agreed, Blocked
  <2>4. RestoreFirst'
    BY <1>1 DEF MicInv, RestoreFirst, ServesOne
  <2>5. asked \in Requests
    BY DEF Requests, Undoing
  <2>6. /\ requests' # <<>> /\ Len(requests') = Len(requests) + 1 /\ Len(requests) \in Nat
        /\ requests'[Len(requests) + 1] = asked
        /\ \A i \in 1 .. Len(requests) : requests'[i] = requests[i]
    <3> HIDE DEF asked
    <3> QED
      BY <2>1, <2>5, RequestSteps DEF ServiceTypes
  <2>7. AskedFor' = asked
    <3>1. (op'.want \/ Undoing') <=> (op.want \/ Undoing)
      BY <1>1, <2>2 DEF Undoing
    <3> QED
      BY <3>1, <2>2, <1>1 DEF AskedFor, Undoing
  <2>8. OpenIsLast'
    <3> HIDE DEF asked
    <3> QED
      BY <1>1, <1>2, <2>6, <2>7 DEF OpenIsLast, NoneOpen
  <2> QED
    BY <1>1, <1>2, <2>3, <2>4, <2>8 DEF MicInv, WaitsForLast, SettledMute
<1> QED
  BY <1>3, <1>4

LEMMA InvGotOk ==
  ASSUME MicTypes, MicInv, GotOk PROVE MicInv'
<1> DEFINE place == IF op.at = "answer" THEN "confirm" ELSE "confirm again"
<1>0. op.at \in {"answer", "answer again"}
  BY DEF GotOk, At
<1>1. /\ op.at \in {"answer", "answer again"} /\ outcome = "ok" /\ outcome' = "none"
      /\ op' = [op EXCEPT !.at = place] /\ place \in Places
      /\ UNCHANGED <<file, light, muted, unknown, reconcile, retrying, served, requests,
                     dispatched, up, cell, todo, stage>>
  BY DEF GotOk, At, GoTo, Places, dsp
<1>2. op'.at = place /\ op'.want = op.want /\ op' # NoOp
  BY <1>1, OpMoves DEF MicTypes, NoOp
<1>3. InOrder' /\ ~Awaits'
  <2>1. /\ unknown /\ (op.want => file) /\ (~op.want => ~light)
        /\ op.at = "answer again" => ~op.want
    BY <1>1 DEF MicInv, InOrder, At
  <2>2. /\ op'.at \in {"confirm", "confirm again"}
        /\ op'.at = "confirm again" => op.at = "answer again"
    BY <1>0, <1>2
  <2> HIDE DEF place
  <2> QED
    BY <1>1, <1>2, <2>1, <2>2 DEF InOrder, Awaits, At, Blocked
<1>4. RestoreFirst'
  BY <1>1 DEF MicInv, RestoreFirst, ServesOne
<1>5. WaitsForLast'
  BY <1>1, <1>3 DEF MicInv, WaitsForLast, NoneOpen
<1>6. SettledMute'
  <2>1. Agreed' => Agreed
    <3>1. op'.at # "none" /\ op'.at # "answer" /\ (op'.at = "confirm" => op.at = "answer")
      BY <1>0, <1>2
    <3> HIDE DEF place
    <3> QED
      BY <1>1, <1>2, <3>1 DEF Agreed, At
  <2> QED
    BY <1>1, <2>1 DEF MicInv, SettledMute
<1> QED
  BY <1>3, <1>4, <1>5, <1>6 DEF MicInv

LEMMA InvGotError ==
  ASSUME MicTypes, MicInv, GotError PROVE MicInv'
<1>1. /\ op.at \in {"answer", "answer again"} /\ outcome = "error" /\ outcome' = "none"
      /\ StepFails
      /\ UNCHANGED <<file, light, served, requests, dispatched, up, cell, todo, stage>>
  BY DEF GotError, At, dsp
<1>2. InOrder' /\ ~Awaits' /\ ~Agreed'
  BY <1>1, FailsOrder DEF MicInv
<1>3. RestoreFirst' /\ WaitsForLast'
  BY <1>1, <1>2 DEF MicInv, RestoreFirst, ServesOne, WaitsForLast, NoneOpen
<1> QED
  BY <1>2, <1>3 DEF MicInv, SettledMute

(* Giving up, and starting again, leave only requests of nobody. *)
LEMMA GivesUp ==
  ASSUME ServiceTypes, MicInv, AbandonRequest, UNCHANGED <<served, dsp>>
  PROVE  RestoreFirst' /\ NoneOpen'
<1>1. requests' = Given /\ dispatched' = GivenUp(dispatched)
  BY DEF AbandonRequest, Given
<1>2. UNCHANGED <<up, cell, todo, stage>>
  BY DEF dsp
<1>3. /\ ~dispatched'.open /\ dispatched'.want = dispatched.want
      /\ \A i \in 1 .. Len(requests') : ~requests'[i].open
  BY <1>1, GivenRequests DEF ServiceTypes
<1> QED
  BY <1>2, <1>3 DEF MicInv, RestoreFirst, ServesOne, NoneOpen

LEMMA InvExpires ==
  ASSUME MicTypes, ServiceTypes, MicInv, Expires PROVE MicInv'
<1>1. /\ op.at \in {"answer", "answer again"} /\ outcome' = "none" /\ StepFails
      /\ AbandonRequest /\ UNCHANGED <<file, light, served, dsp>>
  BY DEF Expires, At
<1>2. InOrder' /\ ~Awaits' /\ ~Agreed'
  BY <1>1, FailsOrder DEF MicInv
<1> QED
  BY <1>1, <1>2, GivesUp DEF MicInv, SettledMute, WaitsForLast

LEMMA InvRestarts ==
  ASSUME MicTypes, ServiceTypes, MicInv, McuRestarts PROVE MicInv'
<1>1. /\ AbandonRequest /\ outcome' = "none" /\ UNCHANGED <<file, served, dsp>>
      /\ op' = NoOp /\ muted' = file /\ unknown' = file /\ reconcile' = file
      /\ light' = (light /\ file)
  BY DEF McuRestarts
<1>2. op'.at = "none" /\ op'.want = FALSE
  BY <1>1 DEF NoOp
<1>3. InOrder' /\ ~Awaits'
  BY <1>1, <1>2 DEF InOrder, Awaits, At, Blocked
<1>4. ~Agreed'
  BY <1>1, <1>2 DEF Agreed, At
<1> QED
  BY <1>1, <1>3, <1>4, GivesUp DEF MicInv, SettledMute, WaitsForLast

(* Steps that leave the operation and what it waits for as they are. *)
LEMMA SameOrder ==
  ASSUME MicInv, UNCHANGED <<mic, outcome>>
  PROVE  /\ InOrder' /\ (Agreed' <=> Agreed) /\ (Awaits' <=> Awaits)
         /\ AskedFor' = AskedFor /\ file' = file
BY DEF MicInv, InOrder, mic, Agreed, Awaits, At, Blocked, AskedFor, Undoing

LEMMA InvOthers ==
  ASSUME MicInv, Notified \/ Talks \/ UNCHANGED mvars PROVE MicInv'
<1>1. UNCHANGED <<file, light, muted, unknown, op, reconcile, retrying, socket, dsp>>
  BY DEF Notified, Talks, FeedbackStep, mic, mvars
<1>2. UNCHANGED <<served, requests, dispatched, outcome, up, cell, todo, stage>>
  BY <1>1 DEF socket, dsp
<1> QED
  BY <1>1, <1>2 DEF MicInv, RestoreFirst, ServesOne, WaitsForLast, NoneOpen, OpenIsLast,
     AskedFor, Undoing, InOrder, SettledMute, Agreed, Awaits, At, Blocked

(* The service comes up, resets the DSP or goes away. *)
LEMMA InvResets == ASSUME MicInv, DspResets PROVE MicInv'
<1>1. ~up /\ UNCHANGED <<mic, served, requests, dispatched, outcome, up, todo, stage>>
  BY DEF DspResets, Dsp!Reset, socket
<1>2. served = "closed"
  BY <1>1 DEF MicInv, RestoreFirst
<1>3. RestoreFirst'
  BY <1>1, <1>2 DEF MicInv, RestoreFirst
<1> QED
  BY <1>1, <1>2, <1>3, SameOrder
     DEF MicInv, WaitsForLast, NoneOpen, OpenIsLast, SettledMute

LEMMA InvBoots == ASSUME MicInv, DspBoots PROVE MicInv'
<1>1. /\ ~up /\ up' = TRUE /\ served' = "booted"
      /\ UNCHANGED <<mic, requests, dispatched, outcome, cell, todo, stage>>
  BY DEF DspBoots, Dsp!Boot
<1>2. served = "closed"
  BY <1>1 DEF MicInv, RestoreFirst
<1>3. RestoreFirst'
  BY <1>1, <1>2 DEF MicInv, RestoreFirst
<1> QED
  BY <1>1, <1>2, <1>3, SameOrder
     DEF MicInv, WaitsForLast, NoneOpen, OpenIsLast, SettledMute

LEMMA InvCrashes ==
  ASSUME MicTypes, ServiceTypes, MicInv, DspCrashes PROVE MicInv'
<1>1. /\ up' = FALSE /\ served' = "closed" /\ requests' = <<>> /\ todo' = <<>>
      /\ dispatched' = NoRequest
      /\ outcome' = IF outcome = "none" /\ Awaits THEN "error" ELSE outcome
      /\ stage'["mic"] = "idle" /\ stage'["restore"] = "idle"
      /\ UNCHANGED mic
  BY DEF DspCrashes, Dsp!Crash, Awaits
<1>2. RestoreFirst'
  BY <1>1 DEF RestoreFirst
<1>3. NoneOpen' /\ Len(requests') = 0
  BY <1>1 DEF NoneOpen, NoRequest
<1>4. UNCHANGED <<file, light, muted, unknown, op, reconcile, retrying>>
  BY <1>1 DEF mic
<1>5. Awaits' <=> Awaits
  BY <1>4 DEF Awaits, At
<1>6. WaitsForLast'
  BY <1>1, <1>3, <1>5 DEF WaitsForLast
<1>7. InOrder'
  BY <1>1, <1>4, <1>5 DEF MicInv, InOrder, At, Blocked
<1>8. SettledMute'
  <2>1. Agreed' => Agreed
    BY <1>1, <1>4 DEF Agreed, At
  <2> QED
    BY <1>1, <1>4, <2>1 DEF MicInv, SettledMute
<1> QED
  BY <1>2, <1>6, <1>7, <1>8 DEF MicInv

(* The restore: the file decides, and a mute that was agreed is in it. *)
LEMMA InvRestoreReads ==
  ASSUME MicTypes, ServiceTypes, MicInv, RestoreReads PROVE MicInv'
<1>1. /\ served = "booted" /\ UNCHANGED <<mic, requests, dispatched, outcome, up, cell>>
  BY DEF RestoreReads, Dsp!Accept, dsp
<1>2. /\ todo = <<>> /\ stage["mic"] = "idle" /\ stage["restore"] = "idle" /\ up
  BY <1>1 DEF MicInv, RestoreFirst
<1>3. RestoreFirst' /\ stage'["mic"] = "idle" /\ (~file => todo' = <<>>)
      /\ served' = (IF file THEN "restoring" ELSE "open")
  <2>1. CASE file
    <3> DEFINE entry == [owner |-> "restore", cmd |-> Mute(TRUE), open |-> TRUE]
    <3>1. /\ served' = "restoring" /\ todo' = Append(todo, entry)
          /\ stage' = [stage EXCEPT !["restore"] = "accepted"]
      BY <2>1 DEF RestoreReads, Dsp!Accept
    <3>2. stage'["restore"] = "accepted" /\ stage'["mic"] = "idle"
      BY <1>2, <3>1 DEF ServiceTypes
    <3>3. entry \in Queued
      BY DEF Queued
    <3>4. todo \in Seq(Queued) /\ Len(todo) = 0
      BY <1>2 DEF ServiceTypes
    <3>5. Len(todo') = 1 /\ todo'[1] = entry
      <4> HIDE DEF entry
      <4> QED
        BY <3>1, <3>3, <3>4, QueueSteps
    <3> QED
      BY <1>1, <1>2, <2>1, <3>1, <3>2, <3>5 DEF RestoreFirst
  <2>2. CASE ~file
    <3>1. served' = "open" /\ UNCHANGED <<up, cell, todo, stage>>
      BY <2>2 DEF RestoreReads, dsp
    <3>2. Len(todo) = 0
      BY <1>2
    <3> QED
      BY <1>1, <1>2, <2>2, <3>1, <3>2 DEF RestoreFirst, ServesOne
  <2> QED
    BY <2>1, <2>2
<1>4. WaitsForLast'
  BY <1>1, SameOrder DEF MicInv, WaitsForLast, NoneOpen, OpenIsLast
<1>5. SettledMute'
  BY <1>1, <1>2, <1>3, SameOrder DEF MicInv, SettledMute
<1> QED
  BY <1>1, <1>3, <1>4, <1>5, SameOrder DEF MicInv

LEMMA InvRestored ==
  ASSUME MicTypes, ServiceTypes, MicInv, Restored PROVE MicInv'
<1>1. /\ served = "restoring" /\ served' = "open" /\ stage["restore"] = "executed"
      /\ stage' = [stage EXCEPT !["restore"] = "idle"]
      /\ UNCHANGED <<mic, requests, dispatched, outcome, up, cell, todo>>
  BY DEF Restored, Dsp!AnswerOk
<1>2. /\ todo = <<>> /\ cell["mic"] /\ stage["mic"] = "idle" /\ up /\ Len(todo) = 0
  BY <1>1 DEF MicInv, RestoreFirst
<1>3. stage'["mic"] = "idle" /\ stage'["restore"] = "idle"
  BY <1>1, <1>2 DEF ServiceTypes
<1>4. RestoreFirst'
  <2>1. served' = "open" /\ up' /\ todo' = <<>> /\ Len(todo') = 0
    BY <1>1, <1>2
  <2> QED
    BY <1>3, <2>1 DEF RestoreFirst, ServesOne
<1>5. WaitsForLast'
  BY <1>1, SameOrder DEF MicInv, WaitsForLast, NoneOpen, OpenIsLast
<1>6. SettledMute'
  BY <1>1, <1>2, <1>3, SameOrder DEF MicInv, SettledMute
<1> QED
  BY <1>1, <1>4, <1>5, <1>6, SameOrder DEF MicInv

(* The server of the socket takes the next request. *)
LEMMA InvServe ==
  ASSUME MicTypes, ServiceTypes, MicInv, Serve PROVE MicInv'
<1> DEFINE entry == [owner |-> "mic", cmd |-> Mute(Head(requests).want), open |-> TRUE]
<1>1. /\ served = "open" /\ requests # <<>> /\ stage["mic"] = "idle"
      /\ dispatched = NoRequest /\ dispatched' = Head(requests)
      /\ requests' = Tail(requests) /\ todo' = Append(todo, entry)
      /\ stage' = [stage EXCEPT !["mic"] = "accepted"]
      /\ UNCHANGED <<mic, served, outcome, up, cell>>
  BY DEF Serve, Dsp!Accept
<1>2. /\ Head(requests) = requests[1] /\ Head(requests) \in Requests
      /\ Len(requests') = Len(requests) - 1 /\ Len(requests) \in Nat /\ Len(requests) # 0
      /\ requests' \in Seq(Requests)
      /\ \A i \in 1 .. Len(requests) - 1 : requests'[i] = requests[i + 1]
  BY <1>1, RequestSteps DEF ServiceTypes
<1>3. /\ stage'["mic"] = "accepted" /\ stage'["restore"] = "idle" /\ up
      /\ ServesOne
  BY <1>1 DEF MicInv, RestoreFirst, ServiceTypes
<1>4. Len(todo) \in Nat /\ Len(todo) <= 1 /\ \A i \in 1 .. Len(todo) : ~todo[i].open
  BY <1>1, <1>3, QueueSteps DEF ServesOne, ServiceTypes
<1>5. /\ Len(todo') = Len(todo) + 1 /\ todo'[Len(todo) + 1] = entry
      /\ \A i \in 1 .. Len(todo) : todo'[i] = todo[i]
  <2>1. entry \in Queued
    BY <1>2 DEF Queued, Requests
  <2> HIDE DEF entry
  <2> QED
    BY <1>1, <2>1, QueueSteps DEF ServiceTypes
<1>6. ServesOne'
  <2>1. \A i \in 1 .. Len(todo') : todo'[i].owner = "mic" /\ (todo'[i].open <=> i = Len(todo'))
    BY <1>3, <1>4, <1>5 DEF ServesOne
  <2>2. Len(todo') \in 1..2 /\ todo'[Len(todo')].cmd = Mute(dispatched'.want)
    BY <1>1, <1>4, <1>5
  <2> QED
    BY <1>3, <2>1, <2>2 DEF ServesOne
<1>7. RestoreFirst'
  <2>1. served' = "open" /\ up'
    BY <1>1, <1>3
  <2> QED
    BY <1>3, <1>6, <2>1 DEF RestoreFirst
<1>8. ~dispatched.open
  BY <1>1 DEF NoRequest
<1>9. WaitsForLast'
  <2>1. CASE Awaits /\ outcome = "none"
    <3>1. /\ requests[Len(requests)] = AskedFor
          /\ \A i \in 1 .. Len(requests) - 1 : ~requests[i].open
      BY <1>1, <1>8, <2>1 DEF MicInv, WaitsForLast, OpenIsLast, AskedFor
    <3>2. CASE Len(requests) = 1
      <4>1. dispatched' = AskedFor /\ requests' = <<>>
        BY <1>1, <1>2, <3>1, <3>2, EmptySeq
      <4> QED
        BY <1>1, <2>1, <4>1, SameOrder DEF WaitsForLast, OpenIsLast
    <3>3. CASE Len(requests) # 1
      <4>1. /\ ~dispatched'.open /\ Len(requests') # 0
            /\ requests'[Len(requests')] = AskedFor
            /\ \A i \in 1 .. Len(requests') - 1 : ~requests'[i].open
        BY <1>1, <1>2, <3>1, <3>3
      <4>2. requests' # <<>>
        BY <4>1
      <4> QED
        BY <1>1, <2>1, <4>1, <4>2, SameOrder DEF WaitsForLast, OpenIsLast
    <3> QED
      BY <3>2, <3>3
  <2>2. CASE ~(Awaits /\ outcome = "none")
    <3>1. NoneOpen'
      BY <1>1, <1>2, <2>2 DEF MicInv, WaitsForLast, NoneOpen
    <3> QED
      BY <1>1, <2>2, <3>1, SameOrder DEF WaitsForLast
  <2> QED
    BY <2>1, <2>2
<1>10. SettledMute'
  BY <1>1, SameOrder DEF MicInv, SettledMute
<1> QED
  BY <1>1, <1>7, <1>9, <1>10, SameOrder DEF MicInv

(* A command is executed: the restored mute, or one of the socket, of      *)
(* which none is left when a mute was agreed.                              *)
LEMMA InvExecutes ==
  ASSUME MicTypes, ServiceTypes, MicInv, Executes PROVE MicInv'
<1>1. /\ up /\ todo # <<>> /\ todo' = Tail(todo)
      /\ cell' = [cell EXCEPT ![Head(todo).cmd.op] = Head(todo).cmd.value]
      /\ stage'["mic"] = IF Head(todo).open /\ "mic" = Head(todo).owner
                           THEN "executed" ELSE stage["mic"]
      /\ stage'["restore"] = IF Head(todo).open /\ "restore" = Head(todo).owner
                               THEN "executed" ELSE stage["restore"]
      /\ UNCHANGED <<mic, served, requests, dispatched, outcome, up>>
  BY DEF Executes, Dsp!Execute, socket
<1>2. served \in {"restoring", "open"}
  BY <1>1 DEF MicInv, RestoreFirst, ServiceTypes
<1>3. /\ Len(todo) \in Nat \ {0} /\ Head(todo) = todo[1] /\ todo[1] \in Queued
      /\ Len(todo') = Len(todo) - 1 /\ todo' \in Seq(Queued)
      /\ \A i \in 1 .. Len(todo) - 1 : todo'[i] = todo[i + 1]
  <2>1. todo \in Seq(Queued)
    BY DEF ServiceTypes
  <2>2. /\ Tail(todo) \in Seq(Queued) /\ Head(todo) = todo[1]
        /\ Len(Tail(todo)) = Len(todo) - 1 /\ Len(todo) # 0 /\ Len(todo) \in Nat
        /\ \A i \in 1 .. Len(todo) : todo[i] \in Queued
        /\ \A i \in 1 .. Len(todo) - 1 : Tail(todo)[i] = todo[i + 1]
    BY <1>1, <2>1, QueueSteps
  <2>3. 1 \in 1 .. Len(todo)
    BY <2>2
  <2> QED
    BY <1>1, <2>2, <2>3
<1>4. PICK on \in BOOLEAN : todo[1].cmd = Mute(on)
  BY <1>3 DEF Queued
<1>5. cell'["mic"] = on
  BY <1>1, <1>3, <1>4 DEF Mute, ServiceTypes
<1>6. WaitsForLast'
  BY <1>1, SameOrder DEF MicInv, WaitsForLast, NoneOpen, OpenIsLast
<1>7. CASE served = "restoring"
  <2>1. /\ Len(todo) = 1 /\ stage["mic"] = "idle"
        /\ todo[1] = [owner |-> "restore", cmd |-> Mute(TRUE), open |-> TRUE]
    BY <1>1, <1>7 DEF MicInv, RestoreFirst
  <2>2. on = TRUE
    BY <1>4, <2>1 DEF Mute
  <2>3. stage'["mic"] = "idle" /\ stage'["restore"] = "executed" /\ todo' = <<>>
    BY <1>1, <1>3, <2>1, EmptySeq
  <2>4. RestoreFirst'
    BY <1>1, <1>5, <1>7, <2>2, <2>3 DEF RestoreFirst
  <2>5. SettledMute'
    BY <1>1, <1>7, <2>1, <2>3, SameOrder DEF MicInv, SettledMute
  <2> QED
    BY <1>1, <1>6, <2>4, <2>5, SameOrder DEF MicInv
<1>8. CASE served = "open"
  <2>1. ServesOne /\ stage["restore"] = "idle"
    BY <1>8 DEF MicInv, RestoreFirst
  <2>2. todo[1].owner = "mic"
    BY <1>3, <2>1 DEF ServesOne
  <2>3. ~Agreed
    BY <1>1, <1>8 DEF MicInv, SettledMute
  <2>4. stage'["restore"] = "idle"
    BY <1>1, <1>3, <2>1, <2>2
  <2>5. ServesOne'
    <3>1. CASE todo[1].open
      <4>1. stage["mic"] = "accepted" /\ Len(todo) = 1
        <5>1. 1 \in 1 .. Len(todo) /\ todo # <<>>
          BY <1>1, <1>3
        <5> QED
          BY <2>1, <3>1, <5>1 DEF ServesOne
      <4>2. todo[1].cmd = Mute(dispatched.want)
        BY <2>1, <4>1 DEF ServesOne
      <4>3. on = dispatched.want
        BY <1>4, <4>2 DEF Mute
      <4>4. todo' = <<>> /\ stage'["mic"] = "executed" /\ Len(todo') = 0
        BY <1>1, <1>3, <2>2, <3>1, <4>1, EmptySeq
      <4> QED
        <5>1. cell'["mic"] = dispatched'.want
          BY <1>1, <1>5, <4>3
        <5> QED
          BY <4>4, <5>1 DEF ServesOne
    <3>2. CASE ~todo[1].open
      <4>1. stage'["mic"] = stage["mic"] /\ stage["mic"] \in {"idle", "accepted"}
        BY <1>1, <1>3, <2>1, <3>2 DEF ServesOne
      <4>2. CASE stage["mic"] = "idle"
        <5>1. Len(todo') = 0
          BY <1>3, <2>1, <4>2 DEF ServesOne
        <5> QED
          BY <4>1, <4>2, <5>1 DEF ServesOne
      <4>3. CASE stage["mic"] = "accepted"
        <5>1. /\ Len(todo) = 2 /\ todo[2].open /\ todo[2].owner = "mic"
              /\ todo[2].cmd = Mute(dispatched.want)
          BY <1>3, <2>1, <3>2, <4>3 DEF ServesOne
        <5>2. Len(todo') = 1 /\ todo'[1] = todo[2]
          BY <1>3, <5>1
        <5>3. /\ Len(todo') \in 1..2
              /\ \A i \in 1 .. Len(todo') : todo'[i].open <=> i = Len(todo')
              /\ \A i \in 1 .. Len(todo') : todo'[i].owner = "mic"
              /\ todo'[Len(todo')].cmd = Mute(dispatched.want)
          BY <5>1, <5>2
        <5> QED
          BY <1>1, <4>1, <4>3, <5>3 DEF ServesOne
      <4> QED
        BY <4>1, <4>2, <4>3
    <3> QED
      BY <3>1, <3>2
  <2>6. RestoreFirst'
    <3>1. served' = "open" /\ up'
      BY <1>1, <1>8
    <3> QED
      BY <2>4, <2>5, <3>1 DEF RestoreFirst
  <2> QED
    BY <1>1, <1>6, <2>3, <2>6, SameOrder DEF MicInv, SettledMute
<1> QED
  BY <1>2, <1>7, <1>8

(* An answer of the service: an OK to the request the operation waits for  *)
(* finds its command executed and nothing behind it.                       *)
LEMMA InvServeOk ==
  ASSUME MicTypes, ServiceTypes, MicInv, ServeOk PROVE MicInv'
<1>1. /\ stage["mic"] = "executed" /\ stage' = [stage EXCEPT !["mic"] = "idle"]
      /\ dispatched' = NoRequest
      /\ outcome' = IF dispatched.open THEN "ok" ELSE outcome
      /\ UNCHANGED <<mic, served, requests, up, cell, todo>>
  BY DEF ServeOk, Answered, Dsp!AnswerOk
<1>2. served = "open" /\ up /\ stage["restore"] = "idle"
  BY <1>1 DEF MicInv, RestoreFirst, ServiceTypes
<1>3. todo = <<>> /\ cell["mic"] = dispatched.want /\ Len(todo) = 0
  BY <1>1, <1>2 DEF MicInv, RestoreFirst, ServesOne
<1>4. stage'["mic"] = "idle" /\ stage'["restore"] = "idle"
  BY <1>1, <1>2 DEF ServiceTypes
<1>5. RestoreFirst'
  <2>1. served' = "open" /\ up' /\ todo' = <<>> /\ Len(todo') = 0
    BY <1>1, <1>2, <1>3
  <2> QED
    BY <1>4, <2>1 DEF RestoreFirst, ServesOne
<1>6. ~dispatched'.open
  BY <1>1 DEF NoRequest
<1>7. ~Agreed
  BY <1>1 DEF MicInv, SettledMute
<1>8. CASE dispatched.open
  <2>1. Awaits /\ outcome = "none" /\ dispatched = AskedFor /\ requests = <<>>
    BY <1>8 DEF MicInv, WaitsForLast, NoneOpen, OpenIsLast
  <2>2. outcome' = "ok" /\ Len(requests') = 0 /\ requests' = <<>>
    BY <1>1, <1>8, <2>1
  <2>3. UNCHANGED <<file, light, muted, unknown, op, reconcile, retrying>>
    BY <1>1 DEF mic
  <2>4. Awaits'
    BY <2>1, <2>3 DEF Awaits, At
  <2>5. WaitsForLast'
    BY <1>6, <2>2 DEF WaitsForLast, NoneOpen
  <2>6. InOrder'
    BY <2>3, <2>4 DEF MicInv, InOrder, At, Blocked
  <2>7. SettledMute'
    <3>1. Agreed' => op.want /\ op.at = "answer"
      BY <1>7, <2>3 DEF Agreed, At
    <3>2. op.want /\ op.at = "answer" => file /\ cell["mic"]
      BY <1>3, <2>1 DEF MicInv, InOrder, AskedFor
    <3> QED
      BY <1>1, <1>3, <1>4, <2>2, <2>3, <3>1, <3>2 DEF SettledMute
  <2> QED
    BY <1>5, <2>5, <2>6, <2>7 DEF MicInv
<1>9. CASE ~dispatched.open
  <2>1. outcome' = outcome
    BY <1>1, <1>9
  <2>2. WaitsForLast'
    <3>1. CASE Awaits /\ outcome = "none"
      <4>1. /\ requests # <<>> /\ requests[Len(requests)] = AskedFor
            /\ \A i \in 1 .. Len(requests) - 1 : ~requests[i].open
        BY <1>9, <3>1 DEF MicInv, WaitsForLast, OpenIsLast, AskedFor
      <4> QED
        BY <1>1, <1>6, <2>1, <3>1, <4>1, SameOrder DEF WaitsForLast, OpenIsLast
    <3>2. CASE ~(Awaits /\ outcome = "none")
      BY <1>1, <1>6, <2>1, <3>2, SameOrder DEF MicInv, WaitsForLast, NoneOpen
    <3> QED
      BY <3>1, <3>2
  <2> QED
    BY <1>1, <1>5, <1>7, <2>1, <2>2, SameOrder DEF MicInv, SettledMute
<1> QED
  BY <1>8, <1>9

(* An error leaves at most the command that was being sent, given up.      *)
LEMMA InvServeFails ==
  ASSUME MicTypes, ServiceTypes, MicInv, ServeFails PROVE MicInv'
<1>1. /\ stage["mic"] # "idle" /\ stage' = [stage EXCEPT !["mic"] = "idle"]
      /\ dispatched' = NoRequest
      /\ outcome' = IF dispatched.open THEN "error" ELSE outcome
      /\ UNCHANGED <<mic, served, requests, up, cell>>
  BY DEF ServeFails, Answered, Dsp!AnswerError
<1>2. served = "open" /\ up /\ stage["restore"] = "idle" /\ ServesOne
  BY <1>1 DEF MicInv, RestoreFirst
<1>3. /\ Len(todo') <= 1 /\ Len(todo') \in Nat
      /\ \A i \in 1 .. Len(todo') : ~todo'[i].open /\ todo'[i].owner = "mic"
  <2>0. todo \in Seq(Queued) /\ Len(todo) \in Nat /\ DOMAIN todo = 1 .. Len(todo)
    BY LenProperties DEF ServiceTypes
  <2>1. \/ Dsp!Waiting("mic") = {} /\ todo' = todo
        \/ \E i \in Dsp!Waiting("mic") : todo' = Dsp!Without(i)
        \/ 1 \in Dsp!Waiting("mic") /\ todo' = [todo EXCEPT ![1].open = FALSE]
    BY DEF ServeFails, Dsp!AnswerError
  <2>2. Dsp!Waiting("mic") = {i \in 1 .. Len(todo) : todo[i].open}
    BY <1>2, <2>0 DEF ServesOne, Dsp!Waiting
  <2>3. CASE stage["mic"] = "executed"
    <3>1. todo = <<>> /\ Len(todo) = 0
      BY <1>2, <2>3 DEF ServesOne
    <3> QED
      BY <2>1, <2>2, <3>1
  <2>4. CASE stage["mic"] = "accepted"
    <3>1. Len(todo) \in 1..2 /\ Dsp!Waiting("mic") = {Len(todo)}
      <4>1. Len(todo) \in 1..2 /\ \A i \in 1 .. Len(todo) : todo[i].open <=> i = Len(todo)
        BY <1>2, <2>4 DEF ServesOne
      <4> QED
        BY <2>2, <4>1
    <3>2. CASE todo' = Dsp!Without(Len(todo))
      <4>1. Len(todo) \in 1 .. Len(todo)
        BY <3>1
      <4>2. /\ Len(Dsp!Without(Len(todo))) = Len(todo) - 1
            /\ \A j \in 1 .. Len(todo) - 1 :
                  Dsp!Without(Len(todo))[j] = todo[IF j < Len(todo) THEN j ELSE j + 1]
        BY <2>0, <4>1, QueueSteps
      <4>3. /\ Len(todo') = Len(todo) - 1
            /\ \A j \in 1 .. Len(todo) - 1 : todo'[j] = todo[j]
        BY <3>1, <3>2, <4>2
      <4> QED
        BY <1>2, <2>4, <3>1, <4>3 DEF ServesOne
    <3>3. CASE Len(todo) = 1 /\ todo' = [todo EXCEPT ![1].open = FALSE]
      <4>1. todo # <<>> /\ todo[1].owner = "mic" /\ Len(todo) = 1
        BY <1>2, <3>3 DEF ServesOne
      <4>2. Len(todo') = Len(todo) /\ ~todo'[1].open /\ todo'[1].owner = todo[1].owner
        BY <2>0, <3>3, <4>1, QueueSteps
      <4> QED
        BY <4>1, <4>2
    <3> QED
      BY <2>1, <3>1, <3>2, <3>3
  <2> QED
    BY <1>1, <1>2, <2>3, <2>4 DEF ServesOne
<1>4. stage'["mic"] = "idle" /\ stage'["restore"] = "idle"
  BY <1>1, <1>2 DEF ServiceTypes
<1>5. RestoreFirst'
  <2>1. served' = "open" /\ up'
    BY <1>1, <1>2
  <2> QED
    BY <1>3, <1>4, <2>1 DEF RestoreFirst, ServesOne
<1>6. ~dispatched'.open
  BY <1>1 DEF NoRequest
<1>7. ~Agreed
  BY <1>1 DEF MicInv, SettledMute
<1>8. CASE dispatched.open
  <2>1. Awaits /\ outcome = "none" /\ requests = <<>>
    BY <1>8 DEF MicInv, WaitsForLast, NoneOpen, OpenIsLast
  <2>2. outcome' = "error" /\ Len(requests') = 0
    BY <1>1, <1>8, <2>1
  <2>3. UNCHANGED <<file, light, muted, unknown, op, reconcile, retrying>>
    BY <1>1 DEF mic
  <2>4. Awaits'
    BY <2>1, <2>3 DEF Awaits, At
  <2>5. WaitsForLast'
    BY <1>6, <2>2 DEF WaitsForLast, NoneOpen
  <2>6. InOrder'
    BY <2>3, <2>4 DEF MicInv, InOrder, At, Blocked
  <2>7. ~Agreed'
    BY <1>7, <2>2, <2>3 DEF Agreed, At
  <2> QED
    BY <1>5, <2>5, <2>6, <2>7 DEF MicInv, SettledMute
<1>9. CASE ~dispatched.open
  <2>1. outcome' = outcome
    BY <1>1, <1>9
  <2>2. WaitsForLast'
    <3>1. CASE Awaits /\ outcome = "none"
      <4>1. /\ requests # <<>> /\ requests[Len(requests)] = AskedFor
            /\ \A i \in 1 .. Len(requests) - 1 : ~requests[i].open
        BY <1>9, <3>1 DEF MicInv, WaitsForLast, OpenIsLast, AskedFor
      <4> QED
        BY <1>1, <1>6, <2>1, <3>1, <4>1, SameOrder DEF WaitsForLast, OpenIsLast
    <3>2. CASE ~(Awaits /\ outcome = "none")
      BY <1>1, <1>6, <2>1, <3>2, SameOrder DEF MicInv, WaitsForLast, NoneOpen
    <3> QED
      BY <3>1, <3>2
  <2> QED
    BY <1>1, <1>5, <1>7, <2>1, <2>2, SameOrder DEF MicInv, SettledMute
<1> QED
  BY <1>8, <1>9

LEMMA MicInvStep == ASSUME TypeOK, MicInv, [Next]_mvars PROVE MicInv'
<1>0. MicTypes /\ ServiceTypes
  BY TypeParts
<1>1. CASE \/ \E want \in BOOLEAN, by \in {"button", "call"} : Press(want, by)
           \/ \E by \in {"event", "worker"} : Reconcile(by)
  BY <1>0, <1>1, InvPress, InvReconcile
<1>2. CASE Works \/ Expires \/ ConfirmFails
  BY <1>0, <1>2, InvClearLight, InvRecordMute, InvSend, InvGotOk, InvGotError, InvConfirm,
     InvExpires, InvConfirmFails DEF Works
<1>3. CASE DspWorks \/ ServeFails
  BY <1>0, <1>3, InvResets, InvBoots, InvRestoreReads, InvRestored, InvServe, InvExecutes,
     InvServeOk, InvServeFails DEF DspWorks
<1> QED
  BY <1>0, <1>1, <1>2, <1>3, InvOthers, InvCrashes, InvRestarts DEF Next

(* microphoneMuteController, the socket and the service behind it: the     *)
(* types hold throughout.                                                  *)
THEOREM MicrophoneTypes == Spec => []TypeOK
  BY TypeInit, TypeStep, PTL DEF Spec

(* setLocked and the restarts: a mute light at rest is lit over a muted    *)
(* microphone, for any number of presses, calls, given up requests and     *)
(* restarts of either service.                                             *)
THEOREM LitOverMuted == Spec => []LightTruth
<1>1. MicInv => LightTruth
  <2> SUFFICES ASSUME MicInv, light, served = "open", op = NoOp, ~reconcile, ~retrying
               PROVE  cell["mic"]
    BY DEF LightTruth
  <2>1. At("none") /\ muted
    BY DEF MicInv, InOrder, Blocked
  <2> QED
    BY <2>1 DEF MicInv, SettledMute, Agreed
<1> QED
  BY TypeInit, TypeStep, MicInvInit, MicInvStep, <1>1, PTL DEF Spec
=============================================================================
