---------------------------- MODULE VolumeProofs ----------------------------
(***************************************************************************)
(* What is proved of Volume for every value of the constants: the relay of *)
(* the rotary control loses no step below its limit, and the worker rests  *)
(* only at the level the listener chose.                                   *)
(***************************************************************************)
EXTENDS Volume, SequenceTheorems, TLAPS

Whole == {held, delta, owed} \subseteq Int /\ peak \in Nat
Relay == Whole /\ Size(owed) <= peak /\ LosesOnlyExcess
relay == <<held, delta, owed, peak>>

LEMMA RelayStarts == ASSUME VolumeAssumption, Init PROVE Relay
<1>1. held = 0 /\ delta = 0 /\ owed = 0 /\ peak = 0
  BY DEF Init, OwnInit
<1> QED
  BY <1>1 DEF VolumeAssumption, Relay, Whole, LosesOnlyExcess, Excess, Size

(* Only the dial, the merge, the worker and a restart touch the relay.     *)
LEMMA RelayKept == ASSUME Relay, UNCHANGED relay PROVE Relay'
  BY DEF Relay, Whole, LosesOnlyExcess, Excess, Size, relay

(* The most that was owed only grows, and bounds what is owed.             *)
LEMMA OwedGrows ==
  ASSUME Whole, NEW n \in Int, Owes(n)
  PROVE  owed' = n /\ peak' \in Nat /\ Size(n) <= peak' /\ peak <= peak'
  BY DEF Whole, Owes, Size

LEMMA TurnRelay ==
  ASSUME VolumeAssumption, Relay, NEW s \in Int, Turn(s)
  PROVE  Relay'
<1>1. DeltaLimit \in Nat
  BY DEF VolumeAssumption
<1>2. CASE delta = 0
  <2>1. held' = 0 /\ delta' = s /\ owed' = s /\ peak' = Size(s)
    BY <1>2 DEF Turn
  <2> QED
    BY <1>1, <2>1 DEF Relay, Whole, LosesOnlyExcess, Excess, Size
<1>3. CASE delta # 0
  <2>1. held = 0 /\ held' = s /\ delta' = delta /\ Owes(owed + s)
    BY <1>3 DEF Turn
  <2>2. owed' = owed + s /\ peak' \in Nat /\ Size(owed + s) <= peak' /\ peak <= peak'
    BY <2>1, OwedGrows DEF Relay, Whole
  <2> QED
    BY <1>1, <2>1, <2>2 DEF Relay, Whole, LosesOnlyExcess, Excess, Size
<1> QED
  BY <1>2, <1>3

(* What the limit cuts off a sum was owed beyond the limit.                *)
LEMMA MergeRelay == ASSUME VolumeAssumption, Relay, MergeStep PROVE Relay'
<1>1. DeltaLimit \in Nat
  BY DEF VolumeAssumption
<1>2. owed' = owed /\ peak' = peak
  BY DEF MergeStep
<1>3. CASE delta # 0
  <2>1. delta' = 0 /\ held' = Limited(held + delta)
    BY <1>3 DEF MergeStep
  <2> QED
    BY <1>1, <1>2, <2>1 DEF Relay, Whole, LosesOnlyExcess, Excess, Size, Limited
<1>4. CASE delta = 0
  <2>1. delta' = held /\ held' = 0
    BY <1>4 DEF MergeStep
  <2> QED
    BY <1>1, <1>2, <1>4, <2>1 DEF Relay, Whole, LosesOnlyExcess, Excess, Size
<1> QED
  BY <1>3, <1>4

LEMMA AdjustRelay == ASSUME VolumeAssumption, Relay, AdjustVolume PROVE Relay'
<1>1. DeltaLimit \in Nat
  BY DEF VolumeAssumption
<1>2. held' = held /\ delta' = 0 /\ Owes(owed - delta)
  BY DEF AdjustVolume
<1>3. owed' = owed - delta /\ peak' \in Nat /\ Size(owed - delta) <= peak' /\ peak <= peak'
  BY <1>2, OwedGrows DEF Relay, Whole
<1> QED
  BY <1>1, <1>2, <1>3 DEF Relay, Whole, LosesOnlyExcess, Excess, Size

LEMMA RestartRelay == ASSUME VolumeAssumption, McuRestarts PROVE Relay'
<1>1. held' = 0 /\ delta' = 0 /\ owed' = 0 /\ peak' = 0
  BY DEF McuRestarts
<1> QED
  BY <1>1 DEF VolumeAssumption, Relay, Whole, LosesOnlyExcess, Excess, Size

LEMMA AskedRelay == ASSUME VolumeAssumption, Relay, Asked PROVE Relay'
<1>1. CASE \E v \in Settings : SetVolume(v)
  BY <1>1, RelayKept DEF SetVolume, relay
<1>2. CASE \E on \in BOOLEAN : SetMuted(on)
  BY <1>2, RelayKept DEF SetMuted, relay
<1>3. CASE \E d \in DuckNames, s \in {"none", "soft", "hard"} : SetDuck(d, s)
  BY <1>3, RelayKept DEF SetDuck, relay
<1>4. CASE \E s \in Steps : Turn(s) \/ Turn(-s)
  <2>1. PICK s \in Steps : Turn(s) \/ Turn(-s)
    BY <1>4
  <2>2. s \in Int /\ -s \in Int
    BY DEF VolumeAssumption
  <2> QED
    BY <2>1, <2>2, TurnRelay
<1> QED
  BY <1>1, <1>2, <1>3, <1>4 DEF Asked

LEMMA OthersRelay == ASSUME VolumeAssumption, Relay, Works \/ DspWorks \/ Faulty PROVE Relay'
<1>1. CASE Works
  BY <1>1, RelayKept
     DEF Works, Wake, Push, PushSucceeds, PushFails, mcu, relay
<1>2. CASE DspWorks
  BY <1>2, RelayKept
     DEF DspWorks, Serve, ServeOk, Answered, Executes, DspResets, DspBoots, mcu, relay
<1>3. CASE Faulty
  <2>1. CASE McuRestarts
    BY <2>1, RestartRelay
  <2>2. CASE PushExpires \/ ServeFails \/ DspCrashes
    BY <2>2, RelayKept DEF PushExpires, ServeFails, Answered, DspCrashes, mcu, relay
  <2> QED
    BY <1>3, <2>1, <2>2 DEF Faulty
<1> QED
  BY <1>1, <1>2, <1>3

LEMMA RelayStep == ASSUME VolumeAssumption, Relay, [Next]_vars PROVE Relay'
<1>1. CASE Next
  BY <1>1, AskedRelay, MergeRelay, AdjustRelay, OthersRelay DEF Next
<1>2. CASE UNCHANGED vars
  BY <1>2, RelayKept DEF vars, mcu, relay
<1> QED
  BY <1>1, <1>2

(* queueVolumeDelta and the input worker of event_relay.go: however the    *)
(* steps of the dial are merged and taken, every step turned is either     *)
(* applied to the level or still in the relay, with its sign, unless more  *)
(* than the limit was owed at once; then at most the excess is missing.    *)
THEOREM DialLosesOnlyExcess == ASSUME VolumeAssumption PROVE Spec => []LosesOnlyExcess
<1>1. Relay => LosesOnlyExcess
  BY DEF Relay
<1> QED
  BY RelayStarts, RelayStep, <1>1, PTL DEF Spec

-----------------------------------------------------------------------------
(* Levels and the bytes of the DSP.                                        *)

(* dspByteForPercent never leaves 0..90. *)
LEMMA ByteRange == \A p \in 0..100 : DspByte(p) \in 0..90
<1>1. \A p \in 1..100 : Curve[p] \in 0..90
  BY DEF Curve
<1> QED
  BY <1>1 DEF DspByte

(* The strongest duck is one of the three scales, or there is none. *)
LEMMA ScaleRange ==
  ASSUME NEW S \in SUBSET {100, 40, 10}, 100 \in S
  PROVE  Min(S) \in {100, 40, 10}
<1>1. \E x \in S : \A y \in S : x =< y
  BY SMT
<1> QED
  BY <1>1 DEF Min

LEMMA LevelRange == TypeOK => EffectiveLevel \in 0..100 /\ DisplayLevel \in 0..100
<1> SUFFICES ASSUME TypeOK
             PROVE  EffectiveLevel \in 0..100 /\ DisplayLevel \in 0..100
  OBVIOUS
<1> DEFINE scale == Min({DuckScale[ducks[d]] : d \in DuckNames} \cup {100})
<1>1. scale \in {100, 40, 10}
  <2>1. \A d \in DuckNames : DuckScale[ducks[d]] \in {100, 40, 10}
    BY DEF TypeOK, DuckScale
  <2> QED
    BY <2>1, ScaleRange
<1>2. volume \in 0..100
  BY DEF TypeOK
<1> HIDE DEF scale
<1>3. (volume * scale) \div 100 \in 0..100
  BY <1>1, <1>2
<1>4. EffectiveLevel = IF silent THEN 0 ELSE (volume * scale) \div 100
  BY DEF EffectiveLevel, scale
<1> QED
  BY <1>2, <1>3, <1>4 DEF DisplayLevel

LEMMA ClampRange == \A v \in Int : Clamp(v) \in 0..100
  BY DEF Clamp

LEMMA TypeInit == VolumeAssumption /\ Init => TypeOK
<1> SUFFICES ASSUME VolumeAssumption, Init PROVE TypeOK
  OBVIOUS
<1>1. DefaultVolume \in 0..100
  BY DEF VolumeAssumption
<1>2. inbox \in Seq(Calls) /\ todo \in Seq(Queued)
  BY DEF Init, OwnInit, DspInit, Dsp!Init
<1>3. DOMAIN cell = {"gain", "mic"} /\ DOMAIN stage = {"restore", "mic", "session"}
  BY DEF Init, DspInit, Dsp!Init, PowerOn
<1>4. ducks \in [DuckNames -> {"none", "soft", "hard"}]
  BY DEF Init, OwnInit
<1>5. {silent, notify, retry, lost, up} \subseteq BOOLEAN
  BY DEF Init, OwnInit, DspInit, Dsp!Init
<1> QED
  BY <1>1, <1>2, <1>3, <1>4, <1>5 DEF Init, OwnInit, TypeOK

(* No call is NoCall: a gain of the curve is never the gain after a reset. *)
LEMMA NoCallApart ==
  ASSUME VolumeAssumption
  PROVE  NoCall \notin Calls /\ ~NoCall.live
  BY DEF VolumeAssumption, NoCall, Calls

(* A call that is given up stays a call, of the same gain. *)
LEMMA AbandonedCall ==
  ASSUME VolumeAssumption, NEW c \in Calls \cup {NoCall}
  PROVE  /\ Abandoned(c) \in Calls \cup {NoCall}
         /\ ~Abandoned(c).live
         /\ Abandoned(c).gain = c.gain
         /\ Abandoned(c) = NoCall <=> c = NoCall
<1>1. CASE c \in Calls
  BY <1>1, NoCallApart DEF Abandoned, Calls
<1>2. CASE c = NoCall
  <2>1. NoCall \in [gain : {PowerOnGain}, live : BOOLEAN] /\ NoCall.live = FALSE
    BY DEF NoCall
  <2>2. Abandoned(NoCall) = NoCall
    BY <2>1 DEF Abandoned
  <2> QED
    BY <1>2, <2>1, <2>2
<1> QED
  BY <1>1, <1>2

Given == [i \in DOMAIN inbox |-> Abandoned(inbox[i])]

LEMMA AbandonedInbox ==
  ASSUME VolumeAssumption, TypeOK
  PROVE  /\ Given \in Seq(Calls) /\ Len(Given) = Len(inbox)
         /\ \A i \in 1 .. Len(inbox) : ~Given[i].live
         /\ inbox = <<>> => Given = <<>>
<1>1. inbox \in Seq(Calls)
  BY DEF TypeOK
<1>2. DOMAIN inbox = 1 .. Len(inbox) /\ Len(inbox) \in Nat
  BY <1>1, LenProperties
<1>3. \A i \in 1 .. Len(inbox) : inbox[i] \in Calls
  BY <1>1, ElementOfSeq
<1>4. \A i \in 1 .. Len(inbox) : Abandoned(inbox[i]) \in Calls /\ ~Abandoned(inbox[i]).live
  BY <1>3 DEF Abandoned, Calls
<1> QED
  BY <1>2, <1>4 DEF Given

(* What a step of the queue of dsp-interface leaves in it. *)
LEMMA QueueSteps ==
  ASSUME todo \in Seq(Queued)
  PROVE  /\ \A e \in Queued :
              /\ Append(todo, e) \in Seq(Queued)
              /\ Len(Append(todo, e)) = Len(todo) + 1
              /\ Append(todo, e)[Len(todo) + 1] = e
              /\ \A i \in 1 .. Len(todo) : Append(todo, e)[i] = todo[i]
         /\ todo # <<>> => /\ Tail(todo) \in Seq(Queued) /\ Head(todo) = todo[1]
                           /\ Len(Tail(todo)) = Len(todo) - 1
                           /\ \A i \in 1 .. Len(todo) - 1 : Tail(todo)[i] = todo[i + 1]
         /\ \A i \in 1 .. Len(todo) :
              /\ Dsp!Without(i) \in Seq(Queued)
              /\ Len(Dsp!Without(i)) = Len(todo) - 1
              /\ \A j \in 1 .. Len(todo) - 1 :
                    Dsp!Without(i)[j] = todo[IF j < i THEN j ELSE j + 1]
         /\ todo # <<>> =>
              LET given == [todo EXCEPT ![1].open = FALSE] IN
              /\ given \in Seq(Queued) /\ Len(given) = Len(todo)
              /\ ~given[1].open /\ \A i \in 2 .. Len(todo) : given[i] = todo[i]
<1>1. \A i \in 1 .. Len(todo) : todo[i] \in Queued
  BY ElementOfSeq
<1>2. Len(todo) \in Nat /\ DOMAIN todo = 1 .. Len(todo)
  BY LenProperties
<1>3. todo # <<>> => Len(todo) # 0
  BY EmptySeq
<1>4. ASSUME NEW i \in 1 .. Len(todo)
      PROVE  /\ Dsp!Without(i) \in Seq(Queued)
             /\ Len(Dsp!Without(i)) = Len(todo) - 1
             /\ \A j \in 1 .. Len(todo) - 1 :
                   Dsp!Without(i)[j] = todo[IF j < i THEN j ELSE j + 1]
  BY <1>1, <1>2 DEF Dsp!Without
<1>5. ASSUME todo # <<>>
      PROVE  LET given == [todo EXCEPT ![1].open = FALSE] IN
             /\ given \in Seq(Queued) /\ Len(given) = Len(todo)
             /\ ~given[1].open /\ \A i \in 2 .. Len(todo) : given[i] = todo[i]
  <2>1. \A q \in Queued : /\ [q EXCEPT !.open = FALSE] \in Queued
                         /\ ~[q EXCEPT !.open = FALSE].open
    BY DEF Queued
  <2>2. 1 \in 1 .. Len(todo)
    BY <1>2, <1>3, <1>5
  <2>3. [todo EXCEPT ![1].open = FALSE] = [todo EXCEPT ![1] = [todo[1] EXCEPT !.open = FALSE]]
    OBVIOUS
  <2> QED
    BY <1>1, <2>1, <2>2, <2>3, ExceptSeq
<1>6. ASSUME todo # <<>>
      PROVE  /\ Tail(todo) \in Seq(Queued) /\ Head(todo) = todo[1]
             /\ Len(Tail(todo)) = Len(todo) - 1
             /\ \A i \in 1 .. Len(todo) - 1 : Tail(todo)[i] = todo[i + 1]
  <2>1. Head(todo) = todo[1]
    BY <1>6
  <2> QED
    BY <1>6, <2>1, HeadTailProperties
<1>7. ASSUME NEW e \in Queued
      PROVE  /\ Append(todo, e) \in Seq(Queued)
             /\ Len(Append(todo, e)) = Len(todo) + 1
             /\ Append(todo, e)[Len(todo) + 1] = e
             /\ \A i \in 1 .. Len(todo) : Append(todo, e)[i] = todo[i]
  BY <1>2
<1> QED
  BY <1>4, <1>5, <1>6, <1>7

(* Every step of the worker, the dial, the DSP and the faults keeps the    *)
(* types.                                                                  *)
LEMMA TypeAsked == ASSUME VolumeAssumption, TypeOK, Asked PROVE TypeOK'
<1> USE DEF TypeOK, Change, ApplyLocked, Fault, pushing, calls, dsp
<1>1. ASSUME NEW v \in Settings, SetVolume(v) PROVE TypeOK'
  <2>1. v \in 0..100
    BY DEF VolumeAssumption
  <2> QED
    BY <1>1, <2>1 DEF SetVolume
<1>2. ASSUME NEW on \in BOOLEAN, SetMuted(on) PROVE TypeOK'
  BY <1>2 DEF SetMuted
<1>3. ASSUME NEW d \in DuckNames, NEW s \in {"none", "soft", "hard"}, SetDuck(d, s)
      PROVE  TypeOK'
  BY <1>3 DEF SetDuck
<1>4. ASSUME NEW s \in Int, Turn(s) PROVE TypeOK'
  <2> HIDE DEF TypeOK
  <2>1. Whole
    BY DEF TypeOK, Whole
  <2>2. Size(s) \in Nat /\ owed + s \in Int
    BY <2>1 DEF Whole, Size
  <2>3. \/ owed' = s /\ peak' = Size(s)
        \/ Owes(owed + s)
    BY <1>4 DEF Turn
  <2>4. owed' \in Int /\ peak' \in Nat
    BY <2>1, <2>2, <2>3, OwedGrows
  <2>5. held' \in Int /\ delta' \in Int
    BY <1>4, <2>1 DEF Turn, Whole
  <2>6. {silent', notify', retry', lost', up'} \subseteq BOOLEAN
    BY <1>4 DEF Turn, TypeOK, pushing, dsp
  <2> QED
    BY <1>4, <2>4, <2>5, <2>6 DEF Turn, TypeOK, pushing, calls, dsp
<1>5. ASSUME NEW s \in Steps PROVE s \in Int /\ -s \in Int
  BY DEF VolumeAssumption
<1> QED
  BY <1>1, <1>2, <1>3, <1>4, <1>5 DEF Asked

LEMMA TypeDial == ASSUME VolumeAssumption, TypeOK, MergeStep \/ AdjustVolume PROVE TypeOK'
<1> USE DEF TypeOK, ApplyLocked, Fault, pushing, calls, dsp, spent
<1>1. CASE MergeStep
  <2>1. held \in Int /\ delta \in Int
    OBVIOUS
  <2> HIDE DEF TypeOK
  <2>2. DeltaLimit \in Int /\ held + delta \in Int
    BY <2>1 DEF VolumeAssumption
  <2>3. Limited(held + delta) \in Int
    BY <2>2 DEF Limited
  <2>4. held' \in Int /\ delta' \in Int
    BY <1>1, <2>1, <2>3 DEF MergeStep
  <2>5. {silent', notify', retry', lost', up'} \subseteq BOOLEAN
    BY <1>1 DEF MergeStep, TypeOK
  <2> QED
    BY <1>1, <2>4, <2>5 DEF MergeStep, TypeOK
<1>2. CASE AdjustVolume
  <2>1. volume \in Int /\ delta \in Int /\ Whole
    BY DEF Whole
  <2>2. Clamp(volume + delta) \in 0..100 /\ owed - delta \in Int
    <3> HIDE DEF TypeOK
    <3>1. owed - delta \in Int
      BY <2>1 DEF Whole
    <3> QED
      BY <2>1, <3>1, ClampRange
  <2>3. /\ volume' = Clamp(volume + delta) /\ saved' \in {saved, volume'}
        /\ Owes(owed - delta) /\ delta' = 0
    <3> HIDE DEF TypeOK
    <3> QED
      BY <1>2 DEF AdjustVolume
  <2>4. {silent', notify', retry', lost', up'} \subseteq BOOLEAN
    BY <1>2 DEF AdjustVolume
  <2>5. /\ volume' \in 0..100 /\ saved' \in 0..100
        /\ owed' \in Int /\ peak' \in Nat /\ delta' \in Int
    <3>1. volume' \in 0..100
      BY <2>2, <2>3, Zenon
    <3>2. saved \in 0..100
      OBVIOUS
    <3> HIDE DEF TypeOK
    <3>3. owed' \in Int /\ peak' \in Nat
      BY <2>1, <2>2, <2>3, OwedGrows
    <3> QED
      BY <2>3, <3>1, <3>2, <3>3
  <2> QED
    BY <1>2, <2>4, <2>5 DEF AdjustVolume
<1> QED
  BY <1>1, <1>2

LEMMA TypeWorks == ASSUME VolumeAssumption, TypeOK, Works PROVE TypeOK'
<1> USE DEF TypeOK, mcu, calls, dsp, spent
<1>1. CASE Wake
  BY <1>1, LevelRange DEF Wake
<1>2. CASE Push
  <2>1. [gain |-> DspByte(level), live |-> TRUE] \in Calls
    BY ByteRange DEF Calls
  <2>2. inbox' \in Seq(Calls)
    <3>1. inbox \in Seq(Calls)
      OBVIOUS
    <3>2. Append(inbox, [gain |-> DspByte(level), live |-> TRUE]) \in Seq(Calls)
      BY <2>1, <3>1
    <3> QED
      BY <1>2, <3>1, <3>2 DEF Push
  <2> QED
    BY <1>2, <2>2 DEF Push
<1>3. CASE PushSucceeds
  BY <1>3, LevelRange DEF PushSucceeds
<1>4. CASE PushFails
  BY <1>4 DEF PushFails
<1> QED
  BY <1>1, <1>2, <1>3, <1>4 DEF Works

LEMMA TypeDsp == ASSUME VolumeAssumption, TypeOK, DspWorks \/ Faulty PROVE TypeOK'
<1> USE DEF TypeOK, mcu, pushing, calls, dsp, spent, Fault
<1>1. CASE Serve
  <2>1. Head(inbox) \in Calls /\ Tail(inbox) \in Seq(Calls)
    BY <1>1, HeadTailProperties DEF Serve
  <2>2. [owner |-> "session", cmd |-> Gain(Head(inbox).gain), open |-> TRUE] \in Queued
    BY <2>1 DEF Calls, Queued
  <2>3. todo' \in Seq(Queued)
    BY <1>1, <2>2, QueueSteps DEF Serve, Dsp!Accept
  <2> QED
    BY <1>1, <2>1, <2>3 DEF Serve, Dsp!Accept
<1>2. CASE ServeOk
  BY <1>2 DEF ServeOk, Answered, Dsp!AnswerOk
<1>3. CASE ServeFails
  <2>1. todo' \in Seq(Queued)
    <3>1. DOMAIN todo = 1 .. Len(todo) /\ (1 \in DOMAIN todo => todo # <<>>)
      BY LenProperties, EmptySeq
    <3>2. \/ todo' = todo
          \/ \E i \in 1 .. Len(todo) : todo' = Dsp!Without(i)
          \/ todo # <<>> /\ todo' = [todo EXCEPT ![1].open = FALSE]
      BY <1>3, <3>1 DEF ServeFails, Dsp!AnswerError, Dsp!Waiting
    <3>3. todo \in Seq(Queued)
      OBVIOUS
    <3> HIDE DEF TypeOK
    <3> QED
      BY <3>2, <3>3, QueueSteps
  <2> QED
    BY <1>3, <2>1 DEF ServeFails, Answered, Dsp!AnswerError
<1>4. CASE Executes
  <2>1. todo' \in Seq(Queued)
    BY <1>4, QueueSteps DEF Executes, Dsp!Execute
  <2>2. DOMAIN stage' = DOMAIN stage /\ DOMAIN cell' = DOMAIN cell
    BY <1>4 DEF Executes, Dsp!Execute
  <2> QED
    BY <1>4, <2>1, <2>2 DEF Executes, Dsp!Execute
<1>5. CASE DspBoots
  BY <1>5 DEF DspBoots, Dsp!Boot
<1>6. CASE DspResets
  <2>1. DOMAIN cell' = {"gain", "mic"}
    BY <1>6 DEF DspResets, Dsp!Reset, PowerOn
  <2> QED
    BY <1>6, <2>1 DEF DspResets, Dsp!Reset
<1>7. CASE DspCrashes
  <2>1. DOMAIN stage' = {"restore", "mic", "session"} /\ inbox' \in Seq(Calls)
        /\ todo' \in Seq(Queued)
    BY <1>7 DEF DspCrashes, Dsp!Crash
  <2> QED
    BY <1>7, <2>1 DEF DspCrashes, Dsp!Crash
<1>8. CASE PushExpires
  BY <1>8, AbandonedInbox, AbandonedCall DEF PushExpires, Given
<1>9. CASE McuRestarts
  <2>1. inbox' \in Seq(Calls) /\ serving' \in Calls \cup {NoCall}
    BY <1>9, AbandonedInbox, AbandonedCall DEF McuRestarts, Given
  <2>2. ducks' \in [DuckNames -> {"none", "soft", "hard"}]
    BY <1>9 DEF McuRestarts
  <2>3. /\ volume' = saved /\ drawn' = saved /\ saved' = saved /\ level' = level
        /\ held' = 0 /\ delta' = 0 /\ owed' = 0 /\ peak' = 0
        /\ reply' = reply /\ worker' = "idle" /\ todo' = todo /\ up' = up
        /\ cell' = cell /\ stage' = stage /\ lost' = lost
        /\ silent' = FALSE /\ notify' = TRUE /\ retry' = FALSE
    <3> HIDE DEF TypeOK
    <3> QED
      BY <1>9 DEF McuRestarts
  <2>4. {silent', notify', retry', lost', up'} \subseteq BOOLEAN
    BY <2>3
  <2> QED
    BY <2>1, <2>2, <2>3, <2>4
<1> QED
  BY <1>1, <1>2, <1>3, <1>4, <1>5, <1>6, <1>7, <1>8, <1>9 DEF DspWorks, Faulty

LEMMA TypeStep == ASSUME VolumeAssumption, TypeOK, [Next]_vars PROVE TypeOK'
<1>1. CASE UNCHANGED vars
  BY <1>1 DEF vars, mcu, pushing, calls, dsp, spent, TypeOK
<1> QED
  BY <1>1, TypeAsked, TypeDial, TypeWorks, TypeDsp DEF Next

-----------------------------------------------------------------------------
(* The invariant behind RestsAtLevel.                                      *)

LEMMA VolumeInvInit == Init => VolumeInv
<1> SUFFICES ASSUME Init PROVE VolumeInv
  OBVIOUS
<1>1. /\ ~up /\ Quiet /\ stage["session"] = "idle" /\ Len(todo) = 0
      /\ worker = "idle" /\ notify /\ ~serving.live /\ Len(inbox) = 0
  BY DEF Init, OwnInit, DspInit, Dsp!Init, Quiet, NoCall
<1> QED
  BY <1>1 DEF VolumeInv, ServesOne, WaitsForLast, NoLive, SettledByOk,
     PushesLevel, QuietAtRest, Quiet

(* A change of the level wakes the worker; a step of the dial in the relay *)
(* does not change the level.                                              *)
LEMMA LevelSteps ==
  ASSUME VolumeInv,
         UNCHANGED <<worker, level, retry, drawn, inbox, serving, reply,
                     up, cell, todo, stage, lost>>,
         \/ notify' = TRUE
         \/ UNCHANGED <<notify, volume, silent, ducks>>
  PROVE  VolumeInv'
<1>1. ServesOne' /\ WaitsForLast' /\ SettledByOk'
  BY DEF VolumeInv, ServesOne, WaitsForLast, NoLive, LiveIsLast, Pushed,
     SettledByOk, Quiet
<1>2. CASE notify' = TRUE
  BY <1>1, <1>2 DEF VolumeInv, PushesLevel, QuietAtRest
<1>3. CASE UNCHANGED <<notify, volume, silent, ducks>>
  <2>1. EffectiveLevel' = EffectiveLevel /\ DisplayLevel' = DisplayLevel
    BY <1>3 DEF EffectiveLevel, DisplayLevel
  <2> QED
    BY <1>1, <1>3, <2>1 DEF VolumeInv, PushesLevel, QuietAtRest, Quiet
<1> QED
  BY <1>2, <1>3

LEMMA InvAsked ==
  ASSUME VolumeInv, Asked \/ MergeStep \/ AdjustVolume PROVE VolumeInv'
<1> USE DEF Change, ApplyLocked, pushing, calls, dsp, spent
<1>1. CASE \E v \in Settings : SetVolume(v)
  BY <1>1, LevelSteps DEF SetVolume
<1>2. CASE \E on \in BOOLEAN : SetMuted(on)
  BY <1>2, LevelSteps DEF SetMuted
<1>3. CASE \E d \in DuckNames, s \in {"none", "soft", "hard"} : SetDuck(d, s)
  BY <1>3, LevelSteps DEF SetDuck
<1>4. ASSUME NEW s, Turn(s) PROVE VolumeInv'
  BY <1>4, LevelSteps DEF Turn
<1>5. CASE MergeStep
  BY <1>5, LevelSteps DEF MergeStep, mcu
<1>6. CASE AdjustVolume
  BY <1>6, LevelSteps DEF AdjustVolume
<1> QED
  BY <1>1, <1>2, <1>3, <1>4, <1>5, <1>6 DEF Asked

LEMMA InvWorks ==
  ASSUME VolumeAssumption, TypeOK, VolumeInv, Works PROVE VolumeInv'
<1> USE DEF VolumeInv, mcu, calls, dsp, spent
<1>0. worker \in {"idle", "pushing", "waiting"} /\ reply \in {"none", "ok", "error"}
  BY DEF TypeOK
<1>1. CASE Wake
  <2>1. ServesOne' /\ WaitsForLast' /\ SettledByOk' /\ QuietAtRest'
    BY <1>1 DEF Wake, ServesOne, Quiet, WaitsForLast, NoLive, SettledByOk, QuietAtRest
  <2>2. EffectiveLevel' = EffectiveLevel
    BY <1>1 DEF Wake, EffectiveLevel
  <2> QED
    BY <1>1, <2>1, <2>2 DEF Wake, PushesLevel
<1>2. CASE Push /\ up
  <2>1. inbox' = Append(inbox, Pushed) /\ reply' = "none" /\ worker' = "waiting"
    BY <1>2 DEF Push, Pushed
  <2>2. Pushed \in Calls
    BY ByteRange DEF Pushed, Calls, TypeOK
  <2>3. inbox \in Seq(Calls)
    BY DEF TypeOK
  <2>4. /\ inbox' # <<>> /\ Len(inbox') = Len(inbox) + 1 /\ Len(inbox) \in Nat
        /\ inbox'[Len(inbox')] = Pushed
        /\ \A i \in 1 .. Len(inbox') - 1 : inbox'[i] = inbox[i]
    BY <2>1, <2>2, <2>3
  <2>5. NoLive
    BY <1>2 DEF Push, WaitsForLast
  <2>6. Pushed' = Pushed /\ serving' = serving
    BY <1>2 DEF Push, Pushed
  <2>7. LiveIsLast'
    BY <2>4, <2>5, <2>6 DEF LiveIsLast, NoLive
  <2>8. ServesOne'
    BY <1>2 DEF Push, ServesOne, Quiet
  <2>9. EffectiveLevel' = EffectiveLevel
    BY <1>2 DEF Push, EffectiveLevel
  <2> QED
    BY <1>2, <2>1, <2>7, <2>8, <2>9
       DEF Push, WaitsForLast, SettledByOk, PushesLevel, QuietAtRest
<1>3. CASE Push /\ ~up
  BY <1>3 DEF Push, ServesOne, Quiet, WaitsForLast, NoLive, SettledByOk,
     PushesLevel, QuietAtRest
<1>4. CASE PushSucceeds
  <2>1. EffectiveLevel' = EffectiveLevel /\ DisplayLevel' = DisplayLevel
    BY <1>4 DEF PushSucceeds, EffectiveLevel, DisplayLevel
  <2>2. Quiet /\ cell["gain"] = DspByte(level) /\ (~notify => level = EffectiveLevel)
    BY <1>4 DEF PushSucceeds, SettledByOk, PushesLevel
  <2>3. ServesOne' /\ WaitsForLast' /\ SettledByOk' /\ PushesLevel'
    BY <1>4 DEF PushSucceeds, ServesOne, Quiet, WaitsForLast, NoLive,
       SettledByOk, PushesLevel
  <2> QED
    BY <1>4, <2>1, <2>2, <2>3 DEF PushSucceeds, QuietAtRest, Quiet
<1>5. CASE PushFails
  BY <1>5 DEF PushFails, ServesOne, Quiet, WaitsForLast, NoLive, SettledByOk,
     PushesLevel, QuietAtRest
<1> QED
  BY <1>1, <1>2, <1>3, <1>4, <1>5 DEF Works

(* The level and the worker do not change in a step of the DSP. *)
LEMMA SameLevel ==
  ASSUME UNCHANGED <<mcu, pushing>>
  PROVE  /\ EffectiveLevel' = EffectiveLevel /\ DisplayLevel' = DisplayLevel
         /\ Pushed' = Pushed
  BY DEF mcu, pushing, EffectiveLevel, DisplayLevel, Pushed

LEMMA InvServe ==
  ASSUME VolumeAssumption, TypeOK, VolumeInv, Serve PROVE VolumeInv'
<1> USE DEF VolumeInv
<1>1. /\ up /\ inbox # <<>> /\ serving = NoCall /\ stage["session"] = "idle"
      /\ serving' = Head(inbox) /\ inbox' = Tail(inbox)
      /\ todo' = Append(todo, [owner |-> "session", cmd |-> Gain(Head(inbox).gain),
                               open |-> TRUE])
      /\ stage'["session"] = "accepted" /\ up' = up /\ cell' = cell
  BY DEF Serve, Dsp!Accept, TypeOK
<1>2. UNCHANGED <<mcu, pushing>> /\ reply' = reply /\ lost' = lost
  BY DEF Serve
<1>3. /\ Head(inbox) = inbox[1] /\ Head(inbox) \in Calls /\ Len(inbox) \in Nat \ {0}
      /\ Len(inbox') = Len(inbox) - 1 /\ inbox' \in Seq(Calls)
      /\ \A i \in 1 .. Len(inbox) - 1 : inbox'[i] = inbox[i + 1]
  <2>1. inbox \in Seq(Calls)
    BY DEF TypeOK
  <2>2. Head(inbox) = inbox[1]
    BY <1>1, <2>1
  <2> QED
    BY <1>1, <2>1, <2>2, HeadTailProperties, EmptySeq
<1>4. serving' # NoCall
  BY <1>1, <1>3, NoCallApart
<1>5. Len(todo) <= 1 /\ \A i \in 1 .. Len(todo) : ~todo[i].open
  BY <1>1 DEF ServesOne
<1>6. ServesOne'
  <2>1. todo \in Seq(Queued) /\ Len(todo) \in Nat
    BY LenProperties DEF TypeOK
  <2>2. [owner |-> "session", cmd |-> Gain(Head(inbox).gain), open |-> TRUE] \in Queued
    BY <1>3 DEF Calls, Queued
  <2>3. /\ Len(todo') = Len(todo) + 1
        /\ todo'[Len(todo')].open /\ todo'[Len(todo')].cmd = Gain(serving'.gain)
        /\ \A i \in 1 .. Len(todo) : todo'[i] = todo[i]
    BY <1>1, <2>1, <2>2, QueueSteps
  <2>4. Len(todo') \in 1..2 /\ \A i \in 1 .. Len(todo') : todo'[i].open <=> i = Len(todo')
    BY <1>5, <2>1, <2>3
  <2> QED
    BY <1>1, <1>4, <2>3, <2>4 DEF ServesOne
<1>7. ~serving.live
  BY <1>1, NoCallApart
<1>8. WaitsForLast'
  <2>1. CASE worker = "waiting" /\ reply = "none"
    <3>1. /\ inbox[Len(inbox)] = Pushed
          /\ \A i \in 1 .. Len(inbox) - 1 : ~inbox[i].live
      BY <1>1, <1>7, <2>1 DEF WaitsForLast, LiveIsLast, Pushed
    <3>2. CASE Len(inbox) = 1
      <4>1. serving' = Pushed /\ inbox' = <<>>
        BY <1>1, <1>3, <3>1, <3>2, EmptySeq
      <4> QED
        BY <1>2, <2>1, <4>1, SameLevel DEF WaitsForLast, LiveIsLast, pushing
    <3>3. CASE Len(inbox) # 1
      <4>1. /\ ~serving'.live /\ inbox'[Len(inbox')] = Pushed /\ Len(inbox') # 0
            /\ \A i \in 1 .. Len(inbox') - 1 : ~inbox'[i].live
        BY <1>1, <1>3, <3>1, <3>3
      <4>2. inbox' # <<>>
        BY <4>1
      <4> QED
        BY <1>2, <2>1, <4>1, <4>2, SameLevel DEF WaitsForLast, LiveIsLast, pushing
    <3> QED
      BY <3>2, <3>3
  <2>2. CASE ~(worker = "waiting" /\ reply = "none")
    <3>1. ~serving'.live /\ \A i \in 1 .. Len(inbox') : ~inbox'[i].live
      BY <1>1, <1>3, <2>2 DEF WaitsForLast, NoLive
    <3> QED
      BY <1>2, <2>2, <3>1 DEF WaitsForLast, NoLive, pushing
  <2> QED
    BY <2>1, <2>2
<1>9. SettledByOk' /\ PushesLevel' /\ QuietAtRest'
  BY <1>1, <1>2, SameLevel DEF SettledByOk, PushesLevel, QuietAtRest, Quiet, pushing
<1> QED
  BY <1>6, <1>8, <1>9

(* An answer of the service: an OK to the call the worker waits for finds  *)
(* the command executed and nothing behind it.                             *)
LEMMA InvServeOk ==
  ASSUME VolumeAssumption, TypeOK, VolumeInv, ServeOk PROVE VolumeInv'
<1> USE DEF VolumeInv
<1>1. /\ stage["session"] = "executed" /\ stage'["session"] = "idle"
      /\ serving # NoCall /\ serving' = NoCall
      /\ reply' = IF serving.live THEN "ok" ELSE reply
      /\ UNCHANGED <<mcu, pushing, inbox, lost, up, cell, todo>>
  BY DEF ServeOk, Answered, Dsp!AnswerOk, TypeOK
<1>2. up /\ todo = <<>> /\ cell["gain"] = serving.gain
  BY <1>1 DEF ServesOne, Quiet
<1>3. ServesOne'
  BY <1>1, <1>2, EmptySeq DEF ServesOne
<1>4. CASE serving.live
  <2>1. worker = "waiting" /\ reply = "none" /\ serving = Pushed /\ inbox = <<>>
    BY <1>4 DEF WaitsForLast, LiveIsLast, NoLive
  <2>2. NoLive'
    BY <1>1, <2>1, NoCallApart DEF NoLive
  <2>3. SettledByOk'
    BY <1>1, <1>2, <2>1 DEF SettledByOk, Quiet, Pushed, pushing
  <2> QED
    BY <1>1, <1>3, <1>4, <2>1, <2>2, <2>3, SameLevel
       DEF WaitsForLast, PushesLevel, QuietAtRest, pushing
<1>5. CASE ~serving.live
  <2>1. WaitsForLast'
    BY <1>1, <1>5, NoCallApart, SameLevel
       DEF WaitsForLast, LiveIsLast, NoLive, Pushed, pushing
  <2> QED
    BY <1>1, <1>3, <1>5, <2>1, SameLevel
       DEF SettledByOk, PushesLevel, QuietAtRest, Quiet, pushing
<1> QED
  BY <1>4, <1>5

(* An error leaves at most the command that was being sent, given up; the  *)
(* worker learns of it when it is its own.                                 *)
LEMMA InvServeFails ==
  ASSUME VolumeAssumption, TypeOK, VolumeInv, ServeFails PROVE VolumeInv'
<1> USE DEF VolumeInv
<1>1. /\ stage["session"] # "idle" /\ stage'["session"] = "idle"
      /\ serving # NoCall /\ serving' = NoCall
      /\ reply' = IF serving.live THEN "error" ELSE reply
      /\ UNCHANGED <<mcu, pushing, inbox, lost, up, cell>>
  BY DEF ServeFails, Answered, Dsp!AnswerError, TypeOK
<1>2. todo \in Seq(Queued) /\ Len(todo) \in Nat /\ DOMAIN todo = 1 .. Len(todo)
  BY LenProperties DEF TypeOK
<1>3. Len(todo') <= 1 /\ Len(todo') \in Nat /\ \A i \in 1 .. Len(todo') : ~todo'[i].open
  <2>1. \/ Dsp!Waiting("session") = {} /\ todo' = todo
        \/ \E i \in Dsp!Waiting("session") : todo' = Dsp!Without(i)
        \/ 1 \in Dsp!Waiting("session") /\ todo' = [todo EXCEPT ![1].open = FALSE]
    BY DEF ServeFails, Dsp!AnswerError
  <2>2. Dsp!Waiting("session") = {i \in 1 .. Len(todo) : todo[i].open}
    <3>1. \A i \in 1 .. Len(todo) : todo[i] \in Queued
      <4>1. todo \in Seq(Queued)
        BY <1>2
      <4> QED
        BY <4>1, ElementOfSeq
    <3>2. \A i \in 1 .. Len(todo) : todo[i].owner = "session"
      BY <3>1 DEF Queued
    <3> QED
      BY <1>2, <3>2 DEF Dsp!Waiting
  <2>3. CASE stage["session"] = "executed"
    BY <1>2, <2>1, <2>2, <2>3, EmptySeq DEF ServesOne
  <2>4. CASE stage["session"] = "accepted"
    <3>1. Len(todo) \in 1..2 /\ Dsp!Waiting("session") = {Len(todo)}
      BY <2>2, <2>4 DEF ServesOne
    <3>2. CASE todo' = Dsp!Without(Len(todo))
      <4>1. /\ Len(todo') = Len(todo) - 1
            /\ \A j \in 1 .. Len(todo) - 1 : todo'[j] = todo[j]
        <5>1. Len(todo) \in 1 .. Len(todo) /\ todo \in Seq(Queued)
          BY <1>2, <3>1
        <5>2. /\ Len(Dsp!Without(Len(todo))) = Len(todo) - 1
              /\ \A j \in 1 .. Len(todo) - 1 :
                    Dsp!Without(Len(todo))[j] =
                      todo[IF j < Len(todo) THEN j ELSE j + 1]
          BY <5>1, QueueSteps
        <5> QED
          BY <1>2, <3>2, <5>2
      <4> QED
        BY <2>4, <3>1, <4>1 DEF ServesOne
    <3>3. CASE Len(todo) = 1 /\ todo' = [todo EXCEPT ![1].open = FALSE]
      <4>1. todo # <<>>
        BY <3>3
      <4>2. Len(todo') = Len(todo) /\ ~todo'[1].open
        BY <1>2, <3>3, <4>1, QueueSteps
      <4>3. Len(todo) = 1
        BY <3>3
      <4> QED
        BY <4>2, <4>3
    <3> QED
      BY <2>1, <3>1, <3>2, <3>3
  <2> QED
    BY <1>1, <2>3, <2>4 DEF ServesOne
<1>4. ServesOne'
  BY <1>1, <1>3 DEF ServesOne, Quiet
<1>5. CASE serving.live
  <2>1. worker = "waiting" /\ reply = "none" /\ serving = Pushed /\ inbox = <<>>
    BY <1>5 DEF WaitsForLast, LiveIsLast, NoLive
  <2>2. NoLive'
    BY <1>1, <2>1, NoCallApart DEF NoLive
  <2> QED
    BY <1>1, <1>4, <1>5, <2>1, <2>2, SameLevel
       DEF WaitsForLast, SettledByOk, PushesLevel, QuietAtRest, pushing
<1>6. CASE ~serving.live
  <2>1. WaitsForLast'
    BY <1>1, <1>6, NoCallApart, SameLevel
       DEF WaitsForLast, LiveIsLast, NoLive, Pushed, pushing
  <2>2. ~Quiet
    BY <1>1 DEF Quiet
  <2> QED
    BY <1>1, <1>4, <1>6, <2>1, <2>2, SameLevel
       DEF SettledByOk, PushesLevel, QuietAtRest, pushing
<1> QED
  BY <1>5, <1>6

(* A command is executed while the queue holds one: the worker neither     *)
(* rests nor has an OK then.                                               *)
LEMMA InvExecutes ==
  ASSUME VolumeAssumption, TypeOK, VolumeInv, Executes PROVE VolumeInv'
<1> USE DEF VolumeInv
<1>1. /\ up /\ todo # <<>> /\ todo' = Tail(todo)
      /\ cell' = [cell EXCEPT ![Head(todo).cmd.op] = Head(todo).cmd.value]
      /\ stage'["session"] = IF Head(todo).open /\ "session" = Head(todo).owner
                               THEN "executed" ELSE stage["session"]
      /\ UNCHANGED <<mcu, pushing, calls, lost, up>>
  BY DEF Executes, Dsp!Execute
<1>2. ~Quiet
  BY <1>1 DEF Quiet
<1>3. WaitsForLast' /\ SettledByOk' /\ PushesLevel' /\ QuietAtRest'
  BY <1>1, <1>2, SameLevel DEF WaitsForLast, LiveIsLast, NoLive, SettledByOk,
     PushesLevel, QuietAtRest, pushing, calls
<1>4. /\ todo \in Seq(Queued) /\ Len(todo) \in Nat \ {0} /\ Head(todo) = todo[1]
      /\ todo[1] \in Queued /\ Len(todo') = Len(todo) - 1 /\ todo' \in Seq(Queued)
      /\ \A i \in 1 .. Len(todo) - 1 : todo'[i] = todo[i + 1]
  <2>1. todo \in Seq(Queued) /\ Len(todo) \in Nat /\ Len(todo) # 0
    BY <1>1, LenProperties, EmptySeq DEF TypeOK
  <2>2. todo[1] \in Queued
    BY <2>1, ElementOfSeq
  <2>3. /\ Tail(todo) \in Seq(Queued) /\ Head(todo) = todo[1]
        /\ Len(Tail(todo)) = Len(todo) - 1
        /\ \A i \in 1 .. Len(todo) - 1 : Tail(todo)[i] = todo[i + 1]
    BY <1>1, <2>1, QueueSteps
  <2> QED
    BY <1>1, <2>1, <2>2, <2>3
<1>5. todo[1].owner = "session" /\ todo[1].cmd = Gain(todo[1].cmd.value)
  BY <1>4 DEF Queued, Gain
<1>6. "gain" \in DOMAIN cell /\ cell'["gain"] = todo[1].cmd.value
  BY <1>1, <1>4, <1>5 DEF TypeOK, Gain
<1>7. CASE todo[1].open
  <2>1. stage["session"] = "accepted" /\ Len(todo) = 1
    BY <1>4, <1>7 DEF ServesOne
  <2>2. todo[1].cmd = Gain(serving.gain)
    BY <2>1 DEF ServesOne
  <2>3. todo' = <<>> /\ cell'["gain"] = serving.gain
    BY <1>4, <1>6, <2>1, <2>2, EmptySeq DEF Gain
  <2>4. stage'["session"] = "executed" /\ serving # NoCall
    BY <1>1, <1>4, <1>5, <1>7, <2>1 DEF ServesOne
  <2>5. ServesOne'
    BY <1>1, <2>3, <2>4 DEF ServesOne, Quiet, calls
  <2> QED
    BY <1>3, <2>5
<1>8. CASE ~todo[1].open
  <2>1. stage'["session"] = stage["session"] /\ stage["session"] # "executed"
    BY <1>1, <1>4, <1>8 DEF ServesOne
  <2>2. CASE stage["session"] = "idle"
    <3>1. Len(todo') = 0
      BY <1>4, <2>2 DEF ServesOne
    <3> QED
      BY <1>1, <1>3, <2>1, <2>2, <3>1 DEF ServesOne, Quiet, calls
  <2>3. CASE stage["session"] = "accepted"
    <3>1. Len(todo) = 2 /\ todo[2].open /\ todo[2].cmd = Gain(serving.gain)
      BY <1>4, <1>8, <2>3 DEF ServesOne
    <3>2. Len(todo') = 1 /\ todo'[1] = todo[2]
      BY <1>4, <3>1
    <3>3. /\ Len(todo') \in 1..2
          /\ \A i \in 1 .. Len(todo') : todo'[i].open <=> i = Len(todo')
          /\ todo'[Len(todo')].cmd = Gain(serving.gain)
      BY <3>1, <3>2
    <3>4. serving # NoCall
      BY <2>3 DEF ServesOne
    <3>5. ServesOne'
      BY <1>1, <2>1, <2>3, <3>3, <3>4 DEF ServesOne, calls
    <3> QED
      BY <1>3, <3>5
  <2> QED
    BY <2>1, <2>2, <2>3 DEF ServesOne
<1> QED
  BY <1>7, <1>8

(* The service comes up, resets the DSP or goes away only with nothing of  *)
(* the worker left in it.                                                  *)
LEMMA InvBoots == ASSUME VolumeAssumption, VolumeInv, DspBoots PROVE VolumeInv'
<1> USE DEF VolumeInv
<1>1. /\ ~up /\ up' = TRUE
      /\ UNCHANGED <<mcu, pushing, calls, lost, cell, todo, stage>>
  BY DEF DspBoots, Dsp!Boot
<1>2. /\ inbox' = inbox /\ serving' = serving /\ reply' = reply /\ worker' = worker
      /\ notify' = notify /\ retry' = retry /\ level' = level /\ drawn' = drawn
  BY <1>1 DEF calls, pushing
<1> QED
  BY <1>1, <1>2, SameLevel DEF ServesOne, Quiet, WaitsForLast, LiveIsLast, NoLive,
     SettledByOk, PushesLevel, QuietAtRest

LEMMA InvResets == ASSUME VolumeAssumption, VolumeInv, DspResets PROVE VolumeInv'
<1> USE DEF VolumeInv
<1>1. /\ ~up /\ lost' = TRUE
      /\ UNCHANGED <<mcu, pushing, calls, up, todo, stage>>
  BY DEF DspResets, Dsp!Reset
<1>2. /\ inbox' = inbox /\ serving' = serving /\ reply' = reply /\ worker' = worker
      /\ notify' = notify /\ retry' = retry /\ level' = level /\ drawn' = drawn
  BY <1>1 DEF calls, pushing
<1>3. Quiet /\ stage["session"] = "idle"
  BY <1>1 DEF ServesOne, Quiet
<1> QED
  BY <1>1, <1>2, <1>3, SameLevel DEF ServesOne, Quiet, WaitsForLast, LiveIsLast, NoLive,
     SettledByOk, PushesLevel, QuietAtRest

LEMMA InvCrashes ==
  ASSUME VolumeAssumption, TypeOK, VolumeInv, DspCrashes PROVE VolumeInv'
<1> USE DEF VolumeInv
<1>1. /\ up' = FALSE /\ todo' = <<>> /\ inbox' = <<>> /\ serving' = NoCall
      /\ stage'["session"] = "idle"
      /\ reply' = IF worker = "waiting" THEN "error" ELSE reply
      /\ UNCHANGED <<mcu, pushing, lost, cell>>
  BY DEF DspCrashes, Dsp!Crash
<1>2. /\ worker' = worker /\ notify' = notify /\ retry' = retry /\ level' = level
      /\ drawn' = drawn
  BY <1>1 DEF pushing
<1>3. Quiet' /\ Len(todo') = 0 /\ Len(inbox') = 0 /\ ~serving'.live
  BY <1>1, NoCallApart DEF Quiet
<1> QED
  BY <1>1, <1>2, <1>3, SameLevel DEF ServesOne, Quiet, WaitsForLast, NoLive,
     SettledByOk, PushesLevel, QuietAtRest

(* Giving up, and starting again, leave only calls of nobody. *)
LEMMA GivesUp ==
  ASSUME VolumeAssumption, TypeOK, ServesOne,
         inbox' = Given, serving' = Abandoned(serving),
         UNCHANGED <<up, cell, todo, stage>>
  PROVE  ServesOne' /\ NoLive'
<1>1. serving \in Calls \cup {NoCall}
  BY DEF TypeOK
<1>2. /\ ~serving'.live /\ serving'.gain = serving.gain
      /\ serving' = NoCall <=> serving = NoCall
  BY <1>1, AbandonedCall
<1>3. /\ \A i \in 1 .. Len(inbox') : ~inbox'[i].live
      /\ inbox = <<>> => inbox' = <<>>
  BY AbandonedInbox
<1> QED
  BY <1>2, <1>3 DEF ServesOne, Quiet, NoLive

LEMMA InvExpires ==
  ASSUME VolumeAssumption, TypeOK, VolumeInv, PushExpires PROVE VolumeInv'
<1>1. ServesOne' /\ NoLive'
  BY GivesUp DEF VolumeInv, PushExpires, dsp, Given
<1>2. worker' = "idle" /\ retry' = TRUE
  BY DEF PushExpires
<1> QED
  BY <1>1, <1>2 DEF VolumeInv, WaitsForLast, SettledByOk, PushesLevel, QuietAtRest

LEMMA InvRestarts ==
  ASSUME VolumeAssumption, TypeOK, VolumeInv, McuRestarts PROVE VolumeInv'
<1>1. ServesOne' /\ NoLive'
  BY GivesUp DEF VolumeInv, McuRestarts, dsp, Given
<1>2. worker' = "idle" /\ notify' = TRUE
  BY DEF McuRestarts
<1> QED
  BY <1>1, <1>2 DEF VolumeInv, WaitsForLast, SettledByOk, PushesLevel, QuietAtRest

LEMMA VolumeInvStep ==
  ASSUME VolumeAssumption, TypeOK, VolumeInv, [Next]_vars PROVE VolumeInv'
<1>1. CASE UNCHANGED vars
  BY <1>1, LevelSteps DEF vars, mcu, pushing, calls, dsp
<1>2. CASE DspWorks
  BY <1>2, InvServe, InvServeOk, InvExecutes, InvResets, InvBoots DEF DspWorks
<1>3. CASE Faulty
  BY <1>3, InvServeFails, InvCrashes, InvExpires, InvRestarts DEF Faulty
<1> QED
  BY <1>1, <1>2, <1>3, InvAsked, InvWorks DEF Next

(* dspVolumeController, the relay and the service of dsp-interface: every  *)
(* value stays in its range whatever is asked and whatever fails.          *)
THEOREM VolumeTypes == ASSUME VolumeAssumption PROVE Spec => []TypeOK
  BY TypeInit, TypeStep, PTL DEF Spec

(* The worker of volume.go: of all the calls that may still be on their    *)
(* way to the DSP only the last one counts, so that when the worker rests  *)
(* the DSP was told the level in force and the ring shows it, however many *)
(* calls expired, were answered late or were cut off by a restart.         *)
THEOREM LevelAtRest == ASSUME VolumeAssumption PROVE Spec => []RestsAtLevel
<1>1. VolumeInv => RestsAtLevel
  BY DEF VolumeInv, QuietAtRest, RestsAtLevel
<1> QED
  BY TypeInit, TypeStep, VolumeInvInit, VolumeInvStep, <1>1, PTL DEF Spec
=============================================================================
