----------------------------- MODULE MicCapture -----------------------------
(***************************************************************************)
(* tools/mic-capture: one owner of the capture device for many consumers.  *)
(* main follows the DSP service: each run of it gets a generation of its   *)
(* own, a helper that reads periods from ALSA, and an enabled hub.  The    *)
(* hub hands every period to every client's queue; one goroutine per       *)
(* client writes its queue to the socket.  A client that is too slow is    *)
(* disconnected, and so is everybody when the generation ends.  A flag     *)
(* polled from the microphone-state file decides whether periods pass.     *)
(***************************************************************************)
EXTENDS Naturals, Sequences

CONSTANTS
    Clients,          \* connections to the audio socket
    QueuePeriods,     \* queueSize of the hub
    SourcePeriods,    \* periods between the helper and main
    MaxPeriods,       \* bound: periods recorded
    MaxDspRestarts,   \* bound: restarts of dsp-interface
    MaxMuteWrites,    \* bound: changes of the microphone-state file
    MaxCaptureFaults  \* bound: failed starts, dead helpers, slow writes, timeouts, kills

CaptureAssumption ==
    {QueuePeriods, SourcePeriods, MaxPeriods, MaxDspRestarts, MaxMuteWrites,
     MaxCaptureFaults} \subseteq Nat

VARIABLES
    dspRun,           \* the generation of dsp-interface, 0 while it cannot be read
    muteFile,         \* microphone-state says muted
    capture,          \* where main is
    bound,            \* the generation of dsp-interface main captures for
    generation, sequence,
    recorder,         \* the helper runs
    periods,          \* periods read and not taken by main
    gate,             \* the polled flag: periods are dropped
    listening,        \* the audio server accepts
    enabled, hubGeneration, hub,     \* clientHub
    client,           \* per connection, its goroutine: see Away
    awaited,          \* clients whose end block() waits for
    recorded, dspRestarts, muteWrites, captureFaults

mainVars == <<capture, bound, generation, sequence, recorder, periods, gate>>
hubVars == <<enabled, hubGeneration, hub, client>>
outside == <<dspRun, muteFile, dspRestarts, muteWrites>>
cvars == <<mainVars, hubVars, outside, listening, awaited, recorded, captureFaults>>

NoRecord == [generation |-> 0, sequence |-> 0]
Away == [at |-> "away", header |-> 0, queue |-> <<>>, hand |-> NoRecord, got |-> NoRecord,
         stopped |-> FALSE]

CaptureInit ==
    /\ capture = "waiting" /\ bound = 0 /\ generation = 0 /\ sequence = 0
    /\ recorder = FALSE /\ periods = 0 /\ gate = TRUE
    /\ listening = TRUE
    /\ enabled = FALSE /\ hubGeneration = 0 /\ hub = {}
    /\ client = [c \in Clients |-> Away]
    /\ awaited = {}
    /\ dspRun = 0 /\ muteFile \in BOOLEAN
    /\ recorded = 0 /\ dspRestarts = 0 /\ muteWrites = 0 /\ captureFaults = 0

Fault == captureFaults < MaxCaptureFaults /\ captureFaults' = captureFaults + 1

Goes(from, to) == capture = from /\ capture' = to

-----------------------------------------------------------------------------
(* main *)

FindDsp ==
    /\ Goes("waiting", "starting")
    /\ dspRun # 0
    /\ bound' = dspRun
    /\ generation' = generation + 1
    /\ UNCHANGED <<sequence, recorder, periods, gate, hubVars, outside, listening, awaited,
                   recorded, captureFaults>>

StartCapture ==
    /\ Goes("starting", "capturing")
    /\ recorder' = TRUE
    /\ sequence' = 0
    /\ gate' = TRUE
    /\ enabled' = TRUE /\ hubGeneration' = generation
    /\ UNCHANGED <<bound, generation, periods, hub, client, outside, listening, awaited,
                   recorded, captureFaults>>

StartFails ==
    /\ Goes("starting", "ended")
    /\ Fault
    /\ UNCHANGED <<bound, generation, sequence, recorder, periods, gate, hubVars, outside,
                   listening, awaited, recorded>>

PollMute ==
    /\ capture = "capturing"
    /\ gate # muteFile
    /\ gate' = muteFile
    /\ UNCHANGED <<capture, bound, generation, sequence, recorder, periods, hubVars,
                   outside, listening, awaited, recorded, captureFaults>>

Stopped(c) == [c EXCEPT !.stopped = TRUE]

(* Whose queue is full is removed and stopped. *)
HasRoom(c) == Len(client[c].queue) < QueuePeriods
Queued(c, record) == [client[c] EXCEPT !.queue = Append(@, record)]

Broadcast_Drops(record) ==
    /\ UNCHANGED hub
    /\ client' = [c \in Clients |->
                    IF c \in hub /\ HasRoom(c) THEN Queued(c, record) ELSE client[c]]

Broadcast(record) ==
    /\ hub' = {c \in hub : HasRoom(c)}
    /\ client' = [c \in Clients |-> IF c \notin hub THEN client[c]
                                    ELSE IF HasRoom(c) THEN Queued(c, record)
                                    ELSE Stopped(client[c])]

TakePeriod ==
    /\ capture = "capturing"
    /\ periods > 0
    /\ periods' = periods - 1
    /\ IF gate THEN UNCHANGED <<sequence, hub, client>>
               ELSE /\ Broadcast([generation |-> generation, sequence |-> sequence])
                    /\ sequence' = sequence + 1
    /\ UNCHANGED <<capture, bound, generation, recorder, gate, enabled, hubGeneration,
                   outside, listening, awaited, recorded, captureFaults>>

(* The helper is gone and its periods are taken, or the DSP service is not *)
(* the one it was.                                                         *)
DspChanged_Gone == dspRun = 0
DspChanged == dspRun # bound

CaptureEnds ==
    /\ Goes("capturing", "ended")
    /\ DspChanged \/ (periods = 0 /\ ~recorder)
    /\ recorder' = FALSE /\ periods' = 0
    /\ UNCHANGED <<bound, generation, sequence, gate, hubVars, outside, listening, awaited,
                   recorded, captureFaults>>

(* block() lets nobody in, stops everybody and then waits for them outside *)
(* its mutex, for two seconds.                                             *)
Block ==
    /\ Goes("ended", "blocking")
    /\ enabled' = FALSE
    /\ hub' = {}
    /\ client' = [c \in Clients |-> IF c \in hub THEN Stopped(client[c]) ELSE client[c]]
    /\ awaited' = hub
    /\ UNCHANGED <<bound, generation, sequence, recorder, periods, gate, hubGeneration,
                   outside, listening, recorded, captureFaults>>

BlockEnds ==
    /\ Goes("blocking", "waiting")
    /\ IF awaited = {} THEN UNCHANGED captureFaults ELSE Fault
    /\ awaited' = {}
    /\ UNCHANGED <<bound, generation, sequence, recorder, periods, gate, hubVars, outside,
                   listening, recorded>>

-----------------------------------------------------------------------------
(* The helper *)

Record ==
    /\ recorder
    /\ periods < SourcePeriods
    /\ recorded < MaxPeriods
    /\ recorded' = recorded + 1
    /\ periods' = periods + 1
    /\ UNCHANGED <<capture, bound, generation, sequence, recorder, gate, hubVars, outside,
                   listening, awaited, captureFaults>>

RecorderDies ==
    /\ recorder
    /\ Fault
    /\ recorder' = FALSE
    /\ UNCHANGED <<capture, bound, generation, sequence, periods, gate, hubVars, outside,
                   listening, awaited, recorded>>

-----------------------------------------------------------------------------
(* The audio server and the goroutine of a client *)

(* While the hub is not enabled the connection is closed at once. *)
ConnectClient(c) ==
    /\ listening /\ enabled
    /\ client[c] = Away
    /\ hub' = hub \cup {c}
    /\ client' = [client EXCEPT ![c] = [Away EXCEPT !.at = "header", !.header = hubGeneration]]
    /\ UNCHANGED <<mainVars, enabled, hubGeneration, outside, listening, awaited, recorded,
                   captureFaults>>

(* accept fails: the server ends, and nobody reads why. *)
ServerFails ==
    /\ listening
    /\ Fault
    /\ listening' = FALSE
    /\ UNCHANGED <<mainVars, hubVars, outside, awaited, recorded>>

Serves(c, next) ==
    /\ client' = [client EXCEPT ![c] = next]
    /\ UNCHANGED <<mainVars, enabled, hubGeneration, hub, outside, listening, awaited, recorded>>

TakeRecord(c) ==
    LET me == client[c] IN
    /\ me.at = "idle"
    /\ \/ /\ me.queue # <<>>
          /\ Serves(c, [me EXCEPT !.at = "writing", !.hand = Head(me.queue), !.queue = Tail(@)])
       \/ /\ me.queue = <<>> /\ me.stopped
          /\ Serves(c, [me EXCEPT !.at = "leaving"])
    /\ UNCHANGED captureFaults

Write(c) ==
    LET me == client[c] IN
    /\ ~me.stopped
    /\ \/ me.at = "header" /\ Serves(c, [me EXCEPT !.at = "idle"])
       \/ /\ me.at = "writing"
          /\ Serves(c, [me EXCEPT !.at = "idle", !.got = me.hand, !.hand = NoRecord])
    /\ UNCHANGED captureFaults

(* The connection was closed, or the consumer does not read for 250 ms. *)
WriteFails(c) ==
    LET me == client[c] IN
    /\ me.at \in {"header", "writing"}
    /\ IF me.stopped THEN UNCHANGED captureFaults ELSE Fault
    /\ Serves(c, [me EXCEPT !.at = "leaving"])

(* onExit takes the client from the hub, and then it is done. *)
Leave(c) ==
    /\ client[c].at = "leaving"
    /\ hub' = hub \ {c}
    /\ client' = [client EXCEPT ![c] = Away]
    /\ awaited' = awaited \ {c}
    /\ UNCHANGED <<mainVars, enabled, hubGeneration, outside, listening, recorded,
                   captureFaults>>

-----------------------------------------------------------------------------
(* The rest of the speaker *)

DspStarts ==
    /\ dspRun = 0
    /\ dspRun' = dspRestarts + 1
    /\ UNCHANGED <<mainVars, hubVars, muteFile, dspRestarts, muteWrites, listening, awaited,
                   recorded, captureFaults>>

DspEnds ==
    /\ dspRun # 0
    /\ dspRestarts < MaxDspRestarts
    /\ dspRestarts' = dspRestarts + 1
    /\ dspRun' = 0
    /\ UNCHANGED <<mainVars, hubVars, muteFile, muteWrites, listening, awaited, recorded,
                   captureFaults>>

MuteWritten ==
    /\ muteWrites < MaxMuteWrites
    /\ muteWrites' = muteWrites + 1
    /\ muteFile' = ~muteFile
    /\ UNCHANGED <<mainVars, hubVars, dspRun, dspRestarts, listening, awaited, recorded,
                   captureFaults>>

(* The process is killed, its helper with it, and PID 1 starts another. *)
Restart ==
    /\ Fault
    /\ capture' = "waiting" /\ bound' = 0 /\ generation' = 0 /\ sequence' = 0
    /\ recorder' = FALSE /\ periods' = 0 /\ gate' = TRUE
    /\ listening' = TRUE
    /\ enabled' = FALSE /\ hubGeneration' = 0 /\ hub' = {}
    /\ client' = [c \in Clients |-> Away]
    /\ awaited' = {}
    /\ UNCHANGED <<outside, recorded>>

-----------------------------------------------------------------------------
CaptureMain == FindDsp \/ StartCapture \/ PollMute \/ TakePeriod \/ CaptureEnds \/ Block \/ BlockEnds

ClientWorks(c) == TakeRecord(c) \/ Write(c) \/ WriteFails(c) \/ Leave(c)

CaptureNext ==
    \/ CaptureMain \/ StartFails \/ Record \/ RecorderDies \/ ServerFails \/ Restart
    \/ \E c \in Clients : ConnectClient(c) \/ ClientWorks(c)
    \/ DspStarts \/ DspEnds \/ MuteWritten

CaptureSpec == CaptureInit /\ [][CaptureNext]_cvars

(* Goroutines run, select serves each of its cases, and PID 1 starts the   *)
(* DSP service again.                                                      *)
CaptureFairness ==
    /\ WF_cvars(CaptureMain) /\ SF_cvars(CaptureEnds) /\ SF_cvars(PollMute)
    /\ WF_cvars(DspStarts)
    /\ \A c \in Clients : WF_cvars(ClientWorks(c))

CaptureFairSpec == CaptureSpec /\ CaptureFairness

-----------------------------------------------------------------------------
Records == [generation : Nat, sequence : Nat]
Connections ==
    [at : {"away", "header", "idle", "writing", "leaving"}, header : Nat,
     queue : Seq(Records), hand : Records, got : Records, stopped : BOOLEAN]

CaptureTypeOK ==
    /\ capture \in {"waiting", "starting", "capturing", "ended", "blocking"}
    /\ {bound, generation, sequence, hubGeneration, dspRun, recorded, dspRestarts,
        muteWrites, captureFaults} \subseteq Nat
    /\ periods \in 0..SourcePeriods
    /\ {recorder, gate, listening, enabled, muteFile} \subseteq BOOLEAN
    /\ hub \subseteq Clients /\ awaited \subseteq Clients
    /\ client \in [Clients -> Connections]
    /\ \A c \in Clients : Len(client[c].queue) <= QueuePeriods

(* What was last written to a client, is being written and is queued.      *)
Stream(c) ==
    LET known(record) == IF record = NoRecord THEN <<>> ELSE <<record>>
    IN  known(client[c].got) \o known(client[c].hand) \o client[c].queue

(* A client gets each record of one generation, that of its header, from   *)
(* the first it is sent until it is disconnected: a slow one is never      *)
(* skipped over, a restart of the capture never joins two generations, and *)
(* nothing is ever sent to a queue that was closed.                        *)
StreamsWhole ==
    \A c \in Clients :
      LET s == Stream(c) IN
      /\ \A i \in DOMAIN s : s[i].generation = client[c].header
      /\ \A i \in 1..Len(s) - 1 : s[i + 1].sequence = s[i].sequence + 1
      /\ c \in hub =>
           /\ ~client[c].stopped
           /\ client[c].header = generation
           /\ s = <<>> \/ s[Len(s)].sequence + 1 = sequence

(* Why it holds.  The hub has members only while main captures, or has     *)
(* just ended; what a client was given are the records of its header's     *)
(* generation before some `end`, which for a member of the hub is the      *)
(* record that comes next.                                                 *)
Ends(me, end) ==
    LET Nth(n) == [generation |-> me.header, sequence |-> n]
        first == end - Len(me.queue)
    IN  /\ \A i \in 1..Len(me.queue) : me.queue[i] = Nth(first + i - 1)
        /\ me.hand # NoRecord => me.hand = Nth(first - 1)
        /\ me.got # NoRecord => me.got = Nth(IF me.hand = NoRecord THEN first - 1 ELSE first - 2)

HubOfThisRun ==
    /\ capture \in {"starting", "capturing", "ended", "blocking"} => generation > 0
    /\ IF enabled THEN capture \in {"capturing", "ended"} /\ hubGeneration = generation
                  ELSE hub = {}

HandFits(me) ==
    /\ me.at # "away" => me.header > 0
    /\ me.at \in {"header", "idle"} => me.hand = NoRecord
    /\ me.at = "writing" => me.hand # NoRecord

Given(c) ==
    \E end \in Nat :
      /\ Ends(client[c], end)
      /\ c \in hub => ~client[c].stopped /\ client[c].header = generation /\ end = sequence

CaptureInv == HubOfThisRun /\ \A c \in Clients : HandFits(client[c]) /\ Given(c)

(* Through restarts of the DSP service, of the helper and of its own, the  *)
(* capture comes to serve the DSP service that runs, with the gate where   *)
(* the microphone-state file has it.                                       *)
FollowsDsp ==
    <>[](capture = "capturing" /\ recorder /\ bound = dspRun /\ enabled /\ gate = muteFile)
=============================================================================
