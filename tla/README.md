# reInvoke: TLA+ specifications and proofs

reInvoke replaces the firmware of the Harman Kardon Invoke speaker by a set of
small Go services and scripts that run from RAM, and by the tools that install
the same system on the speaker's NAND flash. This directory holds TLA+ modules
of the parts where an interleaving, a crash or a failed call can hurt the
device, TLC configurations that model-check them on small instances, and TLAPS
proofs of their main theorems for every value of the constants.

Paths below are relative to `src/tools/` unless they say otherwise.

## 1. Inventory

| Component | State it keeps | Operations | Talks to |
|---|---|---|---|
| NAND extent writer, `nand-inspect/internal/probewrite`, `cmd/nand-probe-write` | the flash extent; a journal in RAM; a temporary MTD partition | preflight, check-map, install, restore, resume-preflight, resume | kernel MTD, the operator |
| NAND baseline reconstruction, `reconstruction_*.go` | the same, over several ranges | plan, execute, journal | kernel MTD |
| NAND inspection, squashfs patch, `nand-inspect/*.go`, `internal/squashmin` | none (files) | parse, patch, compare | host files |
| Persistence service, `nand-pilot/persistence` | `state.json`, `service.current`, the settings in `/run/reinvoke` | prepare, serve, load, save, save-seed, flush, stop | applyd, MCU service, PID 1 |
| Status reporter, `nand-pilot/status` | none | collect, print | status files |
| Network supervisor, `provisioning/networkd` | lease lock, owner record, lease file, failure marker; the wlan interface | supervise, DHCP start and stop, event handlers, cleanup | wpa_supplicant, udhcpc, PID 1 |
| Wi-Fi apply service, `provisioning/applyd` | supplicant configuration, saved profile | apply, resume, save-seed | wpa_supplicant, persistence |
| Provisioning HTTPS service, `provisioning/main.go` | applying and complete flags | networks, apply, status | applyd |
| Provisioning window, `provisioning/windowd` | one active window with five children | open, monitor, cleanup | the four daemons it starts, MCU service |
| MCU interface, `mcu-interface` | level, mute, ducks and the file they come back from; the outputs of the expander; microphone mute, its file and light; voice state and its lease | WAMP calls, dial and buttons, events of DSP sessions, voice reports, shutdown | I2C, WAMP router, the microphone socket of dsp-interface |
| DSP interface, `dsp-interface` | place in the boot, transmit ring, pending frames, WAMP session, microphone socket | boot, transmit, receive, dispatch, restore of the mute | SPI, I2C, GPIO, WAMP router, mcu-interface |
| Microphone capture, `mic-capture` | hub of clients and their queues, generation, polled mute flag | capture, broadcast, disconnect, block | ALSA, dsp-interface's pid, voice endpoint |
| Source manager, `source-manager` | registry of audio sources, the active one, waiting calls | register, start, stop, media verbs | WAMP router |
| Voice endpoint, `voice-endpoint` | worker process, transport, feedback | start, stream, stop | mic-capture, MCU service |
| Small services: `propertyd`, `identifiers`, `pairing-agent`, `hci-down` | properties; a cache | get, set, reply | sockets |
| Init and boot scripts, `usb-boot/native-ram-init`, `nand-pilot/*.sh` | the supervised processes | start, restart after five seconds | everything |
| Build, packaging, emulation, control scripts | none on the device | build, check | host |

### What is hard, and what makes each component correct

* **NAND writer.** Minutes pass between the preflight read of a block and its
  erase; a session may die at any point and another kind of session may follow
  it. Correct means: a session that reports success wrote what it meant; no
  block is touched that is not what preflight saw; the header block is last; an
  interruption costs the block under way and nothing else; the original can
  always be restored.
* **Persistence.** The file, the snapshot in memory and the settings in RAM
  drift apart at every failed call. Correct means: what was answered OK
  survives a power cut, the file is never torn, an undecodable file and a saved
  profile are never replaced by something poorer, a changed setting reaches the
  disk.
* **Network supervisor.** Three kinds of processes share four files and the
  interface; any of them may be killed. Correct means: everything on the
  interface is on record, a cleaned interface stays clean, one DHCP client, and
  the lease comes back or goes away as the association demands.
* **Provisioning** (window, HTTPS service, apply service). Three timers and
  five children race; the user must be told what happened. Correct means: a
  success that is reported is a station that is associated and a profile that
  is saved, and a window never leaves a child behind.
* **MCU interface.** Buttons, the dial, WAMP calls, timers and a second process
  on the same expander change level, outputs, mute and light at once, through
  calls that may be given up and still take effect. Correct means: once
  everything is quiet the DSP and the ring are where they were asked to be; the
  amplifier is never on over a muted DAC; the mute light is true.
* **DSP interface.** A caller's deadline passes while its command is on the ring
  or on the wire, next to unsolicited frames and errors of the link. Correct
  means: commands take effect in order, once, and not after they were given
  up; OK means executed; nobody is served before the microphone is muted again.
* **Microphone capture.** A slow client must not stall the others, and a
  restart of the DSP service or the helper must not join two recordings.
* **Source manager.** A call's reply must reach the handler that waits for it.
* **Voice endpoint.** The worker must stop when its session does.
* **Reconstruction.** As the NAND writer, over several ranges and with
  a replayable journal.

`PROJECT.json` lists each hazard with its line and the properties aimed at it.

## 2. Plan

1. `NandWrite` (done): the writes that could brick a speaker come first.
2. `Persist` (done): the only other state that survives a reboot.
3. `Networkd` (done): the component with the most processes and files.
4. `WifiWindow` (done): composes windowd, provisiond and applyd with the promise
   of `Persist` (a save that was acknowledged is what the next boot loads).
   A reported success is an associated station; no orphan child; every window ends.
5. `CommandServer` and `DspService` (done): what dsp-interface promises, and the
   service with its link that keeps it (refinement).
6. `Volume`, `Outputs`, `Microphone` with `VoiceFeedback` (done): the state
   machines of mcu-interface, over `CommandServer`; `MicCapture` (done).
   `MCSpeaker` runs the audio services.
7. `SourceSession` (done): the reader that waits for its own reply.

Every safety property that a passing run checks has its theorem (section 5).
Still worth proving, in this order: that `DspService` leaves a restart with the
microphone as the state file had it, whoever wrote that file; what
`VoiceFeedback` may show while the microphone is muted; that `NandWrite`'s
sessions with `mode = "restore"` end in `extent-verified-no-reboot` unless they
fail, are cancelled or die. Components that could still be modelled are listed
in section 6.

## 3. Modules

### NandWrite

One operator session at a time over an extent of `N` blocks. Block contents are
abstract: `same` (a block the plan leaves alone), `original`, `image`, `blank`,
`partial`, and `foreign` (data that nobody planned).

| Model | Code |
|---|---|
| `flash` | the extent as `checkedRead` would return it |
| `snap` | `Snapshot.Hashes` |
| `pc` with `cursor`, `pass`, `todo`, `page` | the loops of `preflight`, `prepareResume`, `enableWritesPhase`, `recheckMappingState`, `executePrepared` |
| `partition`, `leftover` | the temporary partition: not there, read-only, read-write, enabled for writes; still listed after the session |
| `begun`, `verified` | the `before-erase` and `block-verified` records of the journal |
| `result` | how the session ended (`extent-verified-no-reboot`, an error, a cancellation, a death) |
| `unread`, `disturbs` | what the medium lost since the writer last read it |

Each loop turn that touches the flash is an action. `EnableWrites` reads the
extent six times around the creation of the partition, the comparison with the
master and the exchange of descriptors; `NextPass` is what stands between two
passes. The write order is not a sequence but the relation `Precedes`; `IsNext`
is the head of the order among the blocks still to do. `Fail` is an error of any
call, with the damage a failed erase or program may do; `Killed` leaves the
partition behind; `PowerCut` loses it and may leave the block under way half
done; `Disturb` is the medium losing a block between two reads, except
inside the erase, program and verify cycle of the current block, which takes
milliseconds. Left out: the ECC counters behind `statsTracker` (a read that is
not trusted is a `Fail`), pages and targets that are all `0xff`, the contents
of the evidence files, and the sysfs text of the topology check.

### Persist

`disk` is `state.json` as a read sees it, `survivors` is what a power cut may
leave of it: the rename of `atomicPrivate` adds to the set, the directory fsync
shrinks it. One value stands for the two required settings
(`microphone-state`, `music-volume`); Bluetooth bonds are vestigial in
`state.go` and left out, as are the discovery of the app partition, the wire
format, `load` (it changes no state) and the public status file.

| Model | Code |
|---|---|
| `Prepare`, `Serve` | the two commands of `main.go`, run by `persistence-start.sh` and PID 1 |
| `SaveKnown`, `Save`, `Begin`, `Commit`, `CommitUnchanged` | `handle`, `storage.save` |
| `Flush`, `Terminate`, `FinalFlush` | the ticker, SIGTERM, the last flush |
| `SyncTemp`, `Rename`, `SyncDirectory` and their failures | `atomicPrivate`, one file operation per action |
| `promised`, `doubted` | what clients were told: history variables |
| `limited` | less than 30 seconds since `lastWrite` |

The mutex of the service makes `op` a single value: requests, ticks and the final
flush take turns, and faults come between their file operations.

### Networkd and MCNetworkd

The supervisor's loop (`sup` names the place, `caller` on whose behalf
`cleanup` runs), at most one udhcpc child, and per udhcpc process the event
handler it runs. A handler is a process of its own: it takes the lease lock, checks
the owner record, configures or clears the lease one command at a time, releases
the lock and only then sets or clears the failure marker.

| Model | Code |
|---|---|
| `lock`, `owner`, `pid`, `lease`, `marker` | `lease.lock`, `udhcpc.owner`, `udhcpc.pid`, `lease.json`, `event-failure` |
| `addrs`, `routes`, `resolver` | the interface and `resolv.conf` |
| `known`, `pending`, `recovering`, `backoff`, `misses` | `lifecycleState`, `cleanupPending`, `recoveringEvent`, `nextRetry` in the future, `statusFailures` |
| `Decide` with `Transition` | the head of the loop of `supervise` and `transition` |
| `Terminate`, `Kill`, `Reap`, `ClearLease`, `Unmark` | `cleanup`: `stopDHCP`, `clearLeaseState`, the marker |
| `Spawn`, `Own`, `OwnFails` | `startDHCP` under the lease lock |
| `Event...` | `runEvent`, `configureLease` and its rollback |
| `Client...` | udhcpc (external): one script at a time, SIGTERM ends it after its script |

`marker` records whose event left it, which the file does not; no guard reads
this except to see whether there is a marker. A lease stands for its address and
its route. The values of the retry delays (1 s doubling to 30 s) are left out:
`backoff` only says that the time is not up. `Boot` assumes that, in the five
seconds PID 1 waits, a client that was sent SIGTERM and runs no script is
gone. One supervisor at a time is assumed from `supervisor.lock`. Left out: loss of
the runtime directory, files of a foreign owner or with invalid contents, errors of
signalling the own child, and a kill in the middle of a clear beyond the partial
outcomes `Clear` already has. `MCNetworkd` adds the symmetry sets of the safety run.

### WifiWindow

One window at a time, with its adapter, its parser and its access point, over
the supplicant that outlives them. A profile stands for its SSID and key.

| Model | Code |
|---|---|
| `manager`, `stage`, `verdict`, `outcome`, `term` | windowd: the process, the place in `Run`, its result, what the client was told, the SIGTERM of `stopProcesses` |
| `adapter` with `backlog`, `job`, `peer` | applyd: the place in `applyProfile`, the connection not yet accepted, the request under way, whether its client still waits |
| `parser` with `asked`, `complete`, `conn` | provisiond: the process, the last accepted profile, `complete`, the place in `applyAccepted` |
| `helpers` | hostapd, udhcpd and httpd together |
| `socket` | `wifi-apply.sock` |
| `supplicant`, `strays`, `config`, `stored` | the wpa_supplicant behind the control socket, those that lost it, its configuration, the profile of the persistence service |
| `associated` | what reached `wpa_state=COMPLETED`: a history variable |
| `Resume` | `applyd --resume`, before windowd starts for the first time |
| `Open` ... `Finish` | `handleConnection`, `Run`, `monitor`, `stopProcesses`, `cleanup` of windowd |
| `Request` ... `ParserExits` | `handleWiFi`, `applyAccepted`, `unixApplier.Apply`, the shutdown of the server |
| `AdapterListens` ... `AdapterExits` | `run`, `handleConnection`, `prepareSupplicant`, `applyProfile`, `stopSupplicant`, `saveAssociatedProfile` |

Timers are not counted; their constants force an order, and the guards keep it.
Association ends within 20 s and its clean-up within 3 s more, the parser
waits 25 s, and the save takes up to 7 s: so `GivesUp` finds the adapter at `save` or
at its answer. The five seconds of grace outlast a parser that is closing
(`GraceEnds`). The window's own lifetime (`Deadline`) may end at any stage that waits
on its context; the lifetimes of parser and adapter are longer and left out.
A command that succeeds after SIGTERM is ordered before `Stop`: with `term` set the
adapter's commands fail. Left out: children in uninterruptible sleep, the
marker file and the light of the MCU, SIGTERM to windowd while a window starts.

### CommandServer and DspService

`CommandServer` is the promise of dsp-interface to the rest of the speaker: a
queue of accepted commands, executed in order, answered OK only after they were
executed. A command whose caller was answered with an error disappears from
the queue, unless it is the one being sent. `DspService` is the process itself.

| Model | Code |
|---|---|
| `phase` | the place in `main`: DSP reset and image, the wait for the boot event, the settling time, the opening of the microphone socket, the restored mute, ready, shutdown |
| `marker`, `stateFile` | the boot-state file, the `microphone-state` file |
| `ring`, `pump`, `wire`, `failures`, `strays` | the transmit ring and `Poll`, `transmitOnce`, `receive` of `link.go` |
| `output`, `stash` | frames the DSP has, frames received out of turn (`pending`) |
| `session`, `announced`, `calls` | the WAMP session of `wamp.go` |
| `micLock`, `backlog` | `micControlMu` and the connections at the microphone socket |
| `task`, `request`, `completion`, `result` | per dispatching goroutine: `dispatch`, `dispatchLink` and what it returns |

Each goroutine moves on its own: `Main`, `Pump`, `Serve`, `HandleMicControl` and
one `Dispatching` per caller. `Promise` is the refinement mapping: the queue of
`CommandServer` (`Pending`) is the command being sent followed by those on the
ring that somebody still waits for (`Awaited`, read off the ring at the increasing
enumeration `Places` of the live entries), the stage of a caller (`Stage`) follows
from its completion and from whether its command is still in that line, and
`KeepsPromise == Promise!Spec` is checked as a property and proved. Left out: the bytes of frames, the image stream, and the events the
session publishes.

### Volume

`dspVolumeController` of `volume.go`, the relay of the dial in `event_relay.go`,
and dsp-interface as `CommandServer` with the real gain table of
`dspByteForPercent`.

| Model | Code |
|---|---|
| `volume`, `silent`, `ducks`, `saved` | `volume`, `muted`, the ducks, the volume file |
| `held`, `delta` | a step in the hands of `queueVolumeDelta`, and its one-slot channel |
| `owed`, `peak` | history: the steps turned since the relay was empty and not yet taken, and the most they ever were |
| `notify`, `worker`, `level`, `retry`, `drawn` | the one-slot wake-up, the push worker, the level it pushes, its retry timer, the level of the ring |
| `inbox`, `serving`, `reply` | the caller program's invocation, at the router, being served, answered |
| `SetVolume`, `SetMuted`, `SetDuck`, `Turn`, `MergeStep`, `AdjustVolume` | the procedures of `wamp.go` and the dial; `volumeAdjust` and the toggle are such calls |
| `Wake` ... `PushExpires` | `run`, the push and its three seconds |
| `DspCrashes`, `DspResets`, `DspBoots`, `McuRestarts` | the restarts |

`lost` records that the DSP was reset after the last push began: its next session
event makes mcu-interface reconcile the microphone and nothing else, so the
level stays at the DSP's own until somebody changes it. `RestsAtLevel` and
`LevelArrives` make an exception for it, and `KeepsLevel`, the comment of `Run`, is
violated by it. The input worker may be busy with a button for long while the dial
turns; `queueVolumeDelta` cuts the merged steps to `DeltaLimit` in either direction (100
in the code) and drops the rest, so `LosesOnlyExcess` allows a loss, but only
of what was owed beyond the limit. Left out: errors of the softvol fade,
which are only logged, and changes of the external trim; music is taken to be
playing when it is ducked.

### Outputs

The mute bits of amplifier and DAC, the rails and the reset line of the DSP, in
one register of the expander. `LockAndRead`, `Write` and `WriteFails` are
`UpdateRegister` of `i2c_linux.go`, which mcu-interface and dsp-interface both run under the
lock file; `job` is what a process still has to write, `aim` what the
controller's mutex was taken for, `cached` its `ampMuted` and `dacMuted`,
`Goal` the other output it puts first. `Start`, `InitializeEnds`, `DacFails`, `OpenerSettles`,
`OpenOutputs`, `SetMute`, `Stop`, `MuteAll`, `Exit` and `Killed` are
`controller.go` and the life of `main.go`; `PulseReset` and `PulseEnds` the
reset of the DSP. `doubt` records a write that was reported as failed and took
effect. The direction register is left out.

### VoiceFeedback and Microphone

`Microphone` is `microphoneMuteController`: four goroutines take its mutex in
turn, and `op` names who holds it and the place in `setLocked` and
`restoreMuteLocked`. The socket of dsp-interface is `served`, `requests` and
`dispatched`; a request that was given up after five seconds (`Expires`) stays
in it. `VoiceFeedback` is `voiceFeedbackController`, instantiated with the
mute's state: `blocked`, `micFree` and `mutelight` are expressions of `Microphone`.

| Model | Code |
|---|---|
| `file`, `light`, `muted`, `unknown` | `microphone-state`, the mute light, `muted`, `unknown` (`desired` is their disjunction) |
| `Press`, `Reconcile` | the button and the procedure `com.harman.dsp.micMute`; `Reconcile` of the worker and of a session event |
| `ClearLight`, `RecordMute`, `Send`, `GotOk`, `GotError`, `Expires`, `Confirm`, `ConfirmFails` | the steps of `setLocked`; a failed unmute goes through them again as `restoreMuteLocked` |
| `reconcile`, `retrying` | the worker's wake-up and timer |
| `notice`, `Notified`, `Reset` | `onVoiceBlocked` |
| `Reported`, `Withdrawn`, `Permitted`, `Applied`, `Cue` | `Update` in the order of its calls |
| `Ended`, `Retried` | `tick` |

Left out: the sounds of cues, and other animations that replace the mute light.
The end of a WAMP session, which resets the voice, is the step of `Ended` or a
report of no state.

### MicCapture

`capture` is the place in `main` and `runCapture`, `bound` the run of
dsp-interface it captures for, `generation` and `sequence` what records carry,
`recorder` and `periods` the helper and its channel, `gate` the polled mute,
`enabled`, `hubGeneration`, `hub` and `awaited` the hub, and `client` one goroutine
per connection with its queue and the record in its hand. `Broadcast` removes
and stops a client whose queue is full; `Block` disconnects all; `got` is the last
record a client was written. `ServerFails` is an `accept` that fails, which nobody
reads after the start. A period that was taken before a mute is delivered after it, up to
a queue of four per client. Left out: failing reads of the state file, the stereo
split, the buffer of ALSA, timestamps.

### MCSpeaker

Extends `DspService` and `MicCapture` and instantiates `Outputs`, `Volume` and
`Microphone`, the five machines of the audio services in one run: a behaviour is one of
`part` (`dsp`, `volume`, `outputs`, `microphone`, `capture`) and the others rest in
their initial states. `MaxCalls` is the bound of `DspService`, `MaxOutputCalls` that of
`Outputs`. Liveness of a part assumes that part and its own fairness, restated
here with the part in each action so that TLC need not evaluate it in the others.
`Volume` and `Microphone` share the variables of `CommandServer`, of which one
is used at a time; that dsp-interface serves both callers in accepted order is
part of the promise.

### SourceSession

`registered`, `active` and `volumes` are `registry.go`; `inbox`, `serving`,
`pending`, `next` and `waiter` the session of `session.go` and `wamp.go`: one goroutine
reads a frame, delivers a reply or answers an invocation, and while it answers
it reads nothing. `Start`, `Forward` make a call of the service's own,
`CallExpires` is its five seconds. `SessionLost` and `Joins` are the reconnection,
whose five seconds outlast a call. While the procedures are being registered, the
router may already call the first of them: `register` reads such a call and drops it
(`Drops`); what is behind the last reply is read once the session has joined
(`Registered`). Left out: read-only procedures, track
positions.

## 4. Runs

| Run | Instance | What it shows |
|---|---|---|
| `nand_pilot` | 4 blocks, all changed, 2 pages, header last, restore and resume permitted, 3 sessions, 1 lost block | all safety and action properties of the writer |
| `persist` | 2 profiles, 2 settings, 2 faults, 1 failed directory fsync, 1 corruption | safety of the store and liveness of the settings |
| `persist_directory_sync` | 2 profiles, 1 setting | violated: a save repeated after a failed directory fsync is answered OK without one |
| `persist_supervised` | 1 profile, 1 setting | violated: after a SIGKILL `serve` never comes back before the next boot |
| `networkd_safe` | 2 clients, 2 networks, 2 leases (symmetric), 2 faults, 4 failed queries in a row, 2 association changes | the safety properties of the supervisor and its handlers |
| `networkd_live` | 2 clients, 1 network, 1 lease, 1 fault, 2 failed queries | the lease comes back and goes away |
| `networkd_stale_event` | 2 clients, 1 network, 1 lease, 1 fault, 3 association changes | violated: the marker of an earlier client's event makes the supervisor stop the new one |
| `wifi_window` | 2 profiles, one of them the seed, 2 windows, 2 faults | safety of the window's report, the station, the saved profile and the children; every window ends |
| `wifi_stray` | 1 profile, 2 windows, no fault | violated: a supplicant whose ping was cancelled runs on beside the next window's |
| `speaker` | see below | the audio services: the promise of dsp-interface and its refinement; level, dial, outputs, mute, voice feedback and capture, safety and liveness |
| `source_reply` | 2 sources, 2 invocations, no lost session | violated: a call made while answering an invocation expires although its reply has been received |
| `volume_kept` | no change, one restart of dsp-interface | violated: the DSP stays at its own gain after the restart |

**Bounds.** Three sessions are what it takes to damage a block in one, a second
in another kind of session and to repair both; two pages make a first
and a last page; four blocks with one resume candidate give a header, a candidate
and two blocks whose order matters. A forward-only profile and blocks the plan leaves
alone are not run: the theorems about `NandWrite` hold for them too. Two faults in `Persist` give a failure inside
a write followed by a kill or power cut; two in `Networkd` give a failed command
and a failed rollback, or a kill of the supervisor and of its client. Four failed
queries in a row are one more than `maxCommandFailures`. Two clients are enough
for a live one and a left-behind one: the code identifies clients by random
tokens, and an identity is reused only once nothing refers to it. Two windows let what the
first left (socket, supplicant, configuration, a late adapter) meet the second;
two profiles tell the submitted one from the saved one and from an earlier request
of the same window; two faults give a lost answer followed by a crash or kill.
All counters that bound a run are named `Max...`.
`speaker` takes 2 invocations or mute requests, 2 faults and 2 unsolicited
frames for `DspService` (one frame more than `maxUnrelatedFrames` of the instance
allows, a timeout with a link error); 2 changes, 2 names of ducks, a fault and a restart of
dsp-interface for `Volume`, with `DeltaLimit` at 8, so that two turns of five steps
go beyond it; 2 calls, a failed update and 2 kills or shutdowns for
`Outputs` (a kill inside each process); one press, 2 faults, a voice report and a
failure of the light for `Microphone` (a request given up and a restart);
one client with a queue of one, 3 periods, a restart, a mute and a fault for
`MicCapture`, which was also explored alone with 2 clients and 4 periods. Two
invocations are what a source needs to be started over another.

**Deadlock.** The runs set `CHECK_DEADLOCK FALSE`: an operator may stop starting
sessions, a volatile or stopped service waits for a power cut, and the fault
budgets run out; the audio services rest when nobody asks for anything.

**Fairness.** `NandWrite` has none; no liveness is claimed of an operator.
`Persist` has weak fairness on `Prepare`, `Serve`, the file operations and the
ticker: the mutex is held for one request and Go's scheduler is fair to the
ticker goroutine. `Networkd` has weak fairness on the restart by PID 1, on
timers and on udhcpc's own progress; strong fairness on the supervisor and
the handlers, because they wait for `lease.lock`, for which the kernel serves
waiters in turn, and because Go's `select` chooses at random among ready
channels; and strong fairness on a running udhcpc getting its lease while
associated, because it renews again and again. `WifiWindow` has weak fairness on
windowd's steps, on its lifetime, on the parser and on the adapter:
PID 1 restarts windowd, the kernel runs each process, every wait of theirs has a
timer, and one that ignores SIGTERM is killed. `DspService`, `Volume`, `Outputs`,
`Microphone` and `MicCapture` have weak fairness on what a goroutine can go on with, on
timers and on the restart by PID 1; strong fairness where a goroutine waits for a mutex or a
channel that others use too (the reconciling worker, the two tickers of
`runCapture`; Go's mutexes do not starve and `select` is random). Nothing is assumed of users,
who need not submit anything, nor of failures.

### Findings

The six violated runs are disagreements between the code and a statement of its
documentation or comments; `PROJECT.json` quotes them under `findings`. In short: a save
repeated after a failed directory fsync finds the file as it would write it and is
answered as saved, although no directory fsync has followed the rename; the socket a killed `serve` leaves keeps its successors from starting; a late
event handler can disturb a live client by way of the failure marker, past the
owner check; a supplicant whose `ping` was interrupted is not replaced but joined by a second;
source-manager waits for replies in the goroutine that would have to read them; and after a
restart of dsp-interface nothing pushes the level that `Run` says it keeps.

## 5. Proofs

Eight modules hold the proofs, for all values of the constants that satisfy the
assumption of the module proved about: `WriterAssumption`, `PersistAssumption`,
`NetworkdAssumption`, `WindowAssumption`, `VolumeAssumption`, `CaptureAssumption`,
`DspAssumption` (none for `Outputs` and `Microphone`; `SpeakerAssumption` is the
conjunction of the last three). They say that special values are not members of
the sets, that bounds are naturals, that a profile that supports resume changes
every block and writes the header last. `PROJECT.json` lists the theorems. Each
follows the same argument: `TypeOK` is inductive; with it an invariant that
explains why the property holds is inductive (one lemma per action, or per group
of actions that leave the same part alone); it implies the property, and an
action property follows from it and one step. Every invariant was checked by TLC
before it was proved.

* `NandWrite!IInv`. That a verified session holds its target does not follow
  from itself: the final pass must have read the blocks before `cursor`
  (`FinalSoFar`), the write loop must have handled what is not in `todo`
  (`HandledAtTarget`), and it must not erase a block that is not the next of the order
  (`BlockIsNext`). All are up to `unread`, the blocks the medium lost since.
  `SnapVerdict` carries the mode's verdict from preflight to the erase and
  gives `ErasesOnlyOriginal`. `HandledAtTarget` and `IsNext(Header)` give
  `HeaderWrittenLast`. `OneOpenBlock` gives `CancelFinishesBlock`.
* `NandWrite!DamageInv` looks at the extent across sessions. `Shape` is its shape in
  write order, however the sessions were interrupted: originals that a restore put
  back, then images, then originals that were never replaced, with at most
  one damaged block at each of the two borders (a forward-only profile has only
  the second border), from which `DamageBounded` follows by counting. `Kept` ties
  a session to it: what it has not begun is as preflight read it (`UntouchedKept`),
  what it verified holds the target, the one block begun and not verified is `block`
  (`OpenIsBlock`, hence `DamageIsJournalled`), what it has handled precedes what
  is left (`WritesInOrder`). `RestoreNotRefused` follows because a restore accepts every value
  these sessions can leave and because a finite, non-empty `todo` has a first block
  in the write order.
* `Persist!IInv`. `StoreFollowed` says what each stage of `atomicPrivate` leaves on
  disk and in `survivors`; `CurrentFollowed` ties `service.current` to the file while
  no directory fsync failed, which is why `AckedSurvives` and `SettingsRetained`
  carry that condition, and why the first finding exists; `SnapshotFollowed` keeps the
  snapshot of an operation what it was when its checks ran.
* `Networkd!IInv`. `LockHeld` makes the handlers' work mutually exclusive,
  `RecordFollowed` says that the lease file names the lease before its address is
  added and until both address and route are gone, `OwnerFollowed` that nobody owns
  events while a lease is cleared, `CleanKept` that no handler is past the owner check
  then, and `ClientFollowed` that a client a dead supervisor left is on record or
  about to die.
* `WifiWindow!IInv`. `AppliedIsStation` speaks of the end of a window; the proof
  carries it back along the chain the code relies on. `Between` says what holds
  while no window is open, `Stages` and `Children` which child may be alive at
  which stage, `Asked` and `Requests` that the adapter's job and its backlog are of
  the last accepted request while the parser waits, `Steps` what each step of the
  adapter has done to the station, `Acknowledged` that an accepted answer is of a
  station that is up, `Completes` that only such an answer completes the parser, and
  `Verdicts` that only a completed parser makes an applied window.
* `Outputs!IInv`. `OwnBits` says that each process writes its own bits only and
  `ReadUnderLock` that what it is about to write back is what the register holds,
  which together give the reset line (`ResetKept`, and `RegisterAgrees`). `Knows` ties the
  controller's cache to the register while no failed write took effect, `Initialising`
  and `AtRest` what a start has already muted when the cache says so; `AmpOnlyOverDac`
  then follows from `Goal`, which puts the other output first.
* `Volume!VolumeInv`. A push that expired may still reach the DSP, so a resting
  worker proves nothing by itself. `ServesOne` describes the queue of the promise:
  at most one command that was given up, at its head, and behind it the one of
  the call being served. `WaitsForLast` says that the call the worker waits for
  is the last that entered the service and every earlier one is given up;
  `SettledByOk` that an OK the worker has not seen yet finds nothing left that
  could move the DSP; `PushesLevel` that only a wake tells the level from the one
  being pushed. `QuietAtRest` is what the worker then rests on, and implies
  `RestsAtLevel`. `LosesOnlyExcess` is part of
  an invariant of the relay alone (`Relay`): what is owed is at most `peak`, so that what
  a merge cuts off is within the excess, and `peak` only grows until the relay is
  empty.
* `Microphone!MicInv`. `RestoreFirst` says what may be queued while dsp-interface
  restores the mute, `WaitsForLast` that of all requests at the socket only the last
  is still open and asks what the operation wants, `InOrder` the order of
  `setLocked` (a mute is recorded before it is sent, an unmute darkens the light
  first, what failed is left to the worker), `SettledMute` that from the OK to a mute
  until the next operation nothing is left that could unmute, through a restart of
  dsp-interface too, because `file` says muted. `LightTruth` is `SettledMute` at rest.
* `MicCapture!CaptureInv` (in `SpeakerProofs`). What a client was written, has in
  hand and has queued are consecutive records of one generation before some `end`
  (`Ends`, `Given`); for a member of the hub that `end` is the next record of the
  capture. `HubOfThisRun` says that the hub has members only while main captures
  for the generation they were promised. A client with a full queue is removed by the very broadcast
  it misses, which is why `end` stops for it. `StreamsWhole` is the arithmetic of `Ends`.
* `DspInv` (in `SpeakerProofs`) carries the refinement. `LinkClosed`: nothing is on
  the link before the microphone is restored. `TasksClosed`: who can wait in which phase.
  `OwnersWait`: a live entry, on the ring or on the wire, has an owner that waits for it
  and has no other. `OnlyMute` and `MuteExecuted`: while `main` restores, the link carries
  nothing but mutes, and an OK to the restore, or the wait for its reply, means
  that the DSP is muted, which gives `MutedBeforeService`.

**The refinement.** `PromiseStep` maps each step of `DspService` to one of `CommandServer` or
to a stutter; no history variable is added.

| Step of `DspService` | Step of `CommandServer` |
|---|---|
| `Start`; `BootContext` | `Reset`; `Boot` |
| `ReadMicrophoneState` if the file says muted, `Dispatch` | `Accept` |
| `TransmitOnce` | `Execute` |
| `SendFails` | `Lose` |
| a last `NotReady`, too many strays in `ReceiveReply`, `ReceiveGarbled` | `Doubt`, or none if the caller has left |
| `DispatchEnds` | `AnswerOk` or `AnswerError` |
| `DispatchExpires` | `AnswerError` (the command leaves the queue, or stays at its head while it is being sent); `Refuse` for one still at the gate |
| `Exit`, `Kill` | `Crash` |
| any other | none |

The hard part is the queue. A command given up stays on the ring as a dead entry that
`PollTakes` drops, so `Awaited` is the ring without its dead entries, which
an SMT prover cannot evaluate. It is stated instead by the increasing enumeration
of the live places. Such an enumeration is unique by the least-number principle (`LeastNumber`, from the
well-foundedness of `<` on naturals), so that a lemma per operation on the ring only has to
exhibit one for the ring after it: append, drop a dead or a live head, close
an entry (`AwaitedAppend`, `AwaitedDropsDead`, `AwaitedTakesLive`,
`AwaitedLeaves`). That one exists at all is part of the invariant, kept step by
step; no induction over the ring is needed.

**The composition.** `MCSpeaker` is one of five machines per behaviour. A lemma for each
(`VolumeBehaves`, `MicrophoneBehaves`, `OutputsBehave`, `DspBehaves`) shows that a
behaviour of `SpeakerSpec` is one of the machine's own specification, or that the machine is not the
one at work; the theorems about the machine then hold of the composition, in the
words the run checks (`Speaker...`). The instances of `MCSpeaker` and those of the proof modules are
different names for the same formulas; the `Same...` lemmas say so.

Type invariants are proved rather than run where a run does not check them
(`PersistTypes`, `NetworkdTypes`, `WindowTypes`, `OutputsTypes`, `VolumeTypes`,
`MicrophoneTypes`, `CaptureTypes`, `DspTypes`).

Only model-checked: liveness (`SettingReachesDisk`, `LeaseReturns`, `LeaseRemoved`,
`WindowCloses`, `InvocationsAnswered`, `LevelArrives`, `MuteArrives`, `FeedbackEnds`,
`CaptureFollows`), whose fairness speaks of ENABLED, which the provers do not
handle; and the six violated properties, which are counterexamples.
`VoiceFeedback` has no theorem of its own beyond its part of `MicrophoneTypes`.

## 6. Not modelled

Next candidates: the reconstruction of the NAND baseline (`NandWrite` over several
ranges, with a journal that is replayed), the counters of `statsTracker` (`engine.go`), the
voice endpoint's worker, and the layers of the light in mcu-interface (Bluetooth, provisioning,
pairing). Hazards known of modelled components that no property covers carry a
note in `PROJECT.json`. Never: host tooling (build, packaging, acquisition, emulation, control
scripts, document checks), parsers and patchers without shared state
(`nand-inspect` formats, `squashmin`, msgpack codecs), the read-only status
reporter, the small services (one request, one answer), the kernel, and the shell of the boot beyond its restart of services.
