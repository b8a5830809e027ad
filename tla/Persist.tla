------------------------------- MODULE Persist -------------------------------
(***************************************************************************)
(* reinvoke-persist (tools/nand-pilot/persistence): one checksummed state  *)
(* file on the app partition, replaced by write, fsync, rename and         *)
(* directory fsync; `prepare` restores it at boot and `serve` answers      *)
(* load, save and save-seed requests and captures the settings every 30    *)
(* seconds, all under one mutex.  The process may be killed between any    *)
(* two file operations, power may be cut, a call may fail and the medium   *)
(* may corrupt the file.                                                   *)
(*                                                                         *)
(* A snapshot holds a Wi-Fi profile and one value that stands for the      *)
(* required settings (microphone-state and music-volume).                  *)
(***************************************************************************)
EXTENDS Integers, FiniteSets

CONSTANTS
    Profiles,     \* Wi-Fi profiles a client may submit
    Settings,     \* values of the required settings
    MaxFaults,    \* bound: kills, power cuts and failed calls
    MaxSyncFail,  \* bound: directory fsyncs that fail, or never run, after a rename
    MaxCorrupt    \* bound: corruptions of the file by the medium

NoProfile == "no profile"
NoSetting == "no setting"

ASSUME PersistAssumption ==
    /\ NoProfile \notin Profiles
    /\ NoSetting \notin Settings
    /\ MaxFaults \in Nat
    /\ MaxSyncFail \in Nat
    /\ MaxCorrupt \in Nat

\* What state.json may be: absent, undecodable, or a valid snapshot.
File == [kind : {"absent", "corrupt", "state"},
         wifi : Profiles \cup {NoProfile},
         prefs : Settings \cup {NoSetting}]
AbsentFile == [kind |-> "absent", wifi |-> NoProfile, prefs |-> NoSetting]
CorruptFile == [kind |-> "corrupt", wifi |-> NoProfile, prefs |-> NoSetting]

VARIABLES
    disk,       \* state.json as a read sees it
    survivors,  \* what a power cut may leave of it
    temp,       \* a .state- file exists beside it
    runtime,    \* the settings files under /run/reinvoke
    service,    \* "off", "volatile", "down", "up" or "stopping"
    socket,     \* persistence.sock exists
    current,    \* service.current
    limited,    \* less than 30 seconds since lastWrite
    op,         \* the operation that holds the mutex while it writes
    promised,   \* the profile the service last answered OK for
    doubted,    \* profiles of saves begun since then
    faults, syncFails, corruptions

vars == <<disk, survivors, temp, runtime, service, socket, current, limited,
          op, promised, doubted, faults, syncFails, corruptions>>

store   == <<disk, survivors, temp>>
process == <<service, socket, current, limited, op>>
client  == <<promised, doubted>>
budget  == <<faults, syncFails, corruptions>>

Kinds == {"save", "seed", "flush", "final"}
NoOp == [kind |-> "none", stage |-> "idle", state |-> AbsentFile]

Snapshot(p) == [kind |-> "state", wifi |-> p, prefs |-> runtime]

-----------------------------------------------------------------------------
\* storage: the checks before a write

\* validateSnapshot: an empty snapshot is not stored.
Valid(s) == s.wifi # NoProfile \/ s.prefs # NoSetting

\* retainRequiredSettings: a setting the service knows of may not disappear.
Retains_Nothing(s) == TRUE
Retains(s) == current.prefs # NoSetting => s.prefs # NoSetting

\* storage.save refuses to replace a file it cannot decode.
MayReplace_Any == TRUE
MayReplace == disk.kind # "corrupt"

\* What a power cut finds after the rename of a fully written and synced file.
RenameLeaves_Unsynced(s) == {s, CorruptFile}
RenameLeaves(s) == {s}

\* The seed may be stored only while neither the service nor the store knows a
\* profile; a file that cannot be read is not an absent one.
SeedAllowed_Always == TRUE
SeedAllowed ==
    /\ disk.kind # "corrupt"
    /\ current.wifi = NoProfile
    /\ disk.wifi = NoProfile

\* What the directory fsync leaves for a power cut to find.
SyncedEntry_Lazy == survivors
SyncedEntry == {disk}

\* The settings files after storage.restore: a setting the snapshot lacks is left
\* as it is.
Restored_Profile == disk.wifi
Restored == IF disk.prefs # NoSetting THEN disk.prefs ELSE runtime

\* The file equals what would be written: storage.save returns at once.
Unchanged(s) == disk = s

-----------------------------------------------------------------------------

Init ==
    /\ disk = AbsentFile
    /\ survivors = {AbsentFile}
    /\ temp = FALSE
    /\ runtime = NoSetting
    /\ service = "off"
    /\ socket = FALSE
    /\ current = AbsentFile
    /\ limited = FALSE
    /\ op = NoOp
    /\ promised = NoProfile
    /\ doubted = {}
    /\ faults = 0 /\ syncFails = 0 /\ corruptions = 0

\* prepare: mount, remove interrupted writes, load, restore the settings.  When
\* it fails the boot goes on without the service.
Prepare ==
    /\ service = "off"
    /\ IF disk.kind = "corrupt"
       THEN service' = "volatile" /\ UNCHANGED runtime
       ELSE /\ service' = "down"
            /\ runtime' = Restored
    /\ temp' = FALSE
    /\ UNCHANGED <<disk, survivors, socket, current, limited, op, client,
                   budget>>

\* The supervised serve: it loads the file and refuses to start while the socket
\* of an earlier process exists.
Serve ==
    /\ service = "down"
    /\ disk.kind # "corrupt"
    /\ ~socket
    /\ service' = "up"
    /\ socket' = TRUE
    /\ current' = disk
    /\ limited' = FALSE
    /\ UNCHANGED <<store, runtime, op, client, budget>>

Idle == service = "up" /\ op = NoOp

\* The operation took the mutex and passed every check; either the file already
\* holds the snapshot or the temporary file is created.
Begin(kind, s) ==
    /\ Valid(s) /\ Retains(s) /\ MayReplace
    /\ ~Unchanged(s)
    /\ op' = [kind |-> kind, stage |-> "temp", state |-> s]
    /\ temp' = TRUE
    /\ UNCHANGED <<disk, survivors, runtime, socket, current, limited,
                   promised, budget>>

\* s.current = state, and the answer PERSIST_PROFILE_SAVED to a save.
Commit(kind, s) ==
    /\ current' = s
    /\ IF kind \in {"save", "seed"}
       THEN limited' = TRUE /\ promised' = s.wifi /\ doubted' = {}
       ELSE UNCHANGED <<limited, promised, doubted>>
    /\ op' = NoOp

CommitUnchanged(kind, s) ==
    /\ Valid(s) /\ Retains(s) /\ MayReplace
    /\ Unchanged(s)
    /\ Commit(kind, s)
    /\ UNCHANGED <<store, runtime, socket, budget>>

\* handle: save of the profile the service already holds.
SaveKnown(p) ==
    /\ Idle
    /\ current.wifi = p
    /\ disk.kind = "state" /\ disk.wifi = p
    /\ promised' = p /\ doubted' = {}
    /\ UNCHANGED <<store, runtime, process, budget>>

\* handle: save and save-seed of another profile, at most one each 30 seconds.
Save(kind, p) ==
    /\ Idle
    /\ kind = "seed" => SeedAllowed
    /\ current.wifi # p
    /\ ~limited
    /\ \/ Begin(kind, Snapshot(p)) /\ doubted' = doubted \cup {p}
       \/ CommitUnchanged(kind, Snapshot(p))
    /\ UNCHANGED service

\* flush, on the ticker.
Captured_Stale == current
Captured == Snapshot(current.wifi)
Flush ==
    /\ Idle
    /\ \/ Begin("flush", Captured) /\ UNCHANGED doubted
       \/ CommitUnchanged("flush", Captured)
    /\ UNCHANGED service

\* SIGTERM: the goroutine of the ticker closes the listener, which removes the
\* socket; a request under way is still answered, then the last flush runs.
Terminate ==
    /\ service = "up"
    /\ op.kind # "flush"
    /\ service' = "stopping"
    /\ socket' = FALSE
    /\ UNCHANGED <<store, runtime, current, limited, op, client, budget>>

FinalFlush ==
    /\ service = "stopping" /\ op = NoOp
    /\ \/ /\ Begin("final", Captured)
          /\ UNCHANGED <<service, doubted>>
       \/ /\ CommitUnchanged("final", Captured)
          /\ service' = "down"
       \/ /\ ~(Valid(Captured) /\ Retains(Captured) /\ MayReplace)
          /\ service' = "down"
          /\ UNCHANGED <<store, runtime, socket, current, limited, op, client,
                         budget>>

\* atomicPrivate, one file operation at a time.
SyncTemp ==
    /\ op.stage = "temp"
    /\ op' = [op EXCEPT !.stage = "synced"]
    /\ UNCHANGED <<store, runtime, service, socket, current, limited, client,
                   budget>>

Rename ==
    /\ op.stage = "synced"
    /\ disk' = op.state
    /\ survivors' = survivors \cup RenameLeaves(op.state)
    /\ temp' = FALSE
    /\ op' = [op EXCEPT !.stage = "renamed"]
    /\ UNCHANGED <<runtime, service, socket, current, limited, client, budget>>

SyncDirectory ==
    /\ op.stage = "renamed"
    /\ survivors' = SyncedEntry
    /\ Commit(op.kind, op.state)
    /\ service' = IF op.kind = "final" THEN "down" ELSE service
    /\ UNCHANGED <<disk, temp, runtime, socket, budget>>

\* The answer is an error; s.current keeps the old snapshot.
Abandon ==
    /\ op' = NoOp
    /\ service' = IF op.kind = "final" THEN "down" ELSE service

\* A write, the fsync or the rename fails: the temporary file is removed.
WriteFails ==
    /\ op.stage \in {"temp", "synced"}
    /\ faults < MaxFaults
    /\ faults' = faults + 1
    /\ temp' = FALSE
    /\ Abandon
    /\ UNCHANGED <<disk, survivors, runtime, socket, current, limited, client,
                   syncFails, corruptions>>

\* The directory fsync fails: an error is answered, but the rename happened.
SyncDirectoryFails ==
    /\ op.stage = "renamed"
    /\ syncFails < MaxSyncFail
    /\ syncFails' = syncFails + 1
    /\ Abandon
    /\ UNCHANGED <<store, runtime, socket, current, limited, client, faults,
                   corruptions>>

-----------------------------------------------------------------------------
\* Time, the other services, and faults

\* Thirty seconds pass since the last save.
RateWindowEnds ==
    /\ limited
    /\ limited' = FALSE
    /\ UNCHANGED <<store, runtime, service, socket, current, op, client, budget>>

\* The MCU service writes a setting; the files may also be gone.
SettingChanges ==
    /\ service \notin {"off"}
    /\ \E v \in Settings \cup {NoSetting} :
          /\ v # runtime
          /\ runtime' = v
    /\ UNCHANGED <<store, process, client, budget>>

\* SIGKILL, or a crash of the process: nothing is cleaned up.  Without a socket
\* it is started again, on a file whose directory entry may never be synced.
Killed ==
    /\ service \in {"up", "stopping"}
    /\ faults < MaxFaults
    /\ faults' = faults + 1
    /\ syncFails' = IF op.stage = "renamed" /\ ~socket THEN syncFails + 1
                    ELSE syncFails
    /\ syncFails' <= MaxSyncFail
    /\ service' = "down"
    /\ current' = AbsentFile
    /\ limited' = FALSE
    /\ op' = NoOp
    /\ UNCHANGED <<store, runtime, socket, client, corruptions>>

\* Power is cut: RAM is gone and the file is one that can have survived.
PowerCut ==
    /\ service # "off"
    /\ faults < MaxFaults
    /\ faults' = faults + 1
    /\ \E s \in survivors : disk' = s /\ survivors' = {s}
    /\ temp' \in IF temp THEN BOOLEAN ELSE {FALSE}
    /\ runtime' = NoSetting
    /\ service' = "off"
    /\ socket' = FALSE
    /\ current' = AbsentFile
    /\ limited' = FALSE
    /\ op' = NoOp
    /\ UNCHANGED <<client, syncFails, corruptions>>

\* The medium corrupts the stored file, while it lies there: not within the
\* milliseconds of a replacement.
Corrupt ==
    /\ corruptions < MaxCorrupt
    /\ corruptions' = corruptions + 1
    /\ disk.kind = "state"
    /\ op = NoOp
    /\ disk' = CorruptFile
    /\ survivors' = {CorruptFile}
    /\ UNCHANGED <<temp, runtime, process, client, faults, syncFails>>

WriteStep == SyncTemp \/ Rename \/ SyncDirectory

Requests ==
    \/ \E p \in Profiles : SaveKnown(p)
    \/ \E kind \in {"save", "seed"}, p \in Profiles : Save(kind, p)

Next ==
    \/ Prepare
    \/ Serve
    \/ Requests
    \/ Flush
    \/ Terminate
    \/ FinalFlush
    \/ WriteStep
    \/ WriteFails
    \/ SyncDirectoryFails
    \/ RateWindowEnds
    \/ SettingChanges
    \/ Killed
    \/ PowerCut
    \/ Corrupt

Spec == Init /\ [][Next]_vars

\* Boot runs prepare, the supervisor restarts serve, an operation that holds
\* the mutex runs on, and the ticker gets the mutex again and again (a Go mutex
\* does not starve a waiter).
Fairness ==
    /\ WF_vars(Prepare)
    /\ WF_vars(Serve)
    /\ WF_vars(WriteStep)
    /\ WF_vars(FinalFlush)
    /\ SF_vars(Flush)

FairSpec == Spec /\ Fairness

-----------------------------------------------------------------------------

\* Every variable has its type.
TypeOK ==
    /\ disk \in File
    /\ survivors \subseteq File
    /\ temp \in BOOLEAN
    /\ runtime \in Settings \cup {NoSetting}
    /\ service \in {"off", "volatile", "down", "up", "stopping"}
    /\ socket \in BOOLEAN
    /\ current \in File
    /\ limited \in BOOLEAN
    /\ op \in [kind : Kinds \cup {"none"},
               stage : {"idle", "temp", "synced", "renamed"}, state : File]
    /\ promised \in Profiles \cup {NoProfile}
    /\ doubted \subseteq Profiles
    /\ faults \in 0 .. MaxFaults
    /\ syncFails \in 0 .. MaxSyncFail
    /\ corruptions \in 0 .. MaxCorrupt

\* A profile the service answered OK for is what every power cut leaves, unless
\* a save begun later may have replaced it or the medium corrupted the file.
DurableCommit ==
    promised # NoProfile =>
        \A s \in survivors :
            \/ s.kind = "corrupt"
            \/ s.kind = "state" /\ s.wifi \in {promised} \cup doubted

\* The same, as far as the code keeps it: while no directory fsync has failed, or
\* was skipped by a kill that the service outlived.
AckedSurvives == syncFails = 0 => DurableCommit

\* No interruption of a replacement leaves an undecodable file: it is always a
\* complete old or new snapshot, or absent before the first one.
NeverTorn ==
    corruptions = 0 => \A s \in survivors \cup {disk} : s.kind # "corrupt"

\* A file the service cannot decode is never replaced by it.
CorruptKeptStep == disk.kind = "corrupt" => disk' = disk
CorruptKept == [][CorruptKeptStep]_vars

\* The build's seed profile never takes the place of a stored profile.
SeedStep ==
    (op.kind = "seed" /\ op'.kind = "seed" /\ disk' # disk) => disk.wifi = NoProfile
SeedNeverOverrides == [][SeedStep]_vars

\* No write of the service drops the settings from a file that has them, while
\* no directory fsync has failed: after one, service.current lags behind the file.
SettingsStep ==
    (syncFails = 0 /\ op # NoOp /\ op' # NoOp /\ disk.prefs # NoSetting)
        => disk'.prefs # NoSetting
SettingsRetained == [][SettingsStep]_vars

\* A changed setting reaches the file: while the service runs on and a setting
\* stays as it is, the file comes to hold it, or is found corrupt.
SettingReachesDisk ==
    \A v \in Settings :
        <>[](service = "up" /\ runtime = v)
            => <>(disk.kind = "corrupt" \/ disk.prefs = v)

\* The supervised service comes back after its process died.
ServeRecovers ==
    (service = "down") ~> (service # "down" \/ disk.kind = "corrupt")

-----------------------------------------------------------------------------
\* The inductive invariant behind the safety properties

Writing == op.stage \in {"temp", "synced"}
Running == service \in {"up", "stopping"}

\* An operation runs in a live service, on a file that could be decoded, and has
\* a valid snapshot to write; the socket tells whether the service listens.
OperationRuns ==
    /\ op.stage = "idle" <=> op.kind = "none"
    /\ op.kind = "none" => op = NoOp
    /\ op.kind # "none" => Running /\ op.state.kind = "state"
    /\ service = "up" => socket /\ op.kind # "final"
    /\ service = "stopping" => ~socket /\ op.kind # "flush"
    /\ Writing => disk.kind # "corrupt"
    /\ op.stage = "renamed" => disk = op.state

\* What a power cut may leave includes the file; a file that is corrupt is alone,
\* and only a decodable snapshot names a profile.
StoreFollowed ==
    /\ disk \in survivors
    /\ disk.kind = "corrupt" => survivors = {disk}
    /\ \A s \in survivors : s.kind # "state" => s.wifi = NoProfile

\* The service knows the file it would replace.
CurrentFollowed ==
    (syncFails = 0 /\ Running /\ op.stage # "renamed" /\ disk.kind # "corrupt")
        => current = disk

\* Every file a power cut may leave names the same profile, except between the
\* rename and the directory fsync of a save, and after a kill in between that
\* left the socket behind.
ProfileSettled ==
    (/\ syncFails = 0
     /\ ~ (op.kind \in {"save", "seed"} /\ op.stage = "renamed")
     /\ ~ (service = "down" /\ socket))
        => \A s \in survivors : s.wifi = disk.wifi

\* What the snapshot of an operation holds, seen from the file it replaces.
SnapshotFollowed ==
    /\ op.kind \in {"save", "seed"} => op.state.wifi \in doubted
    /\ (op.kind = "seed" /\ Writing) => disk.wifi = NoProfile
    /\ (syncFails = 0 /\ Writing /\ op.kind \in {"flush", "final"})
          => op.state.wifi = disk.wifi
    /\ (syncFails = 0 /\ Writing /\ disk.prefs # NoSetting)
          => op.state.prefs # NoSetting

IInv ==
    /\ OperationRuns
    /\ StoreFollowed
    /\ CurrentFollowed
    /\ ProfileSettled
    /\ SnapshotFollowed
    /\ NeverTorn
    /\ AckedSurvives
=============================================================================
