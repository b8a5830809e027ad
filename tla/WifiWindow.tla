----------------------------- MODULE WifiWindow -----------------------------
(***************************************************************************)
(* The Wi-Fi setup window of tools/provisioning: windowd opens one window  *)
(* at a time and runs the adapter (applyd), the parser (provisiond) and    *)
(* the access point's daemons as its children; the parser answers a        *)
(* request at once and hands it to the adapter, which replaces the         *)
(* supplicant, waits for the association, saves the profile and only then  *)
(* answers.  Each waits on timers of its own, any of them may die, and     *)
(* windowd reports the window by which child it saw exit.                  *)
(*                                                                         *)
(* A profile stands for its SSID and key.  Timers are kept by the order    *)
(* their constants force: the parser's 25 s can only pass while the        *)
(* adapter saves or answers, for association ends within 20 s and its      *)
(* clean-up within 3 s more, and the save takes up to 7 s after that.      *)
(***************************************************************************)
EXTENDS Integers, FiniteSets

CONSTANTS
    Profiles,    \* Wi-Fi profiles a client may submit
    NoProfile,
    Seed,        \* the build's seed profile, or NoProfile
    MaxWindows,  \* bound: windows opened in a behaviour
    MaxFaults    \* bound: failed calls, crashes and kills

ASSUME WindowAssumption ==
    /\ NoProfile \notin Profiles
    /\ Seed \in Profiles \cup {NoProfile}
    /\ MaxWindows \in Nat
    /\ MaxFaults \in Nat

VARIABLES
    manager,    \* windowd: "boot", "up" or "down"
    stage,      \* where Run is; "idle" when the gate is free
    verdict,    \* the result Run is about to return
    outcome,    \* what was written to the client of the last window
    adapter,    \* applyd: "none" or what it does
    parser,     \* provisiond
    helpers,    \* hostapd, udhcpd and httpd run
    term,       \* SIGTERM was sent to the children
    socket,     \* wifi-apply.sock exists
    asked,      \* the last profile the parser accepted in this window
    complete,   \* provisioningHandler.complete
    conn,       \* the parser's apply: none, its delay, open, or the answer
    backlog,    \* a connection the adapter has not accepted yet
    job,        \* the profile the adapter works on
    peer,       \* the parser still waits for that job
    supplicant, \* the profile of the wpa_supplicant behind the control socket
    strays,     \* profiles of running ones that lost their control socket
    config,     \* wpa_supplicant.conf
    stored,     \* the profile the persistence service holds
    associated, \* profiles that reached wpa_state=COMPLETED
    windows, faults

run      == <<manager, stage, verdict, outcome, helpers, term, windows>>
handler  == <<asked, complete, conn>>
work     == <<backlog, job, peer>>
station  == <<supplicant, strays, config, stored, associated>>
children == <<adapter, parser, socket>>
vars == <<run, handler, work, station, children, faults>>

Fault == faults < MaxFaults /\ faults' = faults + 1

-----------------------------------------------------------------------------
\* The decisions of the code

\* handleWiFi accepts a request when none is under way and none succeeded.
Ready_WhileApplying == ~complete
Ready == ~complete /\ conn = "none"

\* The adapter saves only after the supplicant reported COMPLETED.
AfterStart_Eager == "save"
AfterStart == "associate"

\* recoverStaleControlSocket: the socket nobody listens on is removed.
Recovered_Kept == socket
Recovered == FALSE

\* The stages that wait on the context of the window's lifetime.
Bounded_NotMonitor == {"adapter", "parser", "grace"}
Bounded == {"adapter", "parser", "monitor", "grace"}

\* Pdeathsig: the children die with windowd.
Outlives_Orphans == TRUE
Outlives == FALSE

\* cleanup removes the window's directories and keeps the station's files.
ConfigAfter_Removed == NoProfile
ConfigAfter == config

Listening == {"idle", "prepare", "config", "start", "associate", "save",
              "answer", "refuse"}
Starting == {"prepare", "adapter", "parser"}

-----------------------------------------------------------------------------

\* The saved profile is that of an earlier association.
Init ==
    /\ manager = "boot" /\ stage = "idle"
    /\ verdict = "none" /\ outcome = "none"
    /\ adapter = "none" /\ parser = "none"
    /\ helpers = FALSE /\ term = FALSE /\ socket = FALSE
    /\ asked = NoProfile /\ complete = FALSE /\ conn = "none"
    /\ backlog = NoProfile /\ job = NoProfile /\ peer = FALSE
    /\ supplicant = NoProfile /\ strays = {} /\ config = NoProfile
    /\ stored \in Profiles \cup {NoProfile}
    /\ associated = {stored} \ {NoProfile}
    /\ windows = 0 /\ faults = 0

\* pilot_resume_then_exec: applyd --resume tries the saved profile, or the seed
\* when there is none, once before windowd starts, and may be killed at it.
Resume ==
    /\ manager = "boot"
    /\ manager' = "up"
    /\ LET chosen == IF stored # NoProfile THEN stored ELSE Seed
       IN  \/ /\ supplicant' = chosen /\ config' = chosen
              /\ associated' = associated \cup ({chosen} \ {NoProfile})
              /\ stored' \in {stored, chosen}
           \/ /\ supplicant' \in {NoProfile, chosen}
              /\ config' \in {NoProfile, chosen}
              /\ UNCHANGED <<associated, stored>>
    /\ UNCHANGED <<stage, verdict, outcome, helpers, term, windows, handler, work,
                   children, strays, faults>>

-----------------------------------------------------------------------------
\* windowd

\* handleConnection: the gate is taken and the client told so.
Open ==
    /\ manager = "up" /\ stage = "idle"
    /\ windows < MaxWindows
    /\ windows' = windows + 1
    /\ stage' = "prepare"
    /\ verdict' = "none" /\ outcome' = "none"
    /\ term' = FALSE
    /\ asked' = NoProfile /\ complete' = FALSE
    /\ UNCHANGED <<manager, helpers, conn, work, station, children, faults>>

\* Directories, credentials, interface; then, under the lifecycle lock, the stale
\* socket of an earlier adapter is removed and the adapter is started.
StartAdapter ==
    /\ stage = "prepare"
    /\ adapter = "none"
    /\ socket' = Recovered
    /\ adapter' = "starting"
    /\ parser' = "none"
    /\ stage' = "adapter"
    /\ UNCHANGED <<manager, verdict, outcome, helpers, term, windows, handler,
                   work, station, faults>>

\* waitApply found the adapter listening.
StartParser ==
    /\ stage = "adapter"
    /\ adapter = "idle"
    /\ parser' = "starting"
    /\ stage' = "parser"
    /\ UNCHANGED <<manager, verdict, outcome, helpers, term, windows, handler,
                   work, station, adapter, socket, faults>>

\* hostapd and the descriptor are ready; udhcpd and httpd are started.
StartHelpers ==
    /\ stage = "parser"
    /\ parser = "up"
    /\ helpers' = TRUE
    /\ stage' = "monitor"
    /\ UNCHANGED <<manager, verdict, outcome, term, windows, handler, work,
                   station, children, faults>>

Returns(v) ==
    /\ verdict' = v
    /\ stage' = "stop"
    /\ UNCHANGED <<manager, outcome, helpers, term, windows, handler, work,
                   station, children>>

\* A step of the start failed, a child exited before it was ready or readyTimeout
\* passed.
StartFails ==
    /\ stage \in Starting
    /\ \/ Fault
       \/ UNCHANGED faults
          /\ \/ stage = "prepare" /\ adapter # "none"
             \/ stage = "adapter" /\ adapter = "none"
             \/ stage = "parser" /\ parser \notin {"starting", "up"}
    /\ Returns("failed")

\* The window's lifetime is over: only monitor tells a timeout from a failure.
Deadline ==
    /\ stage \in Bounded
    /\ Returns(IF stage \in {"monitor", "grace"} THEN "timeout" ELSE "failed")
    /\ UNCHANGED faults

ParserVerdict == IF parser = "exited" THEN "applied" ELSE "failed"

ParserExited ==
    /\ stage \in {"monitor", "grace"}
    /\ parser \in {"exited", "died"}
    /\ Returns(ParserVerdict)
    /\ UNCHANGED faults

AdapterExited ==
    /\ stage = "monitor"
    /\ adapter = "none"
    /\ stage' = "grace"
    /\ UNCHANGED <<manager, verdict, outcome, helpers, term, windows, handler,
                   work, station, children, faults>>

\* Five seconds: the parser had time to read an answer and to shut down.
GraceEnds ==
    /\ stage = "grace"
    /\ parser # "closing" /\ conn # "accepted"
    /\ Returns("failed")
    /\ UNCHANGED faults

\* Another child exited, or forwarding could not be kept off.
HelperExited ==
    /\ stage = "monitor"
    /\ Fault
    /\ Returns("failed")

\* SIGTERM to windowd itself.
Shutdown ==
    /\ manager = "up" /\ stage \in {"idle", "monitor", "grace"}
    /\ Fault
    /\ IF stage = "idle"
       THEN /\ manager' = "down"
            /\ UNCHANGED <<stage, verdict, outcome, helpers, term, windows,
                           handler, work, station, children>>
       ELSE Returns("cancelled")

\* stopProcesses: SIGTERM to every child.  The adapter's listener closes at once,
\* the rest of it goes on; a child that has no handler yet dies.
Stop ==
    /\ stage = "stop"
    /\ stage' = "reap"
    /\ term' = TRUE
    /\ helpers' = FALSE
    /\ backlog' = NoProfile
    /\ adapter' = IF adapter = "starting" THEN "none" ELSE adapter
    /\ socket' \in IF adapter = "starting" THEN {socket, TRUE}
                   ELSE {socket /\ adapter \notin Listening}
    /\ parser' = CASE parser = "starting" -> "died"
                   [] parser = "up" -> "closing"
                   [] OTHER -> parser
    /\ UNCHANGED <<manager, verdict, outcome, windows, handler, job, peer,
                   station, faults>>

ParserGone == parser \notin {"starting", "up", "closing"}

\* Three seconds later: SIGKILL to the ones that are left.
KillChildren ==
    /\ stage = "reap"
    /\ adapter # "none" \/ ~ParserGone
    /\ adapter' = "none"
    /\ parser' = IF ParserGone THEN parser ELSE "died"
    /\ job' = NoProfile /\ peer' = FALSE
    /\ conn' = "none"
    /\ UNCHANGED <<run, asked, complete, backlog, station, socket, faults>>

\* The rest of cleanup, the outcome to the client, and the gate's release.
Finish ==
    /\ stage = "reap"
    /\ adapter = "none" /\ ParserGone
    /\ stage' = "idle"
    /\ \/ UNCHANGED <<verdict, faults>>
       \/ Fault /\ verdict' = IF verdict = "applied" THEN "failed" ELSE verdict
    /\ outcome' = IF verdict' = "cancelled" THEN "none" ELSE verdict'
    /\ manager' = IF verdict' = "cancelled" THEN "down" ELSE manager
    /\ config' = ConfigAfter
    /\ UNCHANGED <<helpers, term, windows, handler, work, supplicant, strays,
                   stored, associated, children>>

\* windowd is killed, and its children with it.
ManagerKilled ==
    /\ manager = "up"
    /\ Fault
    /\ manager' = "down"
    /\ stage' = "idle" /\ verdict' = "none"
    /\ IF Outlives
       THEN UNCHANGED <<helpers, adapter, parser, conn, work>>
       ELSE /\ helpers' = FALSE
            /\ adapter' = "none" /\ parser' = "none"
            /\ conn' = "none" /\ backlog' = NoProfile
            /\ job' = NoProfile /\ peer' = FALSE
    /\ UNCHANGED <<outcome, term, windows, asked, complete, station, socket>>

\* PID 1 starts it again; wifi-resume-once keeps the resume from a second run.
ManagerRestarts ==
    /\ manager = "down"
    /\ manager' = "up"
    /\ UNCHANGED <<stage, verdict, outcome, helpers, term, windows, handler, work,
                   station, children, faults>>

-----------------------------------------------------------------------------
\* provisiond

ParserListens ==
    /\ parser = "starting"
    /\ parser' = "up"
    /\ UNCHANGED <<run, handler, work, station, adapter, socket, faults>>

\* POST /v1/wifi: 202 is answered, and applyAccepted waits for applyDelay.
Request(p) ==
    /\ parser = "up" /\ helpers
    /\ Ready
    /\ asked' = p
    /\ conn' = "delay"
    /\ UNCHANGED <<run, complete, work, station, children, faults>>

\* unixApplier.Apply connects; without a listener it fails.
Submit ==
    /\ parser = "up"
    /\ conn = "delay"
    /\ IF adapter \in Listening
       THEN conn' = "open" /\ backlog' = asked
       ELSE conn' = "none" /\ UNCHANGED backlog
    /\ UNCHANGED <<run, asked, complete, job, peer, station, children, faults>>

\* The answer is read: success completes the handler and closes the window.
ReadAnswer ==
    /\ parser \in {"up", "closing"}
    /\ \/ /\ conn = "accepted"
          /\ conn' = "none"
          /\ complete' = TRUE
          /\ parser' = "closing"
       \/ /\ conn = "refused"
          /\ conn' = "none"
          /\ UNCHANGED <<complete, parser>>
    /\ UNCHANGED <<run, asked, work, station, adapter, socket, faults>>

\* applyTimeout passes, possibly with an answer just written, or the adapter is
\* gone: the apply has failed for the parser.
GivesUp ==
    /\ parser = "up"
    /\ \/ conn = "open" /\ peer /\ adapter \in {"save", "answer", "refuse"}
       \/ conn = "open" /\ ~peer /\ backlog = NoProfile
       \/ conn = "accepted"
    /\ conn' = "none"
    /\ peer' = FALSE
    /\ UNCHANGED <<run, asked, complete, backlog, job, station, children, faults>>

\* server.Shutdown returns, or fails over a connection that stays open.
ParserExits ==
    /\ parser = "closing"
    /\ \/ parser' = "exited" /\ UNCHANGED faults
       \/ parser' = "died" /\ Fault
    /\ conn' = "none" /\ peer' = FALSE
    /\ UNCHANGED <<run, asked, complete, backlog, job, station, adapter, socket>>

ParserCrashes ==
    /\ parser \in {"starting", "up", "closing"}
    /\ Fault
    /\ parser' = "died"
    /\ conn' = "none" /\ peer' = FALSE
    /\ UNCHANGED <<run, asked, complete, backlog, job, station, adapter, socket>>

-----------------------------------------------------------------------------
\* applyd: one connection at a time

AdapterAt(at) == adapter' = at /\ UNCHANGED parser

\* After SIGTERM the context of the apply is done: commands are killed or refused.
Fails == Fault \/ (term /\ UNCHANGED faults)

AdapterListens ==
    /\ adapter = "starting"
    /\ IF socket THEN AdapterAt("none") /\ UNCHANGED socket
       ELSE AdapterAt("idle") /\ socket' = TRUE
    /\ UNCHANGED <<run, handler, work, station, faults>>

Accept ==
    /\ adapter = "idle" /\ backlog # NoProfile
    /\ AdapterAt("prepare")
    /\ job' = backlog /\ backlog' = NoProfile
    /\ peer' = (conn = "open")
    /\ UNCHANGED <<run, handler, station, socket, faults>>

\* prepareSupplicant: the running supplicant is terminated.  One whose answer to
\* ping was not read is taken for dead: only its control socket is removed.
PrepareSupplicant ==
    /\ adapter = "prepare"
    /\ \/ /\ AdapterAt("config")
          /\ supplicant = NoProfile \/ ~term
          /\ supplicant' = NoProfile
          /\ UNCHANGED <<strays, faults>>
       \/ /\ AdapterAt("config")
          /\ supplicant # NoProfile /\ Fails
          /\ supplicant' = NoProfile
          /\ strays' = strays \cup {supplicant}
       \/ /\ AdapterAt("refuse")
          /\ supplicant' \in {supplicant, NoProfile} /\ Fails
          /\ UNCHANGED strays
    /\ UNCHANGED <<run, handler, work, config, stored, associated, socket>>

WriteConfig ==
    /\ adapter = "config"
    /\ \/ AdapterAt("start") /\ config' = job /\ UNCHANGED faults
       \/ AdapterAt("refuse") /\ Fault /\ UNCHANGED config
    /\ UNCHANGED <<run, handler, work, supplicant, strays, stored, associated,
                   socket>>

StartSupplicant ==
    /\ adapter = "start"
    /\ \/ /\ AdapterAt(AfterStart) /\ ~term
          /\ supplicant' = job
          /\ UNCHANGED <<config, faults>>
       \/ /\ AdapterAt("refuse")
          /\ supplicant' \in {supplicant, job}
          /\ config' = NoProfile
          /\ Fails
    /\ UNCHANGED <<run, handler, work, strays, stored, associated, socket>>

Completed ==
    /\ adapter = "associate" /\ ~term
    /\ AdapterAt("save")
    /\ associated' = associated \cup {job}
    /\ UNCHANGED <<run, handler, work, supplicant, strays, config, stored,
                   socket, faults>>

\* connectTimeout or SIGTERM: the supplicant is stopped, at best.
NotCompleted ==
    /\ adapter = "associate"
    /\ AdapterAt("refuse")
    /\ \/ supplicant' = NoProfile /\ UNCHANGED faults
       \/ UNCHANGED supplicant /\ Fails
    /\ config' = NoProfile
    /\ UNCHANGED <<run, handler, work, strays, stored, associated, socket>>

\* saveAssociatedProfile: its failure is only recorded.
SaveProfile ==
    /\ adapter = "save"
    /\ AdapterAt("answer")
    /\ stored' \in {stored, job}
    /\ UNCHANGED <<run, handler, work, supplicant, strays, config, associated,
                   socket, faults>>

\* The answer, if the parser still waits; after an accepted one the adapter exits.
Answer ==
    /\ adapter \in {"answer", "refuse"}
    /\ conn' = CASE ~peer -> conn
                 [] peer /\ adapter = "answer" -> "accepted"
                 [] OTHER -> "refused"
    /\ AdapterAt(IF peer /\ adapter = "answer" THEN "done" ELSE "idle")
    /\ job' = NoProfile /\ peer' = FALSE
    /\ UNCHANGED <<run, asked, complete, backlog, station, socket, faults>>

AdapterExits ==
    /\ adapter = "done" \/ (adapter = "idle" /\ term)
    /\ AdapterAt("none")
    /\ socket' = FALSE
    /\ backlog' = NoProfile
    /\ UNCHANGED <<run, handler, job, peer, station, faults>>

AdapterCrashes ==
    /\ adapter # "none"
    /\ Fault
    /\ AdapterAt("none")
    /\ backlog' = NoProfile /\ job' = NoProfile /\ peer' = FALSE
    /\ UNCHANGED <<run, handler, station, socket>>

-----------------------------------------------------------------------------

Manager ==
    \/ Resume \/ StartAdapter \/ StartParser \/ StartHelpers \/ StartFails
    \/ ParserExited \/ AdapterExited \/ GraceEnds \/ Stop \/ KillChildren \/ Finish
    \/ ManagerRestarts

Parser == ParserListens \/ Submit \/ ReadAnswer \/ GivesUp \/ ParserExits

Adapter ==
    \/ AdapterListens \/ Accept \/ PrepareSupplicant \/ WriteConfig
    \/ StartSupplicant \/ Completed \/ NotCompleted \/ SaveProfile \/ Answer
    \/ AdapterExits

Next ==
    \/ Open \/ Manager \/ Deadline \/ HelperExited \/ Shutdown \/ ManagerKilled
    \/ Parser \/ ParserCrashes
    \/ \E p \in Profiles : Request(p)
    \/ Adapter \/ AdapterCrashes

Spec == Init /\ [][Next]_vars

\* PID 1 and the kernel run every process on, and the timers expire.
Fairness ==
    /\ WF_vars(Manager)
    /\ WF_vars(Deadline)
    /\ WF_vars(Parser)
    /\ WF_vars(Adapter)

FairSpec == Spec /\ Fairness

-----------------------------------------------------------------------------

RunTypes ==
    /\ manager \in {"boot", "up", "down"}
    /\ stage \in {"idle", "prepare", "adapter", "parser", "monitor", "grace",
                  "stop", "reap"}
    /\ verdict \in {"none", "applied", "timeout", "failed", "cancelled"}
    /\ outcome \in {"none", "applied", "timeout", "failed"}
    /\ windows \in 0 .. MaxWindows /\ faults \in 0 .. MaxFaults

ChildTypes ==
    /\ adapter \in Listening \cup {"none", "starting", "done"}
    /\ parser \in {"none", "starting", "up", "closing", "exited", "died"}
    /\ conn \in {"none", "delay", "open", "accepted", "refused"}

FlagTypes == {helpers, term, socket, complete, peer} \subseteq BOOLEAN

StationTypes ==
    /\ {asked, backlog, job, supplicant, config, stored}
          \subseteq Profiles \cup {NoProfile}
    /\ strays \subseteq Profiles /\ associated \subseteq Profiles

\* Every variable has its type.
TypeOK == RunTypes /\ ChildTypes /\ FlagTypes /\ StationTypes

\* A window that is reported applied left the station with the profile the user
\* last submitted: associated, running, and configured.
AppliedIsStation ==
    outcome = "applied" /\ manager = "up" /\ stage = "idle" =>
        /\ asked \in associated
        /\ supplicant = asked
        /\ config = asked

\* Whatever is interrupted, the profile that the next boot resumes is one that
\* the station was associated with.
SavedWasAssociated == stored \in associated \cup {NoProfile}

\* When the gate is free no child of an earlier window is alive.
NoOrphans ==
    stage = "idle" => adapter = "none" /\ ParserGone /\ ~helpers

\* An adapter never refuses to start over the socket of a dead one.
SocketClear == adapter = "starting" => ~socket

\* Before a window received credentials nothing in it touches the station.
StationStep ==
    (supplicant' # supplicant \/ config' # config)
        => asked # NoProfile \/ manager = "boot"
StationKept == [][StationStep]_vars

\* Every window ends, and its gate is released.
WindowCloses == (stage # "idle") ~> (stage = "idle")

\* A later window replaces the supplicant of an earlier one: while one associates
\* no other runs.
OneSupplicant == adapter = "associate" => strays = {}
=============================================================================
