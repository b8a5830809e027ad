------------------------------ MODULE Outputs ------------------------------
(***************************************************************************)
(* The amplifier and the DAC of the speaker.  Their mute bits and the      *)
(* reset line of the DSP share one register of the I2C expander, which two *)
(* processes change by reading and writing it under a file lock: the       *)
(* controller of tools/mcu-interface, with its opener goroutine, its WAMP  *)
(* procedures and its shutdown, and the link of tools/dsp-interface, which *)
(* pulses the reset.  Either may be killed between the read and the write. *)
(***************************************************************************)
EXTENDS Naturals, Sequences

CONSTANTS
    MaxCalls,        \* bound: explicit mute and unmute calls
    MaxBusFaults,    \* bound: updates of the register that fail
    MaxStops         \* bound: kills and shutdowns of either process

Outs == {"amp", "dac"}
Bits == Outs \cup {"rails", "reset"}
Processes == {"mcu", "dsp"}

VARIABLES
    reg,         \* the expander: TRUE is muted, powered, released
    flock,       \* who holds the lock file, or "none"
    copy,        \* per process: what it read and is about to write back
    job,         \* per process: the updates it still has to make
    aim,         \* what mcu-interface last took its mutex for
    service,     \* per process: "down", "init", "up", "stopping" or "muted"
    cached,      \* the controller's ampMuted and dacMuted
    opener,      \* the goroutine that opens the outputs
    written,     \* the reset bit as dsp-interface last wrote it
    doubt,       \* a failed write of mcu-interface did reach the register
    called, busFaults, stops

register == <<reg, flock, copy>>
controller == <<aim, cached, opener, doubt>>
spent == <<called, busFaults, stops>>
ovars == <<register, job, service, controller, written, spent>>

Unread == [b \in {} |-> FALSE]
Update(bit, value) == [bit |-> bit, value |-> value]
Muted(value) == [o \in Outs |-> value]

(* The amplifier is energised only over an open DAC, and silenced before   *)
(* the DAC is: the controller puts the other output first by itself.       *)
Goal_AsAsked(head) == head
Goal(head) ==
    IF head = Update("amp", FALSE) /\ cached.dac THEN Update("dac", FALSE)
    ELSE IF head = Update("dac", TRUE) /\ ~cached.amp THEN Update("amp", TRUE)
    ELSE head

Target(p) == IF p = "mcu" THEN Goal(Head(job[p])) ELSE Head(job[p])

(* The expander powers up with every output high, which opens the DAC. *)
Init ==
    /\ reg = [b \in Bits |-> b # "dac"]
    /\ flock = "none" /\ copy = [p \in Processes |-> Unread]
    /\ job = [p \in Processes |-> <<>>]
    /\ service = [p \in Processes |-> "down"]
    /\ aim = "none" /\ cached = Muted(TRUE) /\ opener = "none" /\ doubt = FALSE
    /\ written = TRUE
    /\ called = 0 /\ busFaults = 0 /\ stops = 0

-----------------------------------------------------------------------------
(* UpdateRegister *)

LockFree_Unlocked == TRUE
LockFree == flock = "none"

LockAndRead(p) ==
    /\ job[p] # <<>>
    /\ copy[p] = Unread
    /\ LockFree
    /\ flock' = p
    /\ copy' = [copy EXCEPT ![p] = reg]
    /\ UNCHANGED <<reg, job, service, controller, written, spent>>

Written(p) ==
    /\ reg' = [copy[p] EXCEPT ![Target(p).bit] = Target(p).value]
    /\ written' = IF p = "dsp" THEN Target(p).value ELSE written

Unlock(p) ==
    /\ flock' = IF flock = p THEN "none" ELSE flock
    /\ copy' = [copy EXCEPT ![p] = Unread]

Write(p) ==
    /\ copy[p] # Unread
    /\ Unlock(p)
    /\ Written(p)
    /\ job' = [job EXCEPT ![p] = IF Target(p) = Head(@) THEN Tail(@) ELSE @]
    /\ cached' = IF Target(p).bit \in Outs
                   THEN [cached EXCEPT ![Target(p).bit] = Target(p).value]
                   ELSE cached
    /\ UNCHANGED <<aim, service, opener, doubt, spent>>

(* Five attempts failed: the caller is told, and the register may hold the *)
(* new value all the same.  Only muteAll goes on with what is left.  A     *)
(* process that cannot initialise its hardware gives up.                   *)
WriteFails(p) ==
    /\ copy[p] # Unread
    /\ busFaults < MaxBusFaults
    /\ busFaults' = busFaults + 1
    /\ Unlock(p)
    /\ \/ UNCHANGED <<reg, doubt, written>>
       \/ Written(p) /\ doubt' = (doubt \/ p = "mcu")
    /\ job' = [job EXCEPT ![p] = IF p = "mcu" /\ aim = "muteAll" THEN Tail(@) ELSE <<>>]
    /\ service' = [service EXCEPT ![p] = IF @ = "init" THEN "down" ELSE @]
    /\ UNCHANGED <<aim, cached, opener, called, stops>>

-----------------------------------------------------------------------------
(* The controller of mcu-interface; its mutex is free while it has no job. *)

Begin(updates, purpose) ==
    /\ job["mcu"] = <<>>
    /\ job' = [job EXCEPT !["mcu"] = updates]
    /\ aim' = purpose

Silence == <<Update("amp", TRUE), Update("dac", TRUE)>>

Start ==
    /\ service["mcu"] = "down"
    /\ service' = [service EXCEPT !["mcu"] = "init"]
    /\ cached' = Muted(TRUE)
    /\ Begin(Append(Silence, Update("rails", TRUE)), "initialize")
    /\ UNCHANGED <<register, opener, doubt, written, spent>>

InitializeEnds ==
    /\ service["mcu"] = "init"
    /\ job["mcu"] = <<>>
    /\ service' = [service EXCEPT !["mcu"] = "up"]
    /\ opener' = "waiting"
    /\ doubt' = FALSE
    /\ UNCHANGED <<register, job, aim, cached, written, spent>>

(* A register of the DAC cannot be set: the outputs are muted once more.   *)
DacFails ==
    /\ service["mcu"] = "init"
    /\ busFaults < MaxBusFaults
    /\ busFaults' = busFaults + 1
    /\ Begin(Silence, "muteAll")
    /\ service' = [service EXCEPT !["mcu"] = "muted"]
    /\ UNCHANGED <<register, cached, opener, doubt, written, called, stops>>

(* The DSP took a level, or ninety seconds passed, or the service stops:   *)
(* the outputs are opened a second later in each case.                     *)
OpenerSettles ==
    /\ opener = "waiting"
    /\ opener' = "settling"
    /\ UNCHANGED <<register, job, service, aim, cached, doubt, written, spent>>

(* A failure to open is logged and not tried again. *)
OpenOutputs ==
    /\ opener = "settling"
    /\ Begin(<<Update("dac", FALSE), Update("amp", FALSE)>>, "open")
    /\ opener' = "done"
    /\ UNCHANGED <<register, service, cached, doubt, written, spent>>

(* muteampcontrol and mutedaccontrol *)
SetMute(out, value) ==
    /\ service["mcu"] = "up"
    /\ called < MaxCalls
    /\ called' = called + 1
    /\ Begin(<<Update(out, value)>>, "call")
    /\ UNCHANGED <<register, service, cached, opener, doubt, written, busFaults, stops>>

(* A signal: the workers end, the outputs are muted, the process exits.    *)
(* Nothing waits for the opener.                                           *)
Stop ==
    /\ service["mcu"] = "up"
    /\ stops < MaxStops
    /\ stops' = stops + 1
    /\ service' = [service EXCEPT !["mcu"] = "stopping"]
    /\ UNCHANGED <<register, job, controller, written, called, busFaults>>

MuteAll ==
    /\ service["mcu"] = "stopping"
    /\ Begin(Silence, "muteAll")
    /\ service' = [service EXCEPT !["mcu"] = "muted"]
    /\ UNCHANGED <<register, cached, opener, doubt, written, spent>>

Gone(p) ==
    /\ service' = [service EXCEPT ![p] = "down"]
    /\ job' = [job EXCEPT ![p] = <<>>]
    /\ Unlock(p)
    /\ opener' = IF p = "mcu" THEN "none" ELSE opener
    /\ UNCHANGED <<reg, aim, cached, doubt, written, called, busFaults>>

(* The exit follows muteAll, whatever the opener is at. *)
Exit ==
    /\ service["mcu"] = "muted"
    /\ aim # "muteAll" \/ job["mcu"] = <<>>
    /\ Gone("mcu")
    /\ UNCHANGED stops

Killed(p) ==
    /\ service[p] # "down"
    /\ stops < MaxStops
    /\ stops' = stops + 1
    /\ Gone(p)

-----------------------------------------------------------------------------
(* dsp-interface pulses the reset before each boot. *)

PulseReset ==
    /\ service["dsp"] = "down"
    /\ service' = [service EXCEPT !["dsp"] = "init"]
    /\ job' = [job EXCEPT !["dsp"] = [i \in 1..3 |-> Update("reset", i # 2)]]
    /\ UNCHANGED <<register, controller, written, spent>>

PulseEnds ==
    /\ service["dsp"] = "init"
    /\ job["dsp"] = <<>>
    /\ service' = [service EXCEPT !["dsp"] = "up"]
    /\ UNCHANGED <<register, job, controller, written, spent>>

-----------------------------------------------------------------------------
Works ==
    \/ \E p \in Processes : Write(p)
    \/ Start \/ InitializeEnds \/ OpenerSettles \/ OpenOutputs \/ MuteAll \/ Exit

Next ==
    \/ Works \/ DacFails \/ Stop \/ PulseReset \/ PulseEnds
    \/ \E p \in Processes : LockAndRead(p) \/ WriteFails(p) \/ Killed(p)
    \/ \E o \in Outs, m \in BOOLEAN : SetMute(o, m)

Spec == Init /\ [][Next]_ovars

(* The kernel grants the lock and the mutex to those that wait, and PID 1  *)
(* starts both services again.                                             *)
Fairness ==
    /\ WF_ovars(Works) /\ SF_ovars(OpenOutputs) /\ WF_ovars(PulseReset) /\ WF_ovars(PulseEnds)
    /\ \A p \in Processes : SF_ovars(LockAndRead(p))

FairSpec == Spec /\ Fairness

-----------------------------------------------------------------------------
TypeOK ==
    /\ reg \in [Bits -> BOOLEAN]
    /\ copy \in [Processes -> [Bits -> BOOLEAN] \cup {Unread}]
    /\ flock \in Processes \cup {"none"}
    /\ job \in [Processes -> Seq([bit : Bits, value : BOOLEAN])]
    /\ service \in [Processes -> {"down", "init", "up", "stopping", "muted"}]
    /\ cached \in [Outs -> BOOLEAN]
    /\ opener \in {"none", "waiting", "settling", "done"}
    /\ {written, doubt} \subseteq BOOLEAN

(* The amplifier is never energised while the DAC is muted, through calls, *)
(* openers, shutdowns, kills and failed updates in any order, unless a     *)
(* write that was reported as failed did reach the expander.               *)
AmpOnlyOverDac == ~doubt /\ ~reg.amp => ~reg.dac

(* Two processes update one register and neither undoes what the other     *)
(* wrote: the reset line is where dsp-interface put it, also while         *)
(* mcu-interface restarts in the middle of the pulse, and a running        *)
(* controller knows its own bits.                                          *)
RegisterAgrees ==
    /\ reg.reset = written
    /\ service["mcu"] = "up" /\ ~doubt => \A o \in Outs : reg[o] = cached[o]
=============================================================================
