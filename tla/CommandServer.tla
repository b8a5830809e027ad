--------------------------- MODULE CommandServer ---------------------------
(***************************************************************************)
(* What dsp-interface promises the rest of the speaker, whatever happens   *)
(* on the wire: commands change the DSP in the order they were accepted,   *)
(* each at most once; OK is answered only for a command that was executed; *)
(* a command given up by its caller is never executed, except one that was *)
(* already being sent.  A restart of the service resets the DSP.           *)
(***************************************************************************)
EXTENDS Integers, Sequences

CONSTANTS
    Callers,      \* the goroutines that put commands on the link
    Commands,     \* records [op, value]
    PowerOn       \* the setting of each op after a reset of the DSP

VARIABLES
    up,           \* the service runs with a booted DSP
    cell,         \* the settings of the DSP: op -> value
    todo,         \* accepted and not executed: [owner, cmd, open]
    stage,        \* per caller: "idle", "accepted", "executed" or "failed"
    answer        \* per caller: the last answer, "none", "ok" or "error"

cvars == <<up, cell, todo, stage, answer>>

Init ==
    /\ up = FALSE
    /\ cell = PowerOn
    /\ todo = <<>>
    /\ stage = [c \in Callers |-> "idle"]
    /\ answer = [c \in Callers |-> "none"]

Reset ==
    /\ ~up
    /\ cell' = PowerOn
    /\ UNCHANGED <<up, todo, stage, answer>>

Boot ==
    /\ ~up
    /\ cell = PowerOn
    /\ up' = TRUE
    /\ UNCHANGED <<cell, todo, stage, answer>>

(* The caller hands a command over and waits for its outcome. *)
Accept(c, cmd) ==
    /\ up
    /\ stage[c] = "idle"
    /\ todo' = Append(todo, [owner |-> c, cmd |-> cmd, open |-> TRUE])
    /\ stage' = [stage EXCEPT ![c] = "accepted"]
    /\ answer' = [answer EXCEPT ![c] = "none"]
    /\ UNCHANGED <<up, cell>>

(* A command may be refused without being accepted. *)
Refuse(c) ==
    /\ up
    /\ stage[c] = "idle"
    /\ answer' = [answer EXCEPT ![c] = "error"]
    /\ UNCHANGED <<up, cell, todo, stage>>

Execute ==
    /\ up
    /\ todo # <<>>
    /\ LET head == Head(todo) IN
       /\ cell' = [cell EXCEPT ![head.cmd.op] = head.cmd.value]
       /\ stage' = [c \in Callers |->
                      IF head.open /\ c = head.owner THEN "executed" ELSE stage[c]]
    /\ todo' = Tail(todo)
    /\ UNCHANGED <<up, answer>>

AnswerOk(c) ==
    /\ stage[c] = "executed"
    /\ stage' = [stage EXCEPT ![c] = "idle"]
    /\ answer' = [answer EXCEPT ![c] = "ok"]
    /\ UNCHANGED <<up, cell, todo>>

(* The commands of a caller that are not given up, and the queue without    *)
(* its i-th command.                                                       *)
Waiting(c) == {i \in DOMAIN todo : todo[i].owner = c /\ todo[i].open}
Without(i) == [j \in 1 .. Len(todo) - 1 |-> todo[IF j < i THEN j ELSE j + 1]]

(* An error says nothing of the DSP, but the command will not be executed  *)
(* later unless it is the next one.                                        *)
AnswerError(c) ==
    /\ stage[c] # "idle"
    /\ \/ Waiting(c) = {} /\ UNCHANGED todo
       \/ \E i \in Waiting(c) : todo' = Without(i)
       \/ 1 \in Waiting(c) /\ todo' = [todo EXCEPT ![1].open = FALSE]
    /\ stage' = [stage EXCEPT ![c] = "idle"]
    /\ answer' = [answer EXCEPT ![c] = "error"]
    /\ UNCHANGED <<up, cell>>

(* The next command is lost on the way to the DSP. *)
Lose ==
    /\ todo # <<>>
    /\ stage' = [c \in Callers |->
                   IF Head(todo).open /\ c = Head(todo).owner THEN "failed" ELSE stage[c]]
    /\ todo' = Tail(todo)
    /\ UNCHANGED <<up, cell, answer>>

(* The command was executed, but nobody will know. *)
Doubt(c) ==
    /\ stage[c] = "executed"
    /\ stage' = [stage EXCEPT ![c] = "failed"]
    /\ UNCHANGED <<up, cell, todo, answer>>

(* The service is gone with everything it had accepted; the DSP keeps its  *)
(* settings until it is reset for the next service.                        *)
Crash ==
    /\ up
    /\ up' = FALSE
    /\ todo' = <<>>
    /\ stage' = [c \in Callers |-> "idle"]
    /\ UNCHANGED <<cell, answer>>

Next ==
    \/ Reset \/ Boot \/ Execute \/ Lose \/ Crash
    \/ \E c \in Callers : AnswerOk(c) \/ AnswerError(c) \/ Doubt(c) \/ Refuse(c)
    \/ \E c \in Callers, cmd \in Commands : Accept(c, cmd)

Spec == Init /\ [][Next]_cvars
=============================================================================
