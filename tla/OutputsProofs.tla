--------------------------- MODULE OutputsProofs ---------------------------
(***************************************************************************)
(* The amplifier and the DAC for every number of calls, failed updates,    *)
(* kills and shutdowns: what Outputs checks on a small instance.           *)
(***************************************************************************)
EXTENDS Outputs, SequenceTheorems, TLAPS

ControllerUpdates == [bit : Outs \cup {"rails"}, value : BOOLEAN]
ResetUpdates == [bit : {"reset"}, value : BOOLEAN]

(* Each process updates its own bits only. *)
OwnBits ==
    /\ job["mcu"] \in Seq(ControllerUpdates)
    /\ job["dsp"] \in Seq(ResetUpdates)

(* What a process is about to write back is what the register holds.       *)
ReadUnderLock ==
    \A p \in Processes : copy[p] # Unread => flock = p /\ copy[p] = reg /\ job[p] # <<>>

(* While the controller initialises, what it has done is in the register.  *)
Initialising ==
    service["mcu"] = "init" =>
        /\ cached = Muted(TRUE) /\ aim = "initialize" /\ opener = "none"
        /\ \/ job["mcu"] = <<Update("amp", TRUE), Update("dac", TRUE), Update("rails", TRUE)>>
           \/ job["mcu"] = <<Update("dac", TRUE), Update("rails", TRUE)>> /\ reg.amp
           \/ job["mcu"] = <<Update("rails", TRUE)>> /\ reg.amp /\ reg.dac
           \/ job["mcu"] = <<>> /\ reg.amp /\ reg.dac

AtRest == service["mcu"] = "down" => job["mcu"] = <<>> /\ opener = "none"

(* From then on it knows the register, until a failed write took effect.   *)
Knows ==
    service["mcu"] \in {"up", "stopping", "muted"} /\ ~doubt =>
        \A o \in Outs : reg[o] = cached[o]

ResetKept == reg.reset = written

IInv ==
    /\ TypeOK /\ OwnBits /\ ReadUnderLock /\ Initialising /\ AtRest /\ Knows
    /\ ResetKept /\ AmpOnlyOverDac

-----------------------------------------------------------------------------
LEMMA InitInv == Init => IInv
<1> SUFFICES ASSUME Init PROVE IInv
  OBVIOUS
<1> USE DEF Init
<1>1. reg \in [Bits -> BOOLEAN] /\ reg.amp /\ ~reg.dac /\ reg.reset
  BY DEF Bits, Outs
<1>2. /\ copy \in [Processes -> [Bits -> BOOLEAN] \cup {Unread}]
      /\ \A p \in Processes : copy[p] = Unread
  OBVIOUS
<1>3. /\ job \in [Processes -> Seq([bit : Bits, value : BOOLEAN])]
      /\ \A p \in Processes : job[p] = <<>>
  OBVIOUS
<1>4. /\ service \in [Processes -> {"down", "init", "up", "stopping", "muted"}]
      /\ service["mcu"] = "down"
  BY DEF Processes
<1>5. cached \in [Outs -> BOOLEAN]
  BY DEF Muted
<1>6. TypeOK
  BY <1>1, <1>2, <1>3, <1>4, <1>5 DEF TypeOK
<1>7. OwnBits /\ ReadUnderLock
  BY <1>2, <1>3 DEF OwnBits, ReadUnderLock, Processes
<1> QED
  BY <1>1, <1>3, <1>4, <1>6, <1>7 DEF IInv, Initialising, AtRest, Knows, ResetKept,
     AmpOnlyOverDac, Processes

-----------------------------------------------------------------------------
(* The updates of the register *)

LEMMA LockAndReadInv ==
  ASSUME IInv, NEW p \in Processes, LockAndRead(p)
  PROVE  IInv'
  BY DEF LockAndRead, LockFree, controller, spent, IInv, TypeOK, OwnBits, ReadUnderLock,
         Initialising, AtRest, Knows, ResetKept, AmpOnlyOverDac, Processes

(* What a process that holds the lock is about to do. *)
LEMMA Targets ==
  ASSUME IInv, NEW p \in Processes, copy[p] # Unread
  PROVE  /\ copy[p] = reg /\ flock = p /\ job[p] # <<>>
         /\ \A q \in Processes \ {p} : copy[q] = Unread
         /\ Target(p) \in [bit : Bits, value : BOOLEAN]
         /\ p = "dsp" => Target(p).bit = "reset" /\ Target(p) = Head(job[p])
         /\ p = "mcu" => Target(p).bit # "reset"
         /\ p = "mcu" /\ Target(p) = Update("amp", FALSE) => ~cached.dac
         /\ p = "mcu" /\ Target(p) = Update("dac", TRUE) => cached.amp
         /\ job[p] \in Seq([bit : Bits, value : BOOLEAN])
<1>1. /\ copy[p] = reg /\ flock = p /\ job[p] # <<>>
      /\ \A q \in Processes \ {p} : copy[q] = Unread
  BY DEF IInv, ReadUnderLock
<1>2. CASE p = "dsp"
  <2>1. Head(job["dsp"]) \in ResetUpdates
    BY <1>1, <1>2 DEF IInv, OwnBits
  <2> QED
    BY <1>1, <1>2, <2>1 DEF Target, ResetUpdates, Bits, IInv, TypeOK
<1>3. CASE p = "mcu"
  <2>1. Head(job["mcu"]) \in ControllerUpdates
    BY <1>1, <1>3 DEF IInv, OwnBits
  <2>2. Update("dac", FALSE) \in ControllerUpdates /\ Update("amp", TRUE) \in ControllerUpdates
    BY DEF Update, ControllerUpdates, Outs
  <2>3. Target("mcu") = Goal(Head(job["mcu"])) /\ Target("mcu") \in ControllerUpdates
    BY <2>1, <2>2 DEF Target, Goal
  <2>4. cached \in [Outs -> BOOLEAN]
    BY DEF IInv, TypeOK
  <2>5. /\ Update("dac", FALSE) # Update("amp", FALSE) /\ Update("dac", FALSE) # Update("dac", TRUE)
        /\ Update("amp", TRUE) # Update("amp", FALSE) /\ Update("amp", TRUE) # Update("dac", TRUE)
    BY DEF Update
  <2>6. /\ Target("mcu") = Update("amp", FALSE) => ~cached.dac
        /\ Target("mcu") = Update("dac", TRUE) => cached.amp
    BY <2>3, <2>5 DEF Goal
  <2> QED
    BY <1>1, <1>3, <2>3, <2>6 DEF ControllerUpdates, Bits, Outs, IInv, TypeOK
<1> QED
  BY <1>2, <1>3 DEF Processes

LEMMA Tuples ==
  ASSUME NEW a, NEW b, NEW c
  PROVE  /\ Head(<<a, b, c>>) = a /\ Tail(<<a, b, c>>) = <<b, c>>
         /\ Head(<<b, c>>) = b /\ Tail(<<b, c>>) = <<c>>
         /\ Head(<<c>>) = c /\ Tail(<<c>>) = <<>>
  OBVIOUS

(* A process writes what it read with one bit changed, its own.            *)
LEMMA WritesOneBit ==
  ASSUME IInv, NEW p \in Processes, copy[p] # Unread, Unlock(p), Written(p)
  PROVE  /\ reg' \in [Bits -> BOOLEAN] /\ written' \in BOOLEAN
         /\ reg'[Target(p).bit] = Target(p).value
         /\ \A b \in Bits : b # Target(p).bit => reg'[b] = reg[b]
         /\ reg'["reset"] = written'
         /\ flock' = "none"
         /\ copy' \in [Processes -> [Bits -> BOOLEAN] \cup {Unread}]
         /\ \A q \in Processes : copy'[q] = Unread
<1>1. /\ copy[p] = reg /\ flock = p
      /\ \A q \in Processes \ {p} : copy[q] = Unread
      /\ Target(p) \in [bit : Bits, value : BOOLEAN]
      /\ p = "dsp" => Target(p).bit = "reset"
      /\ p = "mcu" => Target(p).bit # "reset"
  BY Targets
<1>2. /\ reg \in [Bits -> BOOLEAN] /\ written = reg["reset"] /\ "reset" \in Bits
      /\ copy \in [Processes -> [Bits -> BOOLEAN] \cup {Unread}]
  BY DEF IInv, TypeOK, ResetKept, Bits
<1>3. /\ Target(p).bit \in Bits /\ Target(p).value \in BOOLEAN
  BY <1>1
<1>4. reg' = [reg EXCEPT ![Target(p).bit] = Target(p).value]
  BY <1>1 DEF Written
<1>5. /\ reg' \in [Bits -> BOOLEAN]
      /\ reg'[Target(p).bit] = Target(p).value
      /\ \A b \in Bits : b # Target(p).bit => reg'[b] = reg[b]
  BY <1>2, <1>3, <1>4
<1>6. written' \in BOOLEAN /\ reg'["reset"] = written'
  <2>1. CASE p = "dsp"
    BY <1>1, <1>3, <1>5, <2>1 DEF Written
  <2>2. CASE p = "mcu"
    BY <1>1, <1>2, <1>5, <2>2 DEF Written
  <2> QED
    BY <2>1, <2>2 DEF Processes
<1>7. /\ flock' = "none"
      /\ copy' = [copy EXCEPT ![p] = Unread]
  BY <1>1 DEF Unlock
<1> QED
  BY <1>1, <1>2, <1>5, <1>6, <1>7

LEMMA WriteInv ==
  ASSUME IInv, NEW p \in Processes, Write(p)
  PROVE  IInv'
<1> DEFINE t == Target(p)
<1>1. /\ reg' \in [Bits -> BOOLEAN] /\ written' \in BOOLEAN
      /\ reg'[t.bit] = t.value
      /\ \A b \in Bits : b # t.bit => reg'[b] = reg[b]
      /\ reg'["reset"] = written'
      /\ flock' = "none"
      /\ copy' \in [Processes -> [Bits -> BOOLEAN] \cup {Unread}]
      /\ \A q \in Processes : copy'[q] = Unread
  BY WritesOneBit DEF Write
<1>2. /\ t \in [bit : Bits, value : BOOLEAN] /\ job[p] # <<>>
      /\ p = "dsp" => t.bit = "reset" /\ t = Head(job[p])
      /\ p = "mcu" => t.bit # "reset"
      /\ p = "mcu" /\ t = Update("amp", FALSE) => ~cached.dac
      /\ p = "mcu" /\ t = Update("dac", TRUE) => cached.amp
  BY Targets DEF Write
<1>3. /\ job' = [job EXCEPT ![p] = IF t = Head(job[p]) THEN Tail(job[p]) ELSE job[p]]
      /\ cached' = IF t.bit \in Outs THEN [cached EXCEPT ![t.bit] = t.value] ELSE cached
      /\ UNCHANGED <<aim, service, opener, doubt>>
  BY DEF Write
<1>4. /\ job \in [Processes -> Seq([bit : Bits, value : BOOLEAN])] /\ OwnBits
      /\ cached \in [Outs -> BOOLEAN] /\ doubt \in BOOLEAN
  BY DEF IInv, TypeOK
<1>5. cached' \in [Outs -> BOOLEAN] /\ \A o \in Outs : o # t.bit => cached'[o] = cached[o]
  BY <1>2, <1>3, <1>4
<1>6. /\ job' \in [Processes -> Seq([bit : Bits, value : BOOLEAN])] /\ OwnBits'
      /\ \A q \in Processes : q # p => job'[q] = job[q]
  <2>1. \A q \in Processes : q # p => job'[q] = job[q]
    BY <1>3, <1>4
  <2>2. job'[p] = IF t = Head(job[p]) THEN Tail(job[p]) ELSE job[p]
    BY <1>3, <1>4
  <2>3. \A S : job[p] \in Seq(S) => job'[p] \in Seq(S)
    BY <1>2, <2>2
  <2>4. job' \in [Processes -> Seq([bit : Bits, value : BOOLEAN])]
    BY <1>3, <1>4, <2>2, <2>3
  <2> QED
    BY <1>4, <2>1, <2>3, <2>4 DEF OwnBits, Processes
<1>7. TypeOK' /\ ReadUnderLock' /\ ResetKept'
  BY <1>1, <1>3, <1>4, <1>5, <1>6 DEF IInv, TypeOK, ReadUnderLock, ResetKept
<1>8. CASE p = "dsp"
  <2>1. job'["mcu"] = job["mcu"] /\ cached' = cached /\ \A o \in Outs : reg'[o] = reg[o]
    BY <1>1, <1>2, <1>3, <1>6, <1>8 DEF Outs, Bits, Processes
  <2> QED
    BY <1>3, <1>6, <1>7, <2>1 DEF IInv, Initialising, AtRest, Knows, AmpOnlyOverDac, Outs
<1>9. CASE p = "mcu"
  <2>1. AtRest'
    BY <1>2, <1>3, <1>9 DEF IInv, AtRest
  <2>2. Knows'
    <3> SUFFICES ASSUME service["mcu"] \in {"up", "stopping", "muted"}, ~doubt, NEW o \in Outs
                 PROVE  reg'[o] = cached'[o]
      BY <1>3 DEF Knows
    <3>1. reg[o] = cached[o] /\ o \in Bits
      BY DEF IInv, Knows, Bits
    <3> QED
      BY <1>1, <1>3, <1>4, <1>5, <3>1
  <2>3. Initialising' /\ (service["mcu"] = "init" => AmpOnlyOverDac')
    <3> SUFFICES ASSUME service["mcu"] = "init" PROVE Initialising' /\ AmpOnlyOverDac'
      BY <1>3 DEF Initialising
    <3>1. /\ cached = Muted(TRUE) /\ aim = "initialize" /\ opener = "none"
          /\ \/ job["mcu"] = <<Update("amp", TRUE), Update("dac", TRUE), Update("rails", TRUE)>>
             \/ job["mcu"] = <<Update("dac", TRUE), Update("rails", TRUE)>> /\ reg.amp
             \/ job["mcu"] = <<Update("rails", TRUE)>> /\ reg.amp /\ reg.dac
      BY <1>2, <1>9 DEF IInv, Initialising
    <3>2. cached.amp /\ cached.dac
      BY <3>1 DEF Muted, Outs
    <3>3. /\ Head(job["mcu"]) \in {Update("amp", TRUE), Update("dac", TRUE), Update("rails", TRUE)}
          /\ Update("amp", FALSE) \notin {Update("amp", TRUE), Update("dac", TRUE), Update("rails", TRUE)}
      BY <3>1 DEF Update
    <3>4. t = Head(job["mcu"]) /\ t.value = TRUE
      BY <1>9, <3>2, <3>3 DEF Target, Goal, Update
    <3>5. cached' = cached /\ job'["mcu"] = Tail(job["mcu"])
      BY <1>3, <1>4, <1>9, <3>1, <3>4 DEF Muted
    <3>6. CASE job["mcu"] = <<Update("amp", TRUE), Update("dac", TRUE), Update("rails", TRUE)>>
      <4>1. job'["mcu"] = <<Update("dac", TRUE), Update("rails", TRUE)>> /\ t = Update("amp", TRUE)
        <5> DEFINE a == Update("amp", TRUE) b == Update("dac", TRUE) c == Update("rails", TRUE)
        <5>1. job["mcu"] = <<a, b, c>>
          BY <3>6
        <5> HIDE DEF a, b, c
        <5>2. job'["mcu"] = <<b, c>> /\ t = a
          BY <3>4, <3>5, <5>1, Tuples
        <5> QED
          BY <5>2 DEF a, b, c
      <4>2. t.bit = "amp"
        BY <4>1 DEF Update
      <4>3. reg'.amp
        BY <1>1, <3>4, <4>2
      <4> QED
        BY <1>3, <3>1, <3>5, <4>1, <4>3 DEF Initialising, AmpOnlyOverDac
    <3>7. CASE job["mcu"] = <<Update("dac", TRUE), Update("rails", TRUE)>> /\ reg.amp
      <4>1. job'["mcu"] = <<Update("rails", TRUE)>> /\ t = Update("dac", TRUE)
        <5> DEFINE b == Update("dac", TRUE) c == Update("rails", TRUE)
        <5>1. job["mcu"] = <<b, c>>
          BY <3>7
        <5> HIDE DEF b, c
        <5>2. job'["mcu"] = <<c>> /\ t = b
          BY <3>4, <3>5, <5>1, Tuples
        <5> QED
          BY <5>2 DEF b, c
      <4>2. t.bit = "dac"
        BY <4>1 DEF Update
      <4>3. reg'.dac /\ reg'.amp
        BY <1>1, <3>4, <3>7, <4>2 DEF Bits, Outs
      <4> QED
        BY <1>3, <3>1, <3>5, <4>1, <4>3 DEF Initialising, AmpOnlyOverDac
    <3>8. CASE job["mcu"] = <<Update("rails", TRUE)>> /\ reg.amp /\ reg.dac
      <4>1. job'["mcu"] = <<>> /\ t = Update("rails", TRUE)
        BY <3>4, <3>5, <3>8, Tuples
      <4>2. t.bit = "rails"
        BY <4>1 DEF Update
      <4>3. reg'.dac /\ reg'.amp
        BY <1>1, <3>8, <4>2 DEF Bits, Outs
      <4> QED
        BY <1>3, <3>1, <3>5, <4>1, <4>3 DEF Initialising, AmpOnlyOverDac
    <3> QED
      BY <3>1, <3>6, <3>7, <3>8
  <2>4. service["mcu"] # "init" => AmpOnlyOverDac'
    <3> SUFFICES ASSUME service["mcu"] # "init", ~doubt, ~reg'.amp PROVE ~reg'.dac
      BY <1>3 DEF AmpOnlyOverDac
    <3>1. service["mcu"] \in {"up", "stopping", "muted"}
      BY <1>2, <1>9 DEF IInv, TypeOK, AtRest, Processes
    <3>2. \A o \in Outs : reg[o] = cached[o]
      BY <3>1 DEF IInv, Knows
    <3>3. ~reg.amp => ~reg.dac
      BY DEF IInv, AmpOnlyOverDac
    <3>4. CASE t.bit = "amp"
      <4>1. t = Update("amp", FALSE)
        BY <1>1, <1>2, <3>4 DEF Update
      <4> QED
        BY <1>1, <1>2, <1>9, <3>2, <3>4, <4>1 DEF Outs, Bits
    <3>5. CASE t.bit = "dac"
      <4>1. reg'.amp = reg.amp /\ ~reg.amp /\ ~cached.amp
        BY <1>1, <3>2, <3>5 DEF Outs, Bits
      <4>2. t # Update("dac", TRUE)
        BY <1>2, <1>9, <4>1
      <4>3. t.value = FALSE
        BY <1>2, <3>5, <4>2 DEF Update
      <4> QED
        BY <1>1, <3>5, <4>3
    <3>6. CASE t.bit \notin Outs
      BY <1>1, <3>3, <3>6 DEF Outs, Bits
    <3> QED
      BY <3>4, <3>5, <3>6 DEF Outs
  <2> QED
    BY <1>6, <1>7, <2>1, <2>2, <2>3, <2>4 DEF IInv
<1> QED
  BY <1>8, <1>9 DEF Processes

(* A failed update has taken effect or has not; the caller gives up, and   *)
(* muteAll alone goes on.                                                  *)
LEMMA WriteFailsInv ==
  ASSUME IInv, NEW p \in Processes, WriteFails(p)
  PROVE  IInv'
<1> DEFINE t == Target(p)
<1>1. /\ copy[p] = reg /\ flock = p /\ job[p] # <<>>
      /\ \A q \in Processes \ {p} : copy[q] = Unread
      /\ t \in [bit : Bits, value : BOOLEAN]
      /\ p = "dsp" => t.bit = "reset"
      /\ job[p] \in Seq([bit : Bits, value : BOOLEAN])
  BY Targets DEF WriteFails
<1>2. /\ job' = [job EXCEPT ![p] = IF p = "mcu" /\ aim = "muteAll" THEN Tail(job[p]) ELSE <<>>]
      /\ service' = [service EXCEPT ![p] = IF service[p] = "init" THEN "down" ELSE service[p]]
      /\ UNCHANGED <<aim, cached, opener>>
      /\ Unlock(p)
      /\ \/ UNCHANGED <<reg, doubt, written>>
         \/ Written(p) /\ doubt' = (doubt \/ p = "mcu")
  BY DEF WriteFails
<1>3. TypeOK /\ OwnBits /\ ResetKept /\ doubt \in BOOLEAN
  BY DEF IInv, TypeOK
<1>4. /\ flock' = "none" /\ \A q \in Processes : copy'[q] = Unread
      /\ copy' \in [Processes -> [Bits -> BOOLEAN] \cup {Unread}]
  BY <1>1, <1>2, <1>3 DEF Unlock, TypeOK
<1>5. /\ job' \in [Processes -> Seq([bit : Bits, value : BOOLEAN])] /\ OwnBits'
      /\ \A q \in Processes : q # p => job'[q] = job[q]
  <2>1. \A q \in Processes : q # p => job'[q] = job[q]
    BY <1>2, <1>3 DEF TypeOK
  <2>2. job'[p] \in {Tail(job[p]), <<>>}
    BY <1>2, <1>3 DEF TypeOK
  <2>3. \A S : job[p] \in Seq(S) => job'[p] \in Seq(S)
    <3> SUFFICES ASSUME NEW S, job[p] \in Seq(S) PROVE job'[p] \in Seq(S)
      OBVIOUS
    <3>1. Tail(job[p]) \in Seq(S) /\ <<>> \in Seq(S)
      BY <1>1
    <3> QED
      BY <2>2, <3>1
  <2>4. job' \in [Processes -> Seq([bit : Bits, value : BOOLEAN])]
    BY <1>1, <1>2, <1>3, <2>2, <2>3 DEF TypeOK
  <2> QED
    BY <1>3, <2>1, <2>3, <2>4 DEF OwnBits, Processes
<1>6. /\ service' \in [Processes -> {"down", "init", "up", "stopping", "muted"}]
      /\ \A q \in Processes : q # p => service'[q] = service[q]
      /\ service'[p] = IF service[p] = "init" THEN "down" ELSE service[p]
  BY <1>2, <1>3 DEF TypeOK
<1>7. /\ reg' \in [Bits -> BOOLEAN] /\ written' \in BOOLEAN /\ doubt' \in BOOLEAN
      /\ reg'["reset"] = written'
      /\ p = "dsp" => doubt' = doubt /\ \A o \in Outs : reg'[o] = reg[o]
      /\ p = "mcu" /\ ~doubt' => reg' = reg /\ ~doubt
  <2>1. CASE UNCHANGED <<reg, doubt, written>>
    BY <1>3, <2>1 DEF TypeOK, ResetKept
  <2>2. CASE Written(p) /\ doubt' = (doubt \/ p = "mcu")
    <3>1. /\ reg' \in [Bits -> BOOLEAN] /\ written' \in BOOLEAN
          /\ \A b \in Bits : b # t.bit => reg'[b] = reg[b]
          /\ reg'["reset"] = written'
      BY <1>2, <2>2, WritesOneBit DEF WriteFails
    <3>2. p = "dsp" => \A o \in Outs : reg'[o] = reg[o]
      BY <1>1, <3>1 DEF Outs, Bits
    <3> QED
      BY <1>3, <2>2, <3>1, <3>2
  <2> QED
    BY <1>2, <2>1, <2>2
<1>8. TypeOK' /\ ReadUnderLock' /\ ResetKept'
  BY <1>2, <1>3, <1>4, <1>5, <1>6, <1>7 DEF TypeOK, ReadUnderLock, ResetKept
<1>9. CASE p = "dsp"
  <2>1. job'["mcu"] = job["mcu"] /\ service'["mcu"] = service["mcu"]
    BY <1>5, <1>6, <1>9 DEF Processes
  <2>2. doubt' = doubt /\ reg'.amp = reg.amp /\ reg'.dac = reg.dac
    BY <1>7, <1>9 DEF Outs
  <2>3. Initialising' /\ AtRest'
    BY <1>2, <2>1, <2>2 DEF IInv, Initialising, AtRest
  <2>4. Knows' /\ AmpOnlyOverDac'
    BY <1>2, <1>7, <1>9, <2>1, <2>2 DEF IInv, Knows, AmpOnlyOverDac
  <2> QED
    BY <1>5, <1>8, <2>3, <2>4 DEF IInv
<1>10. CASE p = "mcu"
  <2>1. Initialising'
    BY <1>6, <1>10 DEF Initialising
  <2>2. AtRest'
    <3> SUFFICES ASSUME service'["mcu"] = "down" PROVE job'["mcu"] = <<>> /\ opener' = "none"
      BY DEF AtRest
    <3>1. service["mcu"] = "init"
      BY <1>1, <1>6, <1>10 DEF IInv, AtRest
    <3>2. aim = "initialize" /\ opener = "none"
      BY <3>1 DEF IInv, Initialising
    <3> QED
      BY <1>2, <1>3, <1>10, <3>2 DEF TypeOK
  <2>3. Knows'
    BY <1>2, <1>6, <1>7, <1>10 DEF IInv, Knows
  <2>4. AmpOnlyOverDac'
    BY <1>7, <1>10 DEF IInv, AmpOnlyOverDac
  <2> QED
    BY <1>5, <1>8, <2>1, <2>2, <2>3, <2>4 DEF IInv
<1> QED
  BY <1>9, <1>10 DEF Processes

-----------------------------------------------------------------------------
(* The controller *)

LEMMA Short ==
  ASSUME NEW S, NEW a \in S, NEW b \in S, NEW c \in S
  PROVE  /\ <<a>> \in Seq(S) /\ <<a>> # <<>>
         /\ <<a, b>> \in Seq(S) /\ <<a, b>> # <<>>
         /\ <<a, b, c>> \in Seq(S) /\ <<a, b, c>> # <<>>
         /\ Append(<<a, b>>, c) = <<a, b, c>>
<1>1. /\ <<a>> \in Seq(S) /\ <<a>> # <<>>
      /\ <<a, b>> \in Seq(S) /\ <<a, b>> # <<>>
      /\ <<a, b, c>> \in Seq(S) /\ <<a, b, c>> # <<>>
  OBVIOUS
<1>2. Append(<<a, b>>, c) = <<a, b, c>>
  <2> DEFINE left == Append(<<a, b>>, c) right == <<a, b, c>>
  <2>1. /\ left \in Seq(S) /\ Len(left) = 3
        /\ left[1] = a /\ left[2] = b /\ left[3] = c
    BY <1>1
  <2>2. /\ right \in Seq(S) /\ Len(right) = 3
        /\ right[1] = a /\ right[2] = b /\ right[3] = c
    BY <1>1
  <2>3. \A i \in 1..3 : left[i] = right[i]
    BY <2>1, <2>2
  <2> QED
    BY <2>1, <2>2, <2>3, SeqEqual
<1> QED
  BY <1>1, <1>2

InitPlan == Append(Silence, Update("rails", TRUE))
OpenPlan == <<Update("dac", FALSE), Update("amp", FALSE)>>
PulsePlan == [i \in 1..3 |-> Update("reset", i # 2)]

LEMMA Plans ==
  /\ Silence \in Seq(ControllerUpdates) /\ Silence # <<>>
  /\ InitPlan = <<Update("amp", TRUE), Update("dac", TRUE), Update("rails", TRUE)>>
  /\ InitPlan \in Seq(ControllerUpdates) /\ InitPlan # <<>>
  /\ OpenPlan \in Seq(ControllerUpdates) /\ OpenPlan # <<>>
  /\ \A o \in Outs, v \in BOOLEAN :
       <<Update(o, v)>> \in Seq(ControllerUpdates) /\ <<Update(o, v)>> # <<>>
  /\ PulsePlan \in Seq(ResetUpdates) /\ PulsePlan # <<>>
<1> DEFINE amp == Update("amp", TRUE) dac == Update("dac", TRUE) rails == Update("rails", TRUE)
           open == Update("dac", FALSE) loud == Update("amp", FALSE)
<1>1. \A b \in Outs \cup {"rails"}, v \in BOOLEAN : Update(b, v) \in ControllerUpdates
  BY DEF Update, ControllerUpdates
<1>2. /\ amp \in ControllerUpdates /\ dac \in ControllerUpdates /\ rails \in ControllerUpdates
      /\ open \in ControllerUpdates /\ loud \in ControllerUpdates
  BY <1>1 DEF Outs
<1>3. Silence = <<amp, dac>> /\ InitPlan = Append(<<amp, dac>>, rails) /\ OpenPlan = <<open, loud>>
  BY DEF Silence, InitPlan, OpenPlan
<1>4. /\ Silence \in Seq(ControllerUpdates) /\ Silence # <<>>
      /\ InitPlan = <<amp, dac, rails>>
      /\ InitPlan \in Seq(ControllerUpdates) /\ InitPlan # <<>>
      /\ OpenPlan \in Seq(ControllerUpdates) /\ OpenPlan # <<>>
  <2> HIDE DEF amp, dac, rails, open, loud
  <2> QED
    BY <1>2, <1>3, Short
<1>5. \A o \in Outs, v \in BOOLEAN :
        <<Update(o, v)>> \in Seq(ControllerUpdates) /\ <<Update(o, v)>> # <<>>
  BY <1>1
<1>6. PulsePlan \in Seq(ResetUpdates) /\ PulsePlan # <<>>
  <2>1. \A i \in 1..3 : Update("reset", i # 2) \in ResetUpdates
    <3> TAKE i \in 1..3
    <3>1. (i # 2) \in BOOLEAN
      OBVIOUS
    <3> QED
      BY <3>1 DEF Update, ResetUpdates
  <2>2. PulsePlan \in [1..3 -> ResetUpdates]
    BY <2>1 DEF PulsePlan
  <2>3. PulsePlan \in UNION {[1..n -> ResetUpdates] : n \in Nat}
    <3>1. [1..3 -> ResetUpdates] \in {[1..n -> ResetUpdates] : n \in Nat}
      OBVIOUS
    <3> QED
      BY <2>2, <3>1
  <2>4. PulsePlan \in Seq(ResetUpdates)
    BY <2>3, SeqDef
  <2>5. DOMAIN PulsePlan = 1..3
    BY <2>2
  <2>6. ASSUME PulsePlan = <<>> PROVE FALSE
    <3>1. DOMAIN PulsePlan = 1..0
      BY <2>6
    <3>2. 1 \in 1..3 /\ 1 \notin 1..0
      OBVIOUS
    <3> QED
      BY <2>5, <3>1, <3>2
  <2> QED
    BY <2>4, <2>6
<1> QED
  BY <1>4, <1>5, <1>6

(* Taking the mutex for updates of its own bits disturbs nothing but what  *)
(* depends on the place of the controller.                                 *)
LEMMA Begins ==
  ASSUME IInv, NEW plan, NEW purpose,
         plan \in Seq(ControllerUpdates), Begin(plan, purpose),
         UNCHANGED <<reg, flock, copy, written>>
  PROVE  /\ job["mcu"] = <<>> /\ job'["mcu"] = plan
         /\ job' \in [Processes -> Seq([bit : Bits, value : BOOLEAN])]
         /\ OwnBits' /\ ReadUnderLock' /\ ResetKept'
<1>1. /\ job \in [Processes -> Seq([bit : Bits, value : BOOLEAN])] /\ OwnBits
      /\ ReadUnderLock /\ ResetKept
      /\ job["mcu"] = <<>> /\ job' = [job EXCEPT !["mcu"] = plan]
  BY DEF IInv, TypeOK, Begin
<1>2. plan \in Seq([bit : Bits, value : BOOLEAN])
  <2>1. ControllerUpdates \subseteq [bit : Bits, value : BOOLEAN]
    BY DEF ControllerUpdates, Bits
  <2> QED
    BY <2>1, SeqMonotonic
<1>3. job'["mcu"] = plan /\ job'["dsp"] = job["dsp"]
  BY <1>1 DEF Processes
<1>4. ReadUnderLock'
  BY <1>1, <1>3 DEF ReadUnderLock, Processes
<1> QED
  BY <1>1, <1>2, <1>3, <1>4 DEF OwnBits, ResetKept

LEMMA StartInv == ASSUME IInv, Start PROVE IInv'
<1>1. /\ job'["mcu"] = InitPlan
      /\ job' \in [Processes -> Seq([bit : Bits, value : BOOLEAN])]
      /\ OwnBits' /\ ReadUnderLock' /\ ResetKept'
  BY Plans, Begins DEF Start, register, InitPlan
<1>2. service' \in [Processes -> {"down", "init", "up", "stopping", "muted"}]
      /\ service'["mcu"] = "init"
  BY DEF Start, IInv, TypeOK, Processes
<1>3. cached' \in [Outs -> BOOLEAN]
  BY DEF Start, Muted
<1>4. aim' = "initialize" /\ opener' = "none"
  BY DEF Start, Begin, IInv, AtRest
<1>5. TypeOK'
  BY <1>1, <1>2, <1>3, <1>4 DEF IInv, TypeOK, Start, register
<1>6. Initialising'
  BY <1>1, <1>4, Plans DEF Initialising, Start, Muted
<1> QED
  BY <1>1, <1>2, <1>5, <1>6 DEF IInv, AtRest, Knows, AmpOnlyOverDac, Start, register

LEMMA InitializeEndsInv == ASSUME IInv, InitializeEnds PROVE IInv'
<1>1. /\ reg.amp /\ reg.dac /\ cached = Muted(TRUE) /\ job["mcu"] = <<>>
      /\ UNCHANGED <<register, job, aim, cached, written>>
      /\ service' = [service EXCEPT !["mcu"] = "up"]
      /\ opener' = "waiting" /\ doubt' = FALSE
  BY Tuples DEF InitializeEnds, IInv, Initialising
<1>2. /\ service' \in [Processes -> {"down", "init", "up", "stopping", "muted"}]
      /\ service'["mcu"] = "up"
  BY <1>1 DEF IInv, TypeOK, Processes
<1>3. \A o \in Outs : reg[o] = cached[o]
  BY <1>1 DEF Muted, Outs, IInv, TypeOK, Bits
<1>4. TypeOK' /\ OwnBits' /\ ReadUnderLock' /\ ResetKept'
  BY <1>1, <1>2 DEF IInv, TypeOK, OwnBits, ReadUnderLock, ResetKept, register
<1> QED
  BY <1>1, <1>2, <1>3, <1>4 DEF IInv, Initialising, AtRest, Knows, AmpOnlyOverDac, register

(* Once the controller is initialised, a step of it that changes neither   *)
(* the register nor what it knows keeps both in agreement.                 *)
LEMMA Continues ==
  ASSUME IInv, TypeOK', OwnBits', ReadUnderLock', ResetKept',
         service["mcu"] \in {"up", "stopping", "muted"},
         service'["mcu"] \in {"up", "stopping", "muted"},
         UNCHANGED <<reg, cached, doubt>>
  PROVE  IInv'
  BY DEF IInv, Initialising, AtRest, Knows, AmpOnlyOverDac

LEMMA DacFailsInv == ASSUME IInv, DacFails PROVE IInv'
<1>1. /\ job["mcu"] = <<>> /\ job'["mcu"] = Silence
      /\ job' \in [Processes -> Seq([bit : Bits, value : BOOLEAN])]
      /\ OwnBits' /\ ReadUnderLock' /\ ResetKept'
  BY Plans, Begins DEF DacFails, register
<1>2. /\ service' \in [Processes -> {"down", "init", "up", "stopping", "muted"}]
      /\ service'["mcu"] = "muted"
  BY DEF DacFails, IInv, TypeOK, Processes
<1>3. reg.amp /\ reg.dac /\ cached = Muted(TRUE)
  BY <1>1 DEF DacFails, IInv, Initialising
<1>4. \A o \in Outs : reg[o] = cached[o]
  BY <1>3 DEF Muted, Outs, IInv, TypeOK, Bits
<1>5. TypeOK'
  BY <1>1, <1>2 DEF IInv, TypeOK, DacFails, register
<1> QED
  BY <1>1, <1>2, <1>3, <1>4, <1>5
     DEF IInv, Initialising, AtRest, Knows, AmpOnlyOverDac, DacFails, register

LEMMA OpenerSettlesInv == ASSUME IInv, OpenerSettles PROVE IInv'
  BY DEF OpenerSettles, IInv, TypeOK, OwnBits, ReadUnderLock, Initialising, AtRest, Knows,
         ResetKept, AmpOnlyOverDac, register

(* The opener exists once the controller is initialised. *)
LEMMA OpenOutputsInv == ASSUME IInv, OpenOutputs PROVE IInv'
<1>1. service["mcu"] \in {"up", "stopping", "muted"}
  BY DEF OpenOutputs, IInv, TypeOK, Initialising, AtRest, Processes
<1>2. /\ job' \in [Processes -> Seq([bit : Bits, value : BOOLEAN])]
      /\ OwnBits' /\ ReadUnderLock' /\ ResetKept'
  BY Plans, Begins DEF OpenOutputs, OpenPlan, register
<1>3. TypeOK'
  BY <1>2 DEF IInv, TypeOK, OpenOutputs, register
<1> QED
  BY <1>1, <1>2, <1>3, Continues DEF OpenOutputs, register

LEMMA SetMuteInv ==
  ASSUME IInv, NEW o \in Outs, NEW v \in BOOLEAN, SetMute(o, v)
  PROVE  IInv'
<1>1. <<Update(o, v)>> \in Seq(ControllerUpdates)
  BY Plans
<1>2. /\ job' \in [Processes -> Seq([bit : Bits, value : BOOLEAN])]
      /\ OwnBits' /\ ReadUnderLock' /\ ResetKept'
  BY <1>1, Begins DEF SetMute, register
<1>3. TypeOK'
  BY <1>2 DEF IInv, TypeOK, SetMute, register
<1> QED
  BY <1>2, <1>3, Continues DEF SetMute, register

LEMMA StopInv == ASSUME IInv, Stop PROVE IInv'
<1>1. /\ service' \in [Processes -> {"down", "init", "up", "stopping", "muted"}]
      /\ service["mcu"] = "up" /\ service'["mcu"] = "stopping"
  BY DEF Stop, IInv, TypeOK, Processes
<1>2. TypeOK' /\ OwnBits' /\ ReadUnderLock' /\ ResetKept'
  BY <1>1 DEF IInv, TypeOK, OwnBits, ReadUnderLock, ResetKept, Stop, register, controller
<1> QED
  BY <1>1, <1>2, Continues DEF Stop, register, controller

LEMMA MuteAllInv == ASSUME IInv, MuteAll PROVE IInv'
<1>1. /\ service' \in [Processes -> {"down", "init", "up", "stopping", "muted"}]
      /\ service["mcu"] = "stopping" /\ service'["mcu"] = "muted"
  BY DEF MuteAll, IInv, TypeOK, Processes
<1>2. /\ job' \in [Processes -> Seq([bit : Bits, value : BOOLEAN])]
      /\ OwnBits' /\ ReadUnderLock' /\ ResetKept'
  BY Plans, Begins DEF MuteAll, register
<1>3. TypeOK'
  BY <1>1, <1>2 DEF IInv, TypeOK, MuteAll, register
<1> QED
  BY <1>1, <1>2, <1>3, Continues DEF MuteAll, register

(* The end of a process releases the lock and drops what it had read.      *)
LEMMA GoneInv ==
  ASSUME IInv, NEW p \in Processes, Gone(p)
  PROVE  IInv'
<1>1. /\ service' = [service EXCEPT ![p] = "down"]
      /\ job' = [job EXCEPT ![p] = <<>>]
      /\ Unlock(p)
      /\ opener' = IF p = "mcu" THEN "none" ELSE opener
      /\ UNCHANGED <<reg, aim, cached, doubt, written>>
  BY DEF Gone
<1>2. TypeOK /\ OwnBits /\ ReadUnderLock /\ ResetKept
  BY DEF IInv
<1>3. /\ service' \in [Processes -> {"down", "init", "up", "stopping", "muted"}]
      /\ service'[p] = "down" /\ \A q \in Processes : q # p => service'[q] = service[q]
  BY <1>1, <1>2 DEF TypeOK
<1>4. /\ job' \in [Processes -> Seq([bit : Bits, value : BOOLEAN])]
      /\ job'[p] = <<>> /\ \A q \in Processes : q # p => job'[q] = job[q]
  <2>1. job \in [Processes -> Seq([bit : Bits, value : BOOLEAN])]
    BY <1>2 DEF TypeOK
  <2>2. <<>> \in Seq([bit : Bits, value : BOOLEAN])
    OBVIOUS
  <2> DEFINE Plan == Seq([bit : Bits, value : BOOLEAN])
  <2>3. job \in [Processes -> Plan] /\ <<>> \in Plan
    BY <2>1, <2>2
  <2> HIDE DEF Plan
  <2>4. job' \in [Processes -> Plan] /\ job'[p] = <<>>
    BY <1>1, <2>3
  <2>5. \A q \in Processes : q # p => job'[q] = job[q]
    BY <1>1, <2>3
  <2> QED
    BY <2>4, <2>5 DEF Plan
<1>5. OwnBits'
  BY <1>2, <1>4 DEF OwnBits, Processes
<1>6. /\ copy' \in [Processes -> [Bits -> BOOLEAN] \cup {Unread}]
      /\ copy'[p] = Unread /\ \A q \in Processes : q # p => copy'[q] = copy[q]
      /\ flock' = IF flock = p THEN "none" ELSE flock
  BY <1>1, <1>2 DEF TypeOK, Unlock
<1>7. ReadUnderLock'
  BY <1>1, <1>2, <1>4, <1>6 DEF ReadUnderLock
<1>8. TypeOK' /\ ResetKept'
  BY <1>1, <1>2, <1>3, <1>4, <1>6 DEF TypeOK, ResetKept
<1>9. Initialising' /\ AtRest'
  <2>1. CASE p = "mcu"
    BY <1>1, <1>3, <1>4, <2>1 DEF Initialising, AtRest
  <2>2. CASE p = "dsp"
    BY <1>1, <1>3, <1>4, <2>2 DEF IInv, Initialising, AtRest, Processes
  <2> QED
    BY <2>1, <2>2 DEF Processes
<1>10. Knows' /\ AmpOnlyOverDac'
  BY <1>1, <1>3 DEF IInv, Knows, AmpOnlyOverDac, Processes
<1> QED
  BY <1>5, <1>7, <1>8, <1>9, <1>10 DEF IInv

-----------------------------------------------------------------------------
(* The link of dsp-interface *)

LEMMA PulseInv ==
  ASSUME IInv, PulseReset \/ PulseEnds
  PROVE  IInv'
<1>1. /\ UNCHANGED <<reg, flock, copy, aim, cached, opener, doubt, written>>
      /\ job' \in {job, [job EXCEPT !["dsp"] = PulsePlan]}
      /\ service' = [service EXCEPT !["dsp"] = service'["dsp"]]
      /\ service'["dsp"] \in {"init", "up"}
  BY DEF PulseReset, PulseEnds, PulsePlan, register, controller, IInv, TypeOK, Processes
<1>2. TypeOK /\ OwnBits /\ ReadUnderLock /\ ResetKept
  BY DEF IInv
<1>3. /\ service' \in [Processes -> {"down", "init", "up", "stopping", "muted"}]
      /\ service'["mcu"] = service["mcu"]
  BY <1>1, <1>2 DEF TypeOK, Processes
<1>4. /\ job'["mcu"] = job["mcu"] /\ job'["dsp"] \in Seq(ResetUpdates)
      /\ job["dsp"] # <<>> => job'["dsp"] # <<>>
  BY <1>1, <1>2, Plans DEF TypeOK, OwnBits, Processes
<1>5. /\ OwnBits' /\ ReadUnderLock'
  BY <1>1, <1>2, <1>4 DEF OwnBits, ReadUnderLock, Processes
<1>6. job' \in [Processes -> Seq([bit : Bits, value : BOOLEAN])]
  <2>1. PulsePlan \in Seq([bit : Bits, value : BOOLEAN])
    <3>1. ResetUpdates \subseteq [bit : Bits, value : BOOLEAN]
      BY DEF ResetUpdates, Bits
    <3> QED
      BY <3>1, Plans, SeqMonotonic
  <2> QED
    BY <1>1, <1>2, <2>1 DEF TypeOK
<1>7. TypeOK' /\ ResetKept'
  BY <1>1, <1>2, <1>3, <1>6 DEF TypeOK, ResetKept
<1> QED
  BY <1>1, <1>3, <1>4, <1>5, <1>7 DEF IInv, Initialising, AtRest, Knows, AmpOnlyOverDac

-----------------------------------------------------------------------------
(* The inductive invariant *)

LEMMA StepInv == IInv /\ [Next]_ovars => IInv'
<1> SUFFICES ASSUME IInv, [Next]_ovars PROVE IInv'
  OBVIOUS
<1>1. CASE \E p \in Processes : Write(p) \/ LockAndRead(p) \/ WriteFails(p)
  BY <1>1, WriteInv, LockAndReadInv, WriteFailsInv
<1>2. CASE Start \/ InitializeEnds \/ DacFails \/ OpenerSettles \/ OpenOutputs \/ Stop \/ MuteAll
  BY <1>2, StartInv, InitializeEndsInv, DacFailsInv, OpenerSettlesInv, OpenOutputsInv, StopInv,
     MuteAllInv
<1>3. CASE Exit \/ \E p \in Processes : Killed(p)
  <2>1. Exit => Gone("mcu")
    BY DEF Exit
  <2>2. \A p \in Processes : Killed(p) => Gone(p)
    BY DEF Killed
  <2> QED
    BY <1>3, <2>1, <2>2, GoneInv DEF Processes
<1>4. CASE \E o \in Outs, m \in BOOLEAN : SetMute(o, m)
  BY <1>4, SetMuteInv
<1>5. CASE PulseReset \/ PulseEnds
  BY <1>5, PulseInv
<1>6. CASE UNCHANGED ovars
  BY <1>6 DEF ovars, register, controller, IInv, TypeOK, OwnBits, ReadUnderLock, Initialising,
     AtRest, Knows, ResetKept, AmpOnlyOverDac
<1> QED
  BY <1>1, <1>2, <1>3, <1>4, <1>5, <1>6 DEF Next, Works

LEMMA Invariance == Spec => []IInv
  BY InitInv, StepInv, PTL DEF Spec

(* The state of register, processes and controller is well typed.          *)
THEOREM OutputsTypes == Spec => []TypeOK
<1>1. IInv => TypeOK
  BY DEF IInv
<1> QED
  BY <1>1, Invariance, PTL

(* The amplifier is never energised over a muted DAC, whatever is asked,   *)
(* killed or stopped, unless a write that was reported as failed took      *)
(* effect.                                                                 *)
THEOREM AmpOverDac == Spec => []AmpOnlyOverDac
<1>1. IInv => AmpOnlyOverDac
  BY DEF IInv
<1> QED
  BY <1>1, Invariance, PTL

(* mcu-interface and dsp-interface never undo each other's bits of the     *)
(* register they share, and a running controller knows its own.            *)
THEOREM RegisterShared == Spec => []RegisterAgrees
<1>1. IInv => RegisterAgrees
  BY DEF IInv, ResetKept, Knows, RegisterAgrees
<1> QED
  BY <1>1, Invariance, PTL
=============================================================================
