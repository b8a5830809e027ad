-------------------------- MODULE WifiWindowProofs --------------------------
(***************************************************************************)
(* Theorems about the setup window of WifiWindow, for any profiles and any *)
(* bounds.  That a window reported applied left the station with the       *)
(* submitted profile takes a chain of facts through the three processes:   *)
(* what the adapter's step says of the supplicant and its file, whose      *)
(* request the adapter works on, what an answer on the way says, what the  *)
(* parser's end says, and what the verdict says.                           *)
(***************************************************************************)
EXTENDS WifiWindow, TLAPS

\* The station is as the last accepted request asked.
Moved == asked \in associated /\ supplicant = asked /\ config = asked

\* Between windows nothing of a window is left, and only windowd opens one.
Between ==
    /\ stage = "idle" =>
          /\ adapter = "none" /\ ParserGone /\ ~helpers
          /\ conn = "none" /\ backlog = NoProfile /\ ~peer
    /\ manager # "up" => stage = "idle"
    /\ manager = "boot" => outcome = "none"
    /\ stage # "idle" => outcome = "none"

\* The children a window has in each of its stages.
Stages ==
    /\ stage = "prepare" => adapter = "none" /\ ParserGone
    /\ stage = "adapter" => parser = "none"
    /\ stage \in {"prepare", "adapter"} =>
          conn = "none" /\ backlog = NoProfile /\ ~complete
    /\ stage \in {"prepare", "adapter", "parser", "stop"} => ~term
    /\ stage \in {"monitor", "grace"} => ~term
    /\ stage = "reap" =>
          ~helpers /\ backlog = NoProfile /\ parser \notin {"starting", "up"}
    /\ stage \in {"parser", "monitor", "grace"} => adapter # "starting"

\* A dead parser waits for nothing; a socket is gone before an adapter starts.
Children ==
    /\ ParserGone \/ parser = "starting" => conn = "none" /\ ~peer
    /\ adapter = "starting" => ~socket

\* What the adapter works on was asked for in this window.
Asked ==
    /\ adapter \notin {"none", "starting", "idle"} => asked # NoProfile
    /\ backlog # NoProfile => asked # NoProfile
    /\ conn # "none" => asked # NoProfile

\* Whose request the adapter works on.
Requests ==
    /\ peer => conn = "open" /\ job = asked
    /\ peer => adapter \in {"prepare", "config", "start", "associate", "save",
                            "answer", "refuse"}
    /\ conn = "open" /\ ~peer => backlog \in {NoProfile, asked}

\* What the adapter's step says of the supplicant and of its file.
Steps ==
    /\ adapter \in {"start", "associate", "save", "answer"} => config = job
    /\ adapter \in {"associate", "save", "answer"} => supplicant = job
    /\ adapter \in {"save", "answer"} => job \in associated \cup {NoProfile}
    /\ adapter \in {"prepare", "config", "start", "associate", "save", "answer"}
          => job # NoProfile

\* After an acknowledged success the adapter does no more in this window.
Acknowledged ==
    conn = "accepted" => Moved /\ adapter \in {"done", "none"}

Completes ==
    /\ complete /\ stage # "idle" => Moved /\ adapter \in {"done", "none"}
    /\ complete => conn = "none" /\ parser \notin {"starting", "up"}
    /\ parser \in {"closing", "exited"} /\ stage \in {"monitor", "grace"}
          => complete
    /\ parser = "closing" => stage \notin {"prepare", "adapter"}

\* What the verdict and the outcome say.
Verdicts ==
    /\ stage \in {"stop", "reap"} /\ verdict = "applied" => complete
    /\ outcome = "applied" /\ stage = "idle" => Moved

IInv ==
    /\ TypeOK
    /\ Between /\ Stages /\ Children /\ Asked /\ Requests /\ Steps
    /\ Acknowledged /\ Completes /\ Verdicts
    /\ SavedWasAssociated
-----------------------------------------------------------------------------

\* Every step of windowd, of a child or of a fault keeps the inductive invariant.
LEMMA InductiveStep == IInv /\ [Next]_vars => IInv'
<1> SUFFICES ASSUME IInv, [Next]_vars
             PROVE  IInv'
  OBVIOUS
<1> USE WindowAssumption DEF run, handler, work, station, children, ParserGone,
                             Listening
<1>0. /\ RunTypes /\ ChildTypes /\ FlagTypes /\ StationTypes
      /\ Between /\ Stages /\ Children /\ Asked /\ Requests /\ Steps
      /\ Acknowledged /\ Completes /\ Verdicts /\ SavedWasAssociated
  BY DEF IInv, TypeOK
<1>1. CASE Open
  <2>1. RunTypes'
    BY <1>0, <1>1, SMTT(20) DEF RunTypes, Open
  <2>2. FlagTypes'
    BY <1>0, <1>1, ZenonT(40) DEF FlagTypes, Open
  <2>3. StationTypes'
    BY <1>0, <1>1, SMTT(20) DEF StationTypes, Open
  <2>4. Between'
    BY <1>0, <1>1, SMTT(20) DEF Between, Open
  <2>5. Stages'
    BY <1>0, <1>1, SMTT(20) DEF Stages, Between, Children, RunTypes, Open
  <2>6. Asked'
    BY <1>0, <1>1, SMTT(20) DEF Asked, Between, Stages, Children, Open
  <2>7. Requests'
    BY <1>0, <1>1, SMTT(20) DEF Requests, Children, Acknowledged, Stages,
      Between, Open
  <2>8. Acknowledged'
    BY <1>0, <1>1, SMTT(20) DEF Acknowledged, Moved, Steps, Requests,
      Completes, Stages, Between, Open
  <2>9. Completes'
    BY <1>0, <1>1, SMTT(20) DEF Completes, Moved, Acknowledged, Stages,
      Between, Children, RunTypes, Open
  <2>10. Verdicts'
    BY <1>0, <1>1, SMTT(20) DEF Verdicts, Moved, Open
  <2>11. ChildTypes' /\ Children' /\ Steps' /\ SavedWasAssociated'
    BY <1>0, <1>1, ZenonT(40) DEF ChildTypes, Children, Steps, SavedWasAssociated,
      Open
  <2> QED
    BY <2>1, <2>2, <2>3, <2>4, <2>5, <2>6, <2>7, <2>8, <2>9, <2>10, <2>11 DEF
      IInv, TypeOK
<1>2. CASE Resume
  <2>1. RunTypes'
    BY <1>0, <1>2, SMTT(20) DEF RunTypes, Resume
  <2>2. StationTypes'
    BY <1>0, <1>2, SMTT(20) DEF StationTypes, Resume
  <2>3. Between'
    BY <1>0, <1>2, SMTT(20) DEF Between, Resume
  <2>4. Requests'
    BY <1>0, <1>2, SMTT(20) DEF Requests, Resume
  <2>5. Steps'
    BY <1>0, <1>2, SMTT(20) DEF Steps, Requests, Between, Resume
  <2>6. Acknowledged'
    BY <1>0, <1>2, SMTT(20) DEF Acknowledged, Moved, Steps, Requests,
      Completes, Stages, Between, Resume
  <2>7. Completes'
    BY <1>0, <1>2, SMTT(20) DEF Completes, Moved, Acknowledged, Stages,
      Between, Children, RunTypes, Resume
  <2>8. Verdicts'
    BY <1>0, <1>2, SMTT(20) DEF Verdicts, Moved, Between, Completes, Stages,
      Resume
  <2>9. SavedWasAssociated'
    BY <1>0, <1>2, SMTT(20) DEF SavedWasAssociated, Resume
  <2>10. ChildTypes' /\ FlagTypes' /\ Stages' /\ Children' /\ Asked'
    BY <1>0, <1>2, ZenonT(40) DEF ChildTypes, FlagTypes, Stages, Children, Asked,
      Resume
  <2> QED
    BY <2>1, <2>2, <2>3, <2>4, <2>5, <2>6, <2>7, <2>8, <2>9, <2>10 DEF IInv,
      TypeOK
<1>3. CASE StartAdapter
  <2>1. RunTypes'
    BY <1>0, <1>3, SMTT(20) DEF RunTypes, StartAdapter, Recovered
  <2>2. ChildTypes'
    BY <1>0, <1>3, SMTT(20) DEF ChildTypes, StartAdapter, Recovered
  <2>3. FlagTypes'
    BY <1>0, <1>3, ZenonT(40) DEF FlagTypes, StartAdapter, Recovered
  <2>4. Between'
    BY <1>0, <1>3, SMTT(20) DEF Between, StartAdapter, Recovered
  <2>5. Stages'
    BY <1>0, <1>3, SMTT(20) DEF Stages, StartAdapter, Recovered
  <2>6. Children'
    BY <1>0, <1>3, SMTT(20) DEF Children, Stages, Requests, StartAdapter,
      Recovered
  <2>7. Asked'
    BY <1>0, <1>3, SMTT(20) DEF Asked, StartAdapter, Recovered
  <2>8. Requests'
    BY <1>0, <1>3, SMTT(20) DEF Requests, StartAdapter, Recovered
  <2>9. Steps'
    BY <1>0, <1>3, SMTT(20) DEF Steps, StartAdapter, Recovered
  <2>10. Acknowledged'
    BY <1>0, <1>3, SMTT(20) DEF Acknowledged, Moved, Steps, Requests,
      Completes, Stages, Between, StartAdapter, Recovered
  <2>11. Completes'
    BY <1>0, <1>3, SMTT(20) DEF Completes, Moved, Acknowledged, Stages,
      Between, Children, RunTypes, StartAdapter, Recovered
  <2>12. Verdicts'
    BY <1>0, <1>3, SMTT(20) DEF Verdicts, Moved, StartAdapter, Recovered
  <2>13. StationTypes' /\ SavedWasAssociated'
    BY <1>0, <1>3, ZenonT(40) DEF StationTypes, SavedWasAssociated, StartAdapter,
      Recovered
  <2> QED
    BY <2>1, <2>2, <2>3, <2>4, <2>5, <2>6, <2>7, <2>8, <2>9, <2>10, <2>11,
      <2>12, <2>13 DEF IInv, TypeOK
<1>4. CASE StartParser
  <2>1. RunTypes'
    BY <1>0, <1>4, SMTT(20) DEF RunTypes, StartParser
  <2>2. ChildTypes'
    BY <1>0, <1>4, SMTT(20) DEF ChildTypes, StartParser
  <2>3. Between'
    BY <1>0, <1>4, SMTT(20) DEF Between, StartParser
  <2>4. Stages'
    BY <1>0, <1>4, SMTT(20) DEF Stages, StartParser
  <2>5. Children'
    BY <1>0, <1>4, SMTT(20) DEF Children, Stages, Requests, StartParser
  <2>6. Completes'
    BY <1>0, <1>4, SMTT(20) DEF Completes, Moved, StartParser
  <2>7. Verdicts'
    BY <1>0, <1>4, SMTT(20) DEF Verdicts, Moved, StartParser
  <2>8. FlagTypes' /\ StationTypes' /\ Asked' /\ Requests' /\ Steps' /\
        Acknowledged' /\ SavedWasAssociated'
    BY <1>0, <1>4, ZenonT(40) DEF FlagTypes, StationTypes, Asked, Requests, Steps,
      Acknowledged, SavedWasAssociated, Moved, StartParser
  <2> QED
    BY <2>1, <2>2, <2>3, <2>4, <2>5, <2>6, <2>7, <2>8 DEF IInv, TypeOK
<1>5. CASE StartHelpers
  <2>1. RunTypes'
    BY <1>0, <1>5, SMTT(20) DEF RunTypes, StartHelpers
  <2>2. FlagTypes'
    BY <1>0, <1>5, ZenonT(40) DEF FlagTypes, StartHelpers
  <2>3. Between'
    BY <1>0, <1>5, SMTT(20) DEF Between, StartHelpers
  <2>4. Stages'
    BY <1>0, <1>5, SMTT(20) DEF Stages, StartHelpers
  <2>5. Completes'
    BY <1>0, <1>5, SMTT(20) DEF Completes, Moved, StartHelpers
  <2>6. Verdicts'
    BY <1>0, <1>5, SMTT(20) DEF Verdicts, Moved, StartHelpers
  <2>7. ChildTypes' /\ StationTypes' /\ Children' /\ Asked' /\ Requests' /\
        Steps' /\ Acknowledged' /\ SavedWasAssociated'
    BY <1>0, <1>5, ZenonT(40) DEF ChildTypes, StationTypes, Children, Asked,
      Requests, Steps, Acknowledged, SavedWasAssociated, Moved, StartHelpers
  <2> QED
    BY <2>1, <2>2, <2>3, <2>4, <2>5, <2>6, <2>7 DEF IInv, TypeOK
<1>6. CASE StartFails
  <2>1. RunTypes'
    BY <1>0, <1>6, SMTT(20) DEF RunTypes, StartFails, Fault, Returns,
      Starting
  <2>2. Between'
    BY <1>0, <1>6, SMTT(20) DEF Between, StartFails, Fault, Returns, Starting
  <2>3. Stages'
    BY <1>0, <1>6, SMTT(20) DEF Stages, StartFails, Fault, Returns, Starting
  <2>4. Completes'
    BY <1>0, <1>6, SMTT(20) DEF Completes, Moved, StartFails, Fault, Returns,
      Starting
  <2>5. Verdicts'
    BY <1>0, <1>6, SMTT(20) DEF Verdicts, Moved, StartFails, Fault, Returns,
      Starting
  <2>6. FlagTypes'
    BY <1>0, <1>6, ZenonT(40) DEF FlagTypes, StartFails, Fault, Returns, Starting
  <2>7. ChildTypes' /\ StationTypes' /\ Children' /\ Asked' /\ Requests' /\
        Steps' /\ Acknowledged' /\ SavedWasAssociated'
    BY <1>0, <1>6, SMTT(30) DEF ChildTypes, StationTypes, Children, Asked,
      Requests, Steps, Acknowledged, SavedWasAssociated, Moved, StartFails,
      Fault, Returns, Starting
  <2> QED
    BY <2>1, <2>2, <2>3, <2>4, <2>5, <2>6, <2>7 DEF IInv, TypeOK
<1>7. CASE ParserExited
  <2>1. RunTypes'
    BY <1>0, <1>7, SMTT(20) DEF RunTypes, ParserExited, Returns,
      ParserVerdict
  <2>2. Between'
    BY <1>0, <1>7, SMTT(20) DEF Between, ParserExited, Returns, ParserVerdict
  <2>3. Stages'
    BY <1>0, <1>7, SMTT(20) DEF Stages, ParserExited, Returns, ParserVerdict
  <2>4. Completes'
    BY <1>0, <1>7, SMTT(20) DEF Completes, Moved, ParserExited, Returns,
      ParserVerdict
  <2>5. Verdicts'
    BY <1>0, <1>7, SMTT(20) DEF Verdicts, Moved, Between, Completes, Stages,
      ParserExited, Returns, ParserVerdict
  <2>6. ChildTypes' /\ FlagTypes' /\ StationTypes' /\ Children' /\ Asked' /\
        Requests' /\ Steps' /\ Acknowledged' /\ SavedWasAssociated'
    BY <1>0, <1>7, ZenonT(40) DEF ChildTypes, FlagTypes, StationTypes, Children,
      Asked, Requests, Steps, Acknowledged, SavedWasAssociated, Moved,
      ParserExited, Returns, ParserVerdict
  <2> QED
    BY <2>1, <2>2, <2>3, <2>4, <2>5, <2>6 DEF IInv, TypeOK
<1>8. CASE AdapterExited
  <2>1. RunTypes'
    BY <1>0, <1>8, SMTT(20) DEF RunTypes, AdapterExited
  <2>2. Between'
    BY <1>0, <1>8, SMTT(20) DEF Between, AdapterExited
  <2>3. Stages'
    BY <1>0, <1>8, SMTT(20) DEF Stages, AdapterExited
  <2>4. Completes'
    BY <1>0, <1>8, SMTT(20) DEF Completes, Moved, AdapterExited
  <2>5. Verdicts'
    BY <1>0, <1>8, SMTT(20) DEF Verdicts, Moved, AdapterExited
  <2>6. ChildTypes' /\ FlagTypes' /\ StationTypes' /\ Children' /\ Asked' /\
        Requests' /\ Steps' /\ Acknowledged' /\ SavedWasAssociated'
    BY <1>0, <1>8, ZenonT(40) DEF ChildTypes, FlagTypes, StationTypes, Children,
      Asked, Requests, Steps, Acknowledged, SavedWasAssociated, Moved,
      AdapterExited
  <2> QED
    BY <2>1, <2>2, <2>3, <2>4, <2>5, <2>6 DEF IInv, TypeOK
<1>9. CASE GraceEnds
  <2>1. RunTypes'
    BY <1>0, <1>9, SMTT(20) DEF RunTypes, GraceEnds, Returns
  <2>2. Between'
    BY <1>0, <1>9, SMTT(20) DEF Between, GraceEnds, Returns
  <2>3. Stages'
    BY <1>0, <1>9, SMTT(20) DEF Stages, GraceEnds, Returns
  <2>4. Completes'
    BY <1>0, <1>9, SMTT(20) DEF Completes, Moved, GraceEnds, Returns
  <2>5. Verdicts'
    BY <1>0, <1>9, SMTT(20) DEF Verdicts, Moved, GraceEnds, Returns
  <2>6. FlagTypes'
    BY <1>0, <1>9, ZenonT(40) DEF FlagTypes, GraceEnds, Returns
  <2>7. ChildTypes' /\ StationTypes' /\ Children' /\ Asked' /\ Requests' /\
        Steps' /\ Acknowledged' /\ SavedWasAssociated'
    BY <1>0, <1>9, SMTT(30) DEF ChildTypes, StationTypes, Children, Asked,
      Requests, Steps, Acknowledged, SavedWasAssociated, Moved, GraceEnds,
      Returns
  <2> QED
    BY <2>1, <2>2, <2>3, <2>4, <2>5, <2>6, <2>7 DEF IInv, TypeOK
<1>10. CASE Stop
  <2>1. RunTypes'
    BY <1>0, <1>10, SMTT(20) DEF RunTypes, Stop
  <2>2. ChildTypes'
    BY <1>0, <1>10, SMTT(20) DEF ChildTypes, Stop
  <2>3. FlagTypes'
    BY <1>0, <1>10, ZenonT(40) DEF FlagTypes, Stop
  <2>4. StationTypes'
    BY <1>0, <1>10, SMTT(20) DEF StationTypes, Stop
  <2>5. Between'
    BY <1>0, <1>10, SMTT(20) DEF Between, Stop
  <2>6. Stages'
    BY <1>0, <1>10, SMTT(20) DEF Stages, Stop
  <2>7. Children'
    BY <1>0, <1>10, SMTT(20) DEF Children, Stop
  <2>8. Asked'
    BY <1>0, <1>10, SMTT(20) DEF Asked, Stop
  <2>9. Requests'
    BY <1>0, <1>10, SMTT(20) DEF Requests, Stop
  <2>10. Steps'
    BY <1>0, <1>10, SMTT(20) DEF Steps, Stop
  <2>11. Acknowledged'
    BY <1>0, <1>10, SMTT(20) DEF Acknowledged, Moved, Stop
  <2>12. Completes'
    BY <1>0, <1>10, SMTT(20) DEF Completes, Moved, Stop
  <2>13. Verdicts'
    BY <1>0, <1>10, SMTT(20) DEF Verdicts, Moved, Stop
  <2>14. SavedWasAssociated'
    BY <1>0, <1>10, ZenonT(40) DEF SavedWasAssociated, Stop
  <2> QED
    BY <2>1, <2>2, <2>3, <2>4, <2>5, <2>6, <2>7, <2>8, <2>9, <2>10, <2>11,
      <2>12, <2>13, <2>14 DEF IInv, TypeOK
<1>11. CASE KillChildren
  <2>1. RunTypes'
    BY <1>0, <1>11, SMTT(20) DEF RunTypes, KillChildren
  <2>2. ChildTypes'
    BY <1>0, <1>11, SMTT(20) DEF ChildTypes, KillChildren
  <2>3. FlagTypes'
    BY <1>0, <1>11, ZenonT(40) DEF FlagTypes, KillChildren
  <2>4. StationTypes'
    BY <1>0, <1>11, SMTT(20) DEF StationTypes, KillChildren
  <2>5. Between'
    BY <1>0, <1>11, SMTT(20) DEF Between, KillChildren
  <2>6. Stages'
    BY <1>0, <1>11, SMTT(20) DEF Stages, KillChildren
  <2>7. Children'
    BY <1>0, <1>11, SMTT(20) DEF Children, KillChildren
  <2>8. Asked'
    BY <1>0, <1>11, SMTT(20) DEF Asked, KillChildren
  <2>9. Requests'
    BY <1>0, <1>11, SMTT(20) DEF Requests, KillChildren
  <2>10. Steps'
    BY <1>0, <1>11, SMTT(20) DEF Steps, KillChildren
  <2>11. Acknowledged'
    BY <1>0, <1>11, SMTT(20) DEF Acknowledged, Moved, KillChildren
  <2>12. Completes'
    BY <1>0, <1>11, SMTT(20) DEF Completes, Moved, KillChildren
  <2>13. Verdicts' /\ SavedWasAssociated'
    BY <1>0, <1>11, ZenonT(40) DEF Verdicts, SavedWasAssociated, Moved,
      KillChildren
  <2> QED
    BY <2>1, <2>2, <2>3, <2>4, <2>5, <2>6, <2>7, <2>8, <2>9, <2>10, <2>11,
      <2>12, <2>13 DEF IInv, TypeOK
<1>12. CASE Finish
  <2>1. RunTypes'
    BY <1>0, <1>12, SMTT(20) DEF RunTypes, Finish, Fault, ConfigAfter
  <2>2. StationTypes'
    BY <1>0, <1>12, SMTT(20) DEF StationTypes, Finish, Fault, ConfigAfter
  <2>3. Between'
    BY <1>0, <1>12, SMTT(20) DEF Between, Stages, Children, RunTypes, Finish,
      Fault, ConfigAfter
  <2>4. Stages'
    BY <1>0, <1>12, SMTT(20) DEF Stages, Finish, Fault, ConfigAfter
  <2>5. Requests'
    BY <1>0, <1>12, SMTT(20) DEF Requests, Finish, Fault, ConfigAfter
  <2>6. Steps'
    BY <1>0, <1>12, SMTT(20) DEF Steps, Finish, Fault, ConfigAfter
  <2>7. Acknowledged'
    BY <1>0, <1>12, SMTT(20) DEF Acknowledged, Moved, Finish, Fault,
      ConfigAfter
  <2>8. Completes'
    BY <1>0, <1>12, SMTT(20) DEF Completes, Moved, Finish, Fault, ConfigAfter
  <2>9. Verdicts'
    BY <1>0, <1>12, SMTT(20) DEF Verdicts, Moved, Between, Completes, Stages,
      Finish, Fault, ConfigAfter
  <2>10. ChildTypes' /\ FlagTypes' /\ Children' /\ Asked' /\
        SavedWasAssociated'
    BY <1>0, <1>12, ZenonT(40) DEF ChildTypes, FlagTypes, Children, Asked,
      SavedWasAssociated, Finish, Fault, ConfigAfter
  <2> QED
    BY <2>1, <2>2, <2>3, <2>4, <2>5, <2>6, <2>7, <2>8, <2>9, <2>10 DEF IInv,
      TypeOK
<1>13. CASE ManagerRestarts
  <2>1. RunTypes'
    BY <1>0, <1>13, SMTT(20) DEF RunTypes, ManagerRestarts
  <2>2. Between'
    BY <1>0, <1>13, SMTT(20) DEF Between, ManagerRestarts
  <2>3. FlagTypes'
    BY <1>0, <1>13, ZenonT(40) DEF FlagTypes, ManagerRestarts
  <2>4. ChildTypes' /\ StationTypes' /\ Stages' /\ Children' /\ Asked' /\
        Requests' /\ Steps' /\ Acknowledged' /\ Completes' /\ Verdicts' /\
        SavedWasAssociated'
    BY <1>0, <1>13, SMTT(30) DEF ChildTypes, StationTypes, Stages, Children,
      Asked, Requests, Steps, Acknowledged, Completes, Verdicts,
      SavedWasAssociated, Moved, ManagerRestarts
  <2> QED
    BY <2>1, <2>2, <2>3, <2>4 DEF IInv, TypeOK
<1>14. CASE Deadline
  <2>1. RunTypes'
    BY <1>0, <1>14, SMTT(20) DEF RunTypes, Deadline, Returns, Bounded
  <2>2. Between'
    BY <1>0, <1>14, SMTT(20) DEF Between, Deadline, Returns, Bounded
  <2>3. Stages'
    BY <1>0, <1>14, SMTT(20) DEF Stages, Deadline, Returns, Bounded
  <2>4. Completes'
    BY <1>0, <1>14, SMTT(20) DEF Completes, Moved, Deadline, Returns, Bounded
  <2>5. Verdicts'
    BY <1>0, <1>14, SMTT(20) DEF Verdicts, Moved, Deadline, Returns, Bounded
  <2>6. FlagTypes'
    BY <1>0, <1>14, ZenonT(40) DEF FlagTypes, Deadline, Returns, Bounded
  <2>7. ChildTypes' /\ StationTypes' /\ Children' /\ Asked' /\ Requests' /\
        Steps' /\ Acknowledged' /\ SavedWasAssociated'
    BY <1>0, <1>14, SMTT(30) DEF ChildTypes, StationTypes, Children, Asked,
      Requests, Steps, Acknowledged, SavedWasAssociated, Moved, Deadline,
      Returns, Bounded
  <2> QED
    BY <2>1, <2>2, <2>3, <2>4, <2>5, <2>6, <2>7 DEF IInv, TypeOK
<1>15. CASE HelperExited
  <2>1. RunTypes'
    BY <1>0, <1>15, SMTT(20) DEF RunTypes, HelperExited, Fault, Returns
  <2>2. Between'
    BY <1>0, <1>15, SMTT(20) DEF Between, HelperExited, Fault, Returns
  <2>3. Stages'
    BY <1>0, <1>15, SMTT(20) DEF Stages, HelperExited, Fault, Returns
  <2>4. Completes'
    BY <1>0, <1>15, SMTT(20) DEF Completes, Moved, HelperExited, Fault,
      Returns
  <2>5. Verdicts'
    BY <1>0, <1>15, SMTT(20) DEF Verdicts, Moved, HelperExited, Fault,
      Returns
  <2>6. FlagTypes'
    BY <1>0, <1>15, ZenonT(40) DEF FlagTypes, HelperExited, Fault, Returns
  <2>7. ChildTypes' /\ StationTypes' /\ Children' /\ Asked' /\ Requests' /\
        Steps' /\ Acknowledged' /\ SavedWasAssociated'
    BY <1>0, <1>15, SMTT(30) DEF ChildTypes, StationTypes, Children, Asked,
      Requests, Steps, Acknowledged, SavedWasAssociated, Moved, HelperExited,
      Fault, Returns
  <2> QED
    BY <2>1, <2>2, <2>3, <2>4, <2>5, <2>6, <2>7 DEF IInv, TypeOK
<1>16. CASE Shutdown
  <2>1. RunTypes'
    BY <1>0, <1>16, SMTT(20) DEF RunTypes, Shutdown, Fault, Returns
  <2>2. Between'
    BY <1>0, <1>16, SMTT(20) DEF Between, Shutdown, Fault, Returns
  <2>3. Stages'
    BY <1>0, <1>16, SMTT(20) DEF Stages, Shutdown, Fault, Returns
  <2>4. Completes'
    BY <1>0, <1>16, SMTT(20) DEF Completes, Moved, Shutdown, Fault, Returns
  <2>5. Verdicts'
    BY <1>0, <1>16, SMTT(20) DEF Verdicts, Moved, Shutdown, Fault, Returns
  <2>6. FlagTypes'
    BY <1>0, <1>16, ZenonT(40) DEF FlagTypes, Shutdown, Fault, Returns
  <2>7. ChildTypes' /\ StationTypes' /\ Children' /\ Asked' /\ Requests' /\
        Steps' /\ Acknowledged' /\ SavedWasAssociated'
    BY <1>0, <1>16, SMTT(30) DEF ChildTypes, StationTypes, Children, Asked,
      Requests, Steps, Acknowledged, SavedWasAssociated, Moved, Shutdown,
      Fault, Returns
  <2> QED
    BY <2>1, <2>2, <2>3, <2>4, <2>5, <2>6, <2>7 DEF IInv, TypeOK
<1>17. CASE ManagerKilled
  <2>1. RunTypes'
    BY <1>0, <1>17, SMTT(20) DEF RunTypes, ManagerKilled, Fault, Outlives
  <2>2. ChildTypes'
    BY <1>0, <1>17, SMTT(20) DEF ChildTypes, ManagerKilled, Fault, Outlives
  <2>3. FlagTypes'
    BY <1>0, <1>17, ZenonT(40) DEF FlagTypes, ManagerKilled, Fault, Outlives
  <2>4. StationTypes'
    BY <1>0, <1>17, SMTT(20) DEF StationTypes, ManagerKilled, Fault, Outlives
  <2>5. Between'
    BY <1>0, <1>17, SMTT(20) DEF Between, ManagerKilled, Fault, Outlives
  <2>6. Stages'
    BY <1>0, <1>17, SMTT(20) DEF Stages, ManagerKilled, Fault, Outlives
  <2>7. Children'
    BY <1>0, <1>17, SMTT(20) DEF Children, ManagerKilled, Fault, Outlives
  <2>8. Asked'
    BY <1>0, <1>17, SMTT(20) DEF Asked, ManagerKilled, Fault, Outlives
  <2>9. Requests'
    BY <1>0, <1>17, SMTT(20) DEF Requests, ManagerKilled, Fault, Outlives
  <2>10. Steps'
    BY <1>0, <1>17, SMTT(20) DEF Steps, ManagerKilled, Fault, Outlives
  <2>11. Acknowledged'
    BY <1>0, <1>17, SMTT(20) DEF Acknowledged, Moved, ManagerKilled, Fault,
      Outlives
  <2>12. Completes'
    BY <1>0, <1>17, SMTT(20) DEF Completes, Moved, ManagerKilled, Fault,
      Outlives
  <2>13. Verdicts'
    BY <1>0, <1>17, SMTT(20) DEF Verdicts, Moved, Between, Completes, Stages,
      ManagerKilled, Fault, Outlives
  <2>14. SavedWasAssociated'
    BY <1>0, <1>17, ZenonT(40) DEF SavedWasAssociated, ManagerKilled, Fault,
      Outlives
  <2> QED
    BY <2>1, <2>2, <2>3, <2>4, <2>5, <2>6, <2>7, <2>8, <2>9, <2>10, <2>11,
      <2>12, <2>13, <2>14 DEF IInv, TypeOK
<1>18. CASE ParserListens
  <2>1. RunTypes'
    BY <1>0, <1>18, SMTT(20) DEF RunTypes, ParserListens
  <2>2. ChildTypes'
    BY <1>0, <1>18, SMTT(20) DEF ChildTypes, ParserListens
  <2>3. Between'
    BY <1>0, <1>18, SMTT(20) DEF Between, ParserListens
  <2>4. Stages'
    BY <1>0, <1>18, SMTT(20) DEF Stages, ParserListens
  <2>5. Children'
    BY <1>0, <1>18, SMTT(20) DEF Children, ParserListens
  <2>6. Completes'
    BY <1>0, <1>18, SMTT(20) DEF Completes, Moved, ParserListens
  <2>7. FlagTypes' /\ StationTypes' /\ Asked' /\ Requests' /\ Steps' /\
        Acknowledged' /\ Verdicts' /\ SavedWasAssociated'
    BY <1>0, <1>18, ZenonT(40) DEF FlagTypes, StationTypes, Asked, Requests,
      Steps, Acknowledged, Verdicts, SavedWasAssociated, Moved, ParserListens
  <2> QED
    BY <2>1, <2>2, <2>3, <2>4, <2>5, <2>6, <2>7 DEF IInv, TypeOK
<1>19. CASE Submit
  <2>1. ChildTypes'
    BY <1>0, <1>19, SMTT(20) DEF ChildTypes, Submit
  <2>2. StationTypes'
    BY <1>0, <1>19, SMTT(20) DEF StationTypes, Submit
  <2>3. Between'
    BY <1>0, <1>19, SMTT(20) DEF Between, Submit
  <2>4. Stages'
    BY <1>0, <1>19, SMTT(20) DEF Stages, Submit
  <2>5. Children'
    BY <1>0, <1>19, SMTT(20) DEF Children, Submit
  <2>6. Asked'
    BY <1>0, <1>19, SMTT(20) DEF Asked, Submit
  <2>7. Requests'
    BY <1>0, <1>19, SMTT(20) DEF Requests, Submit
  <2>8. Acknowledged'
    BY <1>0, <1>19, SMTT(20) DEF Acknowledged, Moved, Submit
  <2>9. Completes'
    BY <1>0, <1>19, SMTT(20) DEF Completes, Moved, Submit
  <2>10. FlagTypes'
    BY <1>0, <1>19, ZenonT(40) DEF FlagTypes, Submit
  <2>11. RunTypes' /\ Steps' /\ Verdicts' /\ SavedWasAssociated'
    BY <1>0, <1>19, SMTT(30) DEF RunTypes, Steps, Verdicts,
      SavedWasAssociated, Moved, Submit
  <2> QED
    BY <2>1, <2>2, <2>3, <2>4, <2>5, <2>6, <2>7, <2>8, <2>9, <2>10, <2>11 DEF
      IInv, TypeOK
<1>20. CASE ReadAnswer
  <2>1. RunTypes'
    BY <1>0, <1>20, SMTT(20) DEF RunTypes, ReadAnswer
  <2>2. ChildTypes'
    BY <1>0, <1>20, SMTT(20) DEF ChildTypes, ReadAnswer
  <2>3. FlagTypes'
    BY <1>0, <1>20, ZenonT(40) DEF FlagTypes, ReadAnswer
  <2>4. Between'
    BY <1>0, <1>20, SMTT(20) DEF Between, ReadAnswer
  <2>5. Stages'
    BY <1>0, <1>20, SMTT(20) DEF Stages, ReadAnswer
  <2>6. Children'
    BY <1>0, <1>20, SMTT(20) DEF Children, ReadAnswer
  <2>7. Asked'
    BY <1>0, <1>20, SMTT(20) DEF Asked, ReadAnswer
  <2>8. Requests'
    BY <1>0, <1>20, SMTT(20) DEF Requests, ReadAnswer
  <2>9. Acknowledged'
    BY <1>0, <1>20, SMTT(20) DEF Acknowledged, Moved, ReadAnswer
  <2>10. Completes'
    BY <1>0, <1>20, SMTT(20) DEF Completes, Moved, Acknowledged, Stages,
      Between, Children, RunTypes, ReadAnswer
  <2>11. Verdicts'
    BY <1>0, <1>20, SMTT(20) DEF Verdicts, Moved, ReadAnswer
  <2>12. StationTypes' /\ Steps' /\ SavedWasAssociated'
    BY <1>0, <1>20, ZenonT(40) DEF StationTypes, Steps, SavedWasAssociated,
      ReadAnswer
  <2> QED
    BY <2>1, <2>2, <2>3, <2>4, <2>5, <2>6, <2>7, <2>8, <2>9, <2>10, <2>11,
      <2>12 DEF IInv, TypeOK
<1>21. CASE GivesUp
  <2>1. ChildTypes'
    BY <1>0, <1>21, SMTT(20) DEF ChildTypes, GivesUp
  <2>2. FlagTypes'
    BY <1>0, <1>21, ZenonT(40) DEF FlagTypes, GivesUp
  <2>3. Between'
    BY <1>0, <1>21, SMTT(20) DEF Between, GivesUp
  <2>4. Stages'
    BY <1>0, <1>21, SMTT(20) DEF Stages, GivesUp
  <2>5. Children'
    BY <1>0, <1>21, SMTT(20) DEF Children, GivesUp
  <2>6. Asked'
    BY <1>0, <1>21, SMTT(20) DEF Asked, GivesUp
  <2>7. Requests'
    BY <1>0, <1>21, SMTT(20) DEF Requests, GivesUp
  <2>8. Acknowledged'
    BY <1>0, <1>21, SMTT(20) DEF Acknowledged, Moved, GivesUp
  <2>9. Completes'
    BY <1>0, <1>21, SMTT(20) DEF Completes, Moved, GivesUp
  <2>10. RunTypes' /\ StationTypes' /\ Steps' /\ Verdicts' /\
        SavedWasAssociated'
    BY <1>0, <1>21, SMTT(30) DEF RunTypes, StationTypes, Steps, Verdicts,
      SavedWasAssociated, Moved, GivesUp
  <2> QED
    BY <2>1, <2>2, <2>3, <2>4, <2>5, <2>6, <2>7, <2>8, <2>9, <2>10 DEF IInv,
      TypeOK
<1>22. CASE ParserExits
  <2>1. RunTypes'
    BY <1>0, <1>22, SMTT(20) DEF RunTypes, ParserExits, Fault
  <2>2. ChildTypes'
    BY <1>0, <1>22, SMTT(20) DEF ChildTypes, ParserExits, Fault
  <2>3. FlagTypes'
    BY <1>0, <1>22, ZenonT(40) DEF FlagTypes, ParserExits, Fault
  <2>4. Between'
    BY <1>0, <1>22, SMTT(20) DEF Between, ParserExits, Fault
  <2>5. Stages'
    BY <1>0, <1>22, SMTT(20) DEF Stages, ParserExits, Fault
  <2>6. Children'
    BY <1>0, <1>22, SMTT(20) DEF Children, ParserExits, Fault
  <2>7. Asked'
    BY <1>0, <1>22, SMTT(20) DEF Asked, ParserExits, Fault
  <2>8. Requests'
    BY <1>0, <1>22, SMTT(20) DEF Requests, ParserExits, Fault
  <2>9. Acknowledged'
    BY <1>0, <1>22, SMTT(20) DEF Acknowledged, Moved, ParserExits, Fault
  <2>10. Completes'
    BY <1>0, <1>22, SMTT(20) DEF Completes, Moved, ParserExits, Fault
  <2>11. StationTypes' /\ Steps' /\ Verdicts' /\ SavedWasAssociated'
    BY <1>0, <1>22, ZenonT(40) DEF StationTypes, Steps, Verdicts,
      SavedWasAssociated, Moved, ParserExits, Fault
  <2> QED
    BY <2>1, <2>2, <2>3, <2>4, <2>5, <2>6, <2>7, <2>8, <2>9, <2>10, <2>11 DEF
      IInv, TypeOK
<1>23. CASE ParserCrashes
  <2>1. RunTypes'
    BY <1>0, <1>23, SMTT(20) DEF RunTypes, ParserCrashes, Fault
  <2>2. ChildTypes'
    BY <1>0, <1>23, SMTT(20) DEF ChildTypes, ParserCrashes, Fault
  <2>3. FlagTypes'
    BY <1>0, <1>23, ZenonT(40) DEF FlagTypes, ParserCrashes, Fault
  <2>4. Between'
    BY <1>0, <1>23, SMTT(20) DEF Between, ParserCrashes, Fault
  <2>5. Stages'
    BY <1>0, <1>23, SMTT(20) DEF Stages, ParserCrashes, Fault
  <2>6. Children'
    BY <1>0, <1>23, SMTT(20) DEF Children, ParserCrashes, Fault
  <2>7. Asked'
    BY <1>0, <1>23, SMTT(20) DEF Asked, ParserCrashes, Fault
  <2>8. Requests'
    BY <1>0, <1>23, SMTT(20) DEF Requests, ParserCrashes, Fault
  <2>9. Acknowledged'
    BY <1>0, <1>23, SMTT(20) DEF Acknowledged, Moved, ParserCrashes, Fault
  <2>10. Completes'
    BY <1>0, <1>23, SMTT(20) DEF Completes, Moved, ParserCrashes, Fault
  <2>11. StationTypes' /\ Steps' /\ Verdicts' /\ SavedWasAssociated'
    BY <1>0, <1>23, ZenonT(40) DEF StationTypes, Steps, Verdicts,
      SavedWasAssociated, Moved, ParserCrashes, Fault
  <2> QED
    BY <2>1, <2>2, <2>3, <2>4, <2>5, <2>6, <2>7, <2>8, <2>9, <2>10, <2>11 DEF
      IInv, TypeOK
<1>24. CASE \E p \in Profiles : Request(p)
  <2>1. ChildTypes'
    BY <1>0, <1>24, SMTT(20) DEF ChildTypes, Request, Ready
  <2>2. StationTypes'
    BY <1>0, <1>24, SMTT(20) DEF StationTypes, Request, Ready
  <2>3. Between'
    BY <1>0, <1>24, SMTT(20) DEF Between, Request, Ready
  <2>4. Stages'
    BY <1>0, <1>24, SMTT(20) DEF Stages, Request, Ready
  <2>5. Children'
    BY <1>0, <1>24, SMTT(20) DEF Children, Request, Ready
  <2>6. Asked'
    BY <1>0, <1>24, SMTT(20) DEF Asked, Request, Ready
  <2>7. Requests'
    BY <1>0, <1>24, SMTT(20) DEF Requests, Request, Ready
  <2>8. Acknowledged'
    BY <1>0, <1>24, SMTT(20) DEF Acknowledged, Moved, Request, Ready
  <2>9. Completes'
    BY <1>0, <1>24, SMTT(20) DEF Completes, Moved, Request, Ready
  <2>10. Verdicts'
    BY <1>0, <1>24, SMTT(20) DEF Verdicts, Moved, Between, Completes, Stages,
      Request, Ready
  <2>11. RunTypes' /\ FlagTypes' /\ Steps' /\ SavedWasAssociated'
    BY <1>0, <1>24, ZenonT(40) DEF RunTypes, FlagTypes, Steps, SavedWasAssociated,
      Request, Ready
  <2> QED
    BY <2>1, <2>2, <2>3, <2>4, <2>5, <2>6, <2>7, <2>8, <2>9, <2>10, <2>11 DEF
      IInv, TypeOK
<1>25. CASE AdapterListens
  <2>1. RunTypes'
    BY <1>0, <1>25, SMTT(20) DEF RunTypes, AdapterListens, AdapterAt
  <2>2. ChildTypes'
    BY <1>0, <1>25, SMTT(20) DEF ChildTypes, AdapterListens, AdapterAt
  <2>3. FlagTypes'
    BY <1>0, <1>25, ZenonT(40) DEF FlagTypes, AdapterListens, AdapterAt
  <2>4. Between'
    BY <1>0, <1>25, SMTT(20) DEF Between, AdapterListens, AdapterAt
  <2>5. Stages'
    BY <1>0, <1>25, SMTT(20) DEF Stages, AdapterListens, AdapterAt
  <2>6. Children'
    BY <1>0, <1>25, SMTT(20) DEF Children, AdapterListens, AdapterAt
  <2>7. Asked'
    BY <1>0, <1>25, SMTT(20) DEF Asked, AdapterListens, AdapterAt
  <2>8. Requests'
    BY <1>0, <1>25, SMTT(20) DEF Requests, AdapterListens, AdapterAt
  <2>9. Steps'
    BY <1>0, <1>25, SMTT(20) DEF Steps, AdapterListens, AdapterAt
  <2>10. Acknowledged'
    BY <1>0, <1>25, SMTT(20) DEF Acknowledged, Moved, AdapterListens,
      AdapterAt
  <2>11. Completes'
    BY <1>0, <1>25, SMTT(20) DEF Completes, Moved, AdapterListens, AdapterAt
  <2>12. StationTypes' /\ Verdicts' /\ SavedWasAssociated'
    BY <1>0, <1>25, ZenonT(40) DEF StationTypes, Verdicts, SavedWasAssociated,
      Moved, AdapterListens, AdapterAt
  <2> QED
    BY <2>1, <2>2, <2>3, <2>4, <2>5, <2>6, <2>7, <2>8, <2>9, <2>10, <2>11,
      <2>12 DEF IInv, TypeOK
<1>26. CASE Accept
  <2>0. peer' <=> conn = "open"
    BY <1>26, ZenonT(40) DEF Accept
  <2>1. RunTypes'
    BY <1>0, <1>26, SMTT(20) DEF RunTypes, Accept, AdapterAt
  <2>2. ChildTypes'
    BY <1>0, <1>26, SMTT(20) DEF ChildTypes, Accept, AdapterAt
  <2>3. FlagTypes'
    BY <1>0, <1>26, ZenonT(40) DEF FlagTypes, Accept, AdapterAt
  <2>4. StationTypes'
    BY <1>0, <1>26, SMTT(20) DEF StationTypes, Accept, AdapterAt
  <2>5. Between'
    BY <1>0, <1>26, SMTT(20) DEF Between, Accept, AdapterAt
  <2>6. Stages'
    BY <1>0, <1>26, SMTT(20) DEF Stages, Accept, AdapterAt
  <2>7. Children'
    BY <1>0, <1>26, <2>0, SMTT(20) DEF Children, Accept, AdapterAt
  <2>8. Asked'
    BY <1>0, <1>26, SMTT(20) DEF Asked, Accept, AdapterAt
  <2>9. Requests'
    BY <1>0, <1>26, <2>0, SMTT(20) DEF Requests, Accept, AdapterAt
  <2>10. Steps'
    BY <1>0, <1>26, SMTT(20) DEF Steps, Accept, AdapterAt
  <2>11. Acknowledged'
    BY <1>0, <1>26, SMTT(20) DEF Acknowledged, Moved, Accept, AdapterAt
  <2>12. Completes'
    BY <1>0, <1>26, SMTT(20) DEF Completes, Moved, Accept, AdapterAt
  <2>13. Verdicts' /\ SavedWasAssociated'
    BY <1>0, <1>26, ZenonT(40) DEF Verdicts, SavedWasAssociated, Moved, Accept,
      AdapterAt
  <2> QED
    BY <2>1, <2>2, <2>3, <2>4, <2>5, <2>6, <2>7, <2>8, <2>9, <2>10, <2>11,
      <2>12, <2>13 DEF IInv, TypeOK
<1>27. CASE PrepareSupplicant
  <2>1. RunTypes'
    BY <1>0, <1>27, SMTT(20) DEF RunTypes, PrepareSupplicant, Fails,
      AdapterAt, Fault
  <2>2. ChildTypes'
    BY <1>0, <1>27, SMTT(20) DEF ChildTypes, PrepareSupplicant, Fails,
      AdapterAt, Fault
  <2>3. StationTypes'
    BY <1>0, <1>27, SMTT(20) DEF StationTypes, PrepareSupplicant, Fails,
      AdapterAt, Fault
  <2>4. Between'
    BY <1>0, <1>27, SMTT(20) DEF Between, PrepareSupplicant, Fails,
      AdapterAt, Fault
  <2>5. Stages'
    BY <1>0, <1>27, SMTT(20) DEF Stages, PrepareSupplicant, Fails, AdapterAt,
      Fault
  <2>6. Children'
    BY <1>0, <1>27, SMTT(20) DEF Children, PrepareSupplicant, Fails,
      AdapterAt, Fault
  <2>7. Asked'
    BY <1>0, <1>27, SMTT(20) DEF Asked, PrepareSupplicant, Fails, AdapterAt,
      Fault
  <2>8. Requests'
    BY <1>0, <1>27, SMTT(20) DEF Requests, PrepareSupplicant, Fails,
      AdapterAt, Fault
  <2>9. Steps'
    BY <1>0, <1>27, SMTT(20) DEF Steps, PrepareSupplicant, Fails, AdapterAt,
      Fault
  <2>10. Acknowledged'
    BY <1>0, <1>27, SMTT(20) DEF Acknowledged, Moved, PrepareSupplicant,
      Fails, AdapterAt, Fault
  <2>11. Completes'
    BY <1>0, <1>27, SMTT(20) DEF Completes, Moved, PrepareSupplicant, Fails,
      AdapterAt, Fault
  <2>12. Verdicts'
    BY <1>0, <1>27, SMTT(20) DEF Verdicts, Moved, Between, Completes, Stages,
      PrepareSupplicant, Fails, AdapterAt, Fault
  <2>13. FlagTypes' /\ SavedWasAssociated'
    BY <1>0, <1>27, ZenonT(40) DEF FlagTypes, SavedWasAssociated,
      PrepareSupplicant, Fails, AdapterAt, Fault
  <2> QED
    BY <2>1, <2>2, <2>3, <2>4, <2>5, <2>6, <2>7, <2>8, <2>9, <2>10, <2>11,
      <2>12, <2>13 DEF IInv, TypeOK
<1>28. CASE WriteConfig
  <2>1. RunTypes'
    BY <1>0, <1>28, SMTT(20) DEF RunTypes, WriteConfig, Fault, AdapterAt
  <2>2. ChildTypes'
    BY <1>0, <1>28, SMTT(20) DEF ChildTypes, WriteConfig, Fault, AdapterAt
  <2>3. StationTypes'
    BY <1>0, <1>28, SMTT(20) DEF StationTypes, WriteConfig, Fault, AdapterAt
  <2>4. Between'
    BY <1>0, <1>28, SMTT(20) DEF Between, WriteConfig, Fault, AdapterAt
  <2>5. Stages'
    BY <1>0, <1>28, SMTT(20) DEF Stages, WriteConfig, Fault, AdapterAt
  <2>6. Children'
    BY <1>0, <1>28, SMTT(20) DEF Children, WriteConfig, Fault, AdapterAt
  <2>7. Asked'
    BY <1>0, <1>28, SMTT(20) DEF Asked, WriteConfig, Fault, AdapterAt
  <2>8. Requests'
    BY <1>0, <1>28, SMTT(20) DEF Requests, WriteConfig, Fault, AdapterAt
  <2>9. Steps'
    BY <1>0, <1>28, SMTT(20) DEF Steps, WriteConfig, Fault, AdapterAt
  <2>10. Acknowledged'
    BY <1>0, <1>28, SMTT(20) DEF Acknowledged, Moved, WriteConfig, Fault,
      AdapterAt
  <2>11. Completes'
    BY <1>0, <1>28, SMTT(20) DEF Completes, Moved, WriteConfig, Fault,
      AdapterAt
  <2>12. Verdicts'
    BY <1>0, <1>28, SMTT(20) DEF Verdicts, Moved, Between, Completes, Stages,
      WriteConfig, Fault, AdapterAt
  <2>13. FlagTypes' /\ SavedWasAssociated'
    BY <1>0, <1>28, ZenonT(40) DEF FlagTypes, SavedWasAssociated, WriteConfig,
      Fault, AdapterAt
  <2> QED
    BY <2>1, <2>2, <2>3, <2>4, <2>5, <2>6, <2>7, <2>8, <2>9, <2>10, <2>11,
      <2>12, <2>13 DEF IInv, TypeOK
<1>29. CASE StartSupplicant
  <2>1. RunTypes'
    BY <1>0, <1>29, SMTT(20) DEF RunTypes, StartSupplicant, Fails, AdapterAt,
      AfterStart, Fault
  <2>2. ChildTypes'
    BY <1>0, <1>29, SMTT(20) DEF ChildTypes, StartSupplicant, Fails,
      AdapterAt, AfterStart, Fault
  <2>3. StationTypes'
    BY <1>0, <1>29, SMTT(20) DEF StationTypes, StartSupplicant, Fails,
      AdapterAt, AfterStart, Fault
  <2>4. Between'
    BY <1>0, <1>29, SMTT(20) DEF Between, StartSupplicant, Fails, AdapterAt,
      AfterStart, Fault
  <2>5. Stages'
    BY <1>0, <1>29, SMTT(20) DEF Stages, StartSupplicant, Fails, AdapterAt,
      AfterStart, Fault
  <2>6. Children'
    BY <1>0, <1>29, SMTT(20) DEF Children, StartSupplicant, Fails, AdapterAt,
      AfterStart, Fault
  <2>7. Asked'
    BY <1>0, <1>29, SMTT(20) DEF Asked, StartSupplicant, Fails, AdapterAt,
      AfterStart, Fault
  <2>8. Requests'
    BY <1>0, <1>29, SMTT(20) DEF Requests, StartSupplicant, Fails, AdapterAt,
      AfterStart, Fault
  <2>9. Steps'
    BY <1>0, <1>29, SMTT(20) DEF Steps, StartSupplicant, Fails, AdapterAt,
      AfterStart, Fault
  <2>10. Acknowledged'
    BY <1>0, <1>29, SMTT(20) DEF Acknowledged, Moved, StartSupplicant, Fails,
      AdapterAt, AfterStart, Fault
  <2>11. Completes'
    BY <1>0, <1>29, SMTT(20) DEF Completes, Moved, StartSupplicant, Fails,
      AdapterAt, AfterStart, Fault
  <2>12. Verdicts'
    BY <1>0, <1>29, SMTT(20) DEF Verdicts, Moved, Between, Completes, Stages,
      StartSupplicant, Fails, AdapterAt, AfterStart, Fault
  <2>13. FlagTypes' /\ SavedWasAssociated'
    BY <1>0, <1>29, ZenonT(40) DEF FlagTypes, SavedWasAssociated, StartSupplicant,
      Fails, AdapterAt, AfterStart, Fault
  <2> QED
    BY <2>1, <2>2, <2>3, <2>4, <2>5, <2>6, <2>7, <2>8, <2>9, <2>10, <2>11,
      <2>12, <2>13 DEF IInv, TypeOK
<1>30. CASE Completed
  <2>1. RunTypes'
    BY <1>0, <1>30, SMTT(20) DEF RunTypes, Completed, AdapterAt
  <2>2. ChildTypes'
    BY <1>0, <1>30, SMTT(20) DEF ChildTypes, Completed, AdapterAt
  <2>3. StationTypes'
    BY <1>0, <1>30, SMTT(20) DEF StationTypes, Steps, Completed, AdapterAt
  <2>4. Between'
    BY <1>0, <1>30, SMTT(20) DEF Between, Completed, AdapterAt
  <2>5. Stages'
    BY <1>0, <1>30, SMTT(20) DEF Stages, Completed, AdapterAt
  <2>6. Children'
    BY <1>0, <1>30, SMTT(20) DEF Children, Completed, AdapterAt
  <2>7. Asked'
    BY <1>0, <1>30, SMTT(20) DEF Asked, Completed, AdapterAt
  <2>8. Requests'
    BY <1>0, <1>30, SMTT(20) DEF Requests, Completed, AdapterAt
  <2>9. Steps'
    BY <1>0, <1>30, SMTT(20) DEF Steps, Completed, AdapterAt
  <2>10. Acknowledged'
    BY <1>0, <1>30, SMTT(20) DEF Acknowledged, Moved, Completed, AdapterAt
  <2>11. Completes'
    BY <1>0, <1>30, SMTT(20) DEF Completes, Moved, Completed, AdapterAt
  <2>12. Verdicts'
    BY <1>0, <1>30, SMTT(20) DEF Verdicts, Moved, Completed, AdapterAt
  <2>13. SavedWasAssociated'
    BY <1>0, <1>30, SMTT(20) DEF SavedWasAssociated, Completed, AdapterAt
  <2>14. FlagTypes'
    BY <1>0, <1>30, ZenonT(40) DEF FlagTypes, Completed, AdapterAt
  <2> QED
    BY <2>1, <2>2, <2>3, <2>4, <2>5, <2>6, <2>7, <2>8, <2>9, <2>10, <2>11,
      <2>12, <2>13, <2>14 DEF IInv, TypeOK
<1>31. CASE NotCompleted
  <2>1. RunTypes'
    BY <1>0, <1>31, SMTT(20) DEF RunTypes, NotCompleted, Fails, AdapterAt,
      Fault
  <2>2. ChildTypes'
    BY <1>0, <1>31, SMTT(20) DEF ChildTypes, NotCompleted, Fails, AdapterAt,
      Fault
  <2>3. StationTypes'
    BY <1>0, <1>31, SMTT(20) DEF StationTypes, NotCompleted, Fails,
      AdapterAt, Fault
  <2>4. Between'
    BY <1>0, <1>31, SMTT(20) DEF Between, NotCompleted, Fails, AdapterAt,
      Fault
  <2>5. Stages'
    BY <1>0, <1>31, SMTT(20) DEF Stages, NotCompleted, Fails, AdapterAt,
      Fault
  <2>6. Children'
    BY <1>0, <1>31, SMTT(20) DEF Children, NotCompleted, Fails, AdapterAt,
      Fault
  <2>7. Asked'
    BY <1>0, <1>31, SMTT(20) DEF Asked, NotCompleted, Fails, AdapterAt, Fault
  <2>8. Requests'
    BY <1>0, <1>31, SMTT(20) DEF Requests, NotCompleted, Fails, AdapterAt,
      Fault
  <2>9. Steps'
    BY <1>0, <1>31, SMTT(20) DEF Steps, NotCompleted, Fails, AdapterAt, Fault
  <2>10. Acknowledged'
    BY <1>0, <1>31, SMTT(20) DEF Acknowledged, Moved, NotCompleted, Fails,
      AdapterAt, Fault
  <2>11. Completes'
    BY <1>0, <1>31, SMTT(20) DEF Completes, Moved, NotCompleted, Fails,
      AdapterAt, Fault
  <2>12. Verdicts'
    BY <1>0, <1>31, SMTT(20) DEF Verdicts, Moved, Between, Completes, Stages,
      NotCompleted, Fails, AdapterAt, Fault
  <2>13. FlagTypes' /\ SavedWasAssociated'
    BY <1>0, <1>31, ZenonT(40) DEF FlagTypes, SavedWasAssociated, NotCompleted,
      Fails, AdapterAt, Fault
  <2> QED
    BY <2>1, <2>2, <2>3, <2>4, <2>5, <2>6, <2>7, <2>8, <2>9, <2>10, <2>11,
      <2>12, <2>13 DEF IInv, TypeOK
<1>32. CASE SaveProfile
  <2>1. RunTypes'
    BY <1>0, <1>32, SMTT(20) DEF RunTypes, SaveProfile, AdapterAt
  <2>2. ChildTypes'
    BY <1>0, <1>32, SMTT(20) DEF ChildTypes, SaveProfile, AdapterAt
  <2>3. StationTypes'
    BY <1>0, <1>32, SMTT(20) DEF StationTypes, SaveProfile, AdapterAt
  <2>4. Between'
    BY <1>0, <1>32, SMTT(20) DEF Between, SaveProfile, AdapterAt
  <2>5. Stages'
    BY <1>0, <1>32, SMTT(20) DEF Stages, SaveProfile, AdapterAt
  <2>6. Children'
    BY <1>0, <1>32, SMTT(20) DEF Children, SaveProfile, AdapterAt
  <2>7. Asked'
    BY <1>0, <1>32, SMTT(20) DEF Asked, SaveProfile, AdapterAt
  <2>8. Requests'
    BY <1>0, <1>32, SMTT(20) DEF Requests, SaveProfile, AdapterAt
  <2>9. Steps'
    BY <1>0, <1>32, SMTT(20) DEF Steps, SaveProfile, AdapterAt
  <2>10. Acknowledged'
    BY <1>0, <1>32, SMTT(20) DEF Acknowledged, Moved, SaveProfile, AdapterAt
  <2>11. Completes'
    BY <1>0, <1>32, SMTT(20) DEF Completes, Moved, SaveProfile, AdapterAt
  <2>12. SavedWasAssociated'
    BY <1>0, <1>32, SMTT(20) DEF SavedWasAssociated, Steps, StationTypes,
      SaveProfile, AdapterAt
  <2>13. FlagTypes' /\ Verdicts'
    BY <1>0, <1>32, ZenonT(40) DEF FlagTypes, Verdicts, Moved, SaveProfile,
      AdapterAt
  <2> QED
    BY <2>1, <2>2, <2>3, <2>4, <2>5, <2>6, <2>7, <2>8, <2>9, <2>10, <2>11,
      <2>12, <2>13 DEF IInv, TypeOK
<1>33. CASE Answer
  <2>1. RunTypes'
    BY <1>0, <1>33, SMTT(20) DEF RunTypes, Answer, AdapterAt
  <2>2. ChildTypes'
    BY <1>0, <1>33, SMTT(20) DEF ChildTypes, Answer, AdapterAt
  <2>3. FlagTypes'
    BY <1>0, <1>33, ZenonT(40) DEF FlagTypes, Answer, AdapterAt
  <2>4. StationTypes'
    BY <1>0, <1>33, SMTT(20) DEF StationTypes, Answer, AdapterAt
  <2>5. Between'
    BY <1>0, <1>33, SMTT(20) DEF Between, Answer, AdapterAt
  <2>6. Stages'
    BY <1>0, <1>33, SMTT(20) DEF Stages, Between, Children, RunTypes, Answer,
      AdapterAt
  <2>7. Children'
    BY <1>0, <1>33, SMTT(20) DEF Children, Answer, AdapterAt
  <2>8. Asked'
    BY <1>0, <1>33, SMTT(20) DEF Asked, Answer, AdapterAt
  <2>9. Requests'
    BY <1>0, <1>33, SMTT(20) DEF Requests, Answer, AdapterAt
  <2>10. Steps'
    BY <1>0, <1>33, SMTT(20) DEF Steps, Answer, AdapterAt
  <2>11. Acknowledged'
    BY <1>0, <1>33, SMTT(20) DEF Acknowledged, Moved, Steps, Requests,
      Completes, Stages, Between, Answer, AdapterAt
  <2>12. Completes'
    BY <1>0, <1>33, SMTT(20) DEF Completes, Moved, Acknowledged, Stages,
      Between, Children, RunTypes, Answer, AdapterAt
  <2>13. Verdicts' /\ SavedWasAssociated'
    BY <1>0, <1>33, ZenonT(40) DEF Verdicts, SavedWasAssociated, Moved, Answer,
      AdapterAt
  <2> QED
    BY <2>1, <2>2, <2>3, <2>4, <2>5, <2>6, <2>7, <2>8, <2>9, <2>10, <2>11,
      <2>12, <2>13 DEF IInv, TypeOK
<1>34. CASE AdapterExits
  <2>1. RunTypes'
    BY <1>0, <1>34, SMTT(20) DEF RunTypes, AdapterExits, AdapterAt
  <2>2. ChildTypes'
    BY <1>0, <1>34, SMTT(20) DEF ChildTypes, AdapterExits, AdapterAt
  <2>3. FlagTypes'
    BY <1>0, <1>34, ZenonT(40) DEF FlagTypes, AdapterExits, AdapterAt
  <2>4. StationTypes'
    BY <1>0, <1>34, SMTT(20) DEF StationTypes, AdapterExits, AdapterAt
  <2>5. Between'
    BY <1>0, <1>34, SMTT(20) DEF Between, AdapterExits, AdapterAt
  <2>6. Stages'
    BY <1>0, <1>34, SMTT(20) DEF Stages, AdapterExits, AdapterAt
  <2>7. Children'
    BY <1>0, <1>34, SMTT(20) DEF Children, AdapterExits, AdapterAt
  <2>8. Asked'
    BY <1>0, <1>34, SMTT(20) DEF Asked, AdapterExits, AdapterAt
  <2>9. Requests'
    BY <1>0, <1>34, SMTT(20) DEF Requests, AdapterExits, AdapterAt
  <2>10. Steps'
    BY <1>0, <1>34, SMTT(20) DEF Steps, AdapterExits, AdapterAt
  <2>11. Acknowledged'
    BY <1>0, <1>34, SMTT(20) DEF Acknowledged, Moved, AdapterExits, AdapterAt
  <2>12. Completes'
    BY <1>0, <1>34, SMTT(20) DEF Completes, Moved, AdapterExits, AdapterAt
  <2>13. Verdicts' /\ SavedWasAssociated'
    BY <1>0, <1>34, ZenonT(40) DEF Verdicts, SavedWasAssociated, Moved,
      AdapterExits, AdapterAt
  <2> QED
    BY <2>1, <2>2, <2>3, <2>4, <2>5, <2>6, <2>7, <2>8, <2>9, <2>10, <2>11,
      <2>12, <2>13 DEF IInv, TypeOK
<1>35. CASE AdapterCrashes
  <2>1. RunTypes'
    BY <1>0, <1>35, SMTT(20) DEF RunTypes, AdapterCrashes, Fault, AdapterAt
  <2>2. ChildTypes'
    BY <1>0, <1>35, SMTT(20) DEF ChildTypes, AdapterCrashes, Fault, AdapterAt
  <2>3. FlagTypes'
    BY <1>0, <1>35, ZenonT(40) DEF FlagTypes, AdapterCrashes, Fault, AdapterAt
  <2>4. StationTypes'
    BY <1>0, <1>35, SMTT(20) DEF StationTypes, AdapterCrashes, Fault,
      AdapterAt
  <2>5. Between'
    BY <1>0, <1>35, SMTT(20) DEF Between, AdapterCrashes, Fault, AdapterAt
  <2>6. Stages'
    BY <1>0, <1>35, SMTT(20) DEF Stages, AdapterCrashes, Fault, AdapterAt
  <2>7. Children'
    BY <1>0, <1>35, SMTT(20) DEF Children, AdapterCrashes, Fault, AdapterAt
  <2>8. Asked'
    BY <1>0, <1>35, SMTT(20) DEF Asked, AdapterCrashes, Fault, AdapterAt
  <2>9. Requests'
    BY <1>0, <1>35, SMTT(20) DEF Requests, AdapterCrashes, Fault, AdapterAt
  <2>10. Steps'
    BY <1>0, <1>35, SMTT(20) DEF Steps, AdapterCrashes, Fault, AdapterAt
  <2>11. Acknowledged'
    BY <1>0, <1>35, SMTT(20) DEF Acknowledged, Moved, AdapterCrashes, Fault,
      AdapterAt
  <2>12. Completes'
    BY <1>0, <1>35, SMTT(20) DEF Completes, Moved, AdapterCrashes, Fault,
      AdapterAt
  <2>13. Verdicts' /\ SavedWasAssociated'
    BY <1>0, <1>35, ZenonT(40) DEF Verdicts, SavedWasAssociated, Moved,
      AdapterCrashes, Fault, AdapterAt
  <2> QED
    BY <2>1, <2>2, <2>3, <2>4, <2>5, <2>6, <2>7, <2>8, <2>9, <2>10, <2>11,
      <2>12, <2>13 DEF IInv, TypeOK
<1>36. CASE UNCHANGED vars
  <2>1. FlagTypes'
    BY <1>0, <1>36, ZenonT(40) DEF FlagTypes, vars
  <2>2. RunTypes' /\ ChildTypes' /\ StationTypes' /\ Between' /\ Stages' /\
        Children' /\ Asked' /\ Requests' /\ Steps' /\ Acknowledged' /\ Completes'
        /\ Verdicts' /\ SavedWasAssociated'
    BY <1>0, <1>36, SMTT(30) DEF RunTypes, ChildTypes, StationTypes, Between,
      Stages, Children, Asked, Requests, Steps, Acknowledged, Completes,
      Verdicts, SavedWasAssociated, Moved, vars
  <2> QED
    BY <2>1, <2>2 DEF IInv, TypeOK
<1> QED
  BY <1>1, <1>2, <1>3, <1>4, <1>5, <1>6, <1>7, <1>8, <1>9, <1>10, <1>11,
    <1>12, <1>13, <1>14, <1>15, <1>16, <1>17, <1>18, <1>19, <1>20, <1>21,
    <1>22, <1>23, <1>24, <1>25, <1>26, <1>27, <1>28, <1>29, <1>30, <1>31,
    <1>32, <1>33, <1>34, <1>35, <1>36 DEF Next, Manager, Parser, Adapter

\* The inductive invariant holds before windowd starts.
LEMMA Initially == Init => IInv
<1> SUFFICES ASSUME Init
             PROVE  IInv
  OBVIOUS
<1> USE WindowAssumption DEF Init
<1>1. FlagTypes
  BY Zenon DEF FlagTypes
<1>2. RunTypes /\ ChildTypes /\ StationTypes
  BY SMTT(30) DEF RunTypes, ChildTypes, StationTypes
<1>3. Between /\ Stages /\ Children /\ Asked /\ Requests /\ Steps
  BY SMTT(30) DEF Between, Stages, Children, Asked, Requests, Steps, ParserGone
<1>4. Acknowledged /\ Completes /\ Verdicts /\ SavedWasAssociated
  BY SMTT(30) DEF Acknowledged, Completes, Verdicts, SavedWasAssociated
<1> QED
  BY <1>1, <1>2, <1>3, <1>4 DEF IInv, TypeOK

\* The inductive invariant holds in every reachable state of the window.
THEOREM WindowInvariant == Spec => []IInv
  BY Initially, InductiveStep, PTL DEF Spec

\* Every variable of windowd, its children and the station keeps its type.
THEOREM WindowTypes == Spec => []TypeOK
<1>1. IInv => TypeOK
  BY DEF IInv
<1> QED
  BY <1>1, WindowInvariant, PTL

\* A window reported applied left the station associated with, running with and
\* configured for the profile last submitted in it.
THEOREM WindowApplied == Spec => []AppliedIsStation
<1>1. IInv => AppliedIsStation
  BY DEF IInv, Verdicts, Moved, AppliedIsStation
<1> QED
  BY <1>1, WindowInvariant, PTL

\* What the next boot resumes was associated once, whatever was interrupted.
THEOREM WindowSaved == Spec => []SavedWasAssociated
<1>1. IInv => SavedWasAssociated
  BY DEF IInv
<1> QED
  BY <1>1, WindowInvariant, PTL

\* A free gate means that no child of an earlier window lives.
THEOREM WindowOrphans == Spec => []NoOrphans
<1>1. IInv => NoOrphans
  BY DEF IInv, Between, NoOrphans
<1> QED
  BY <1>1, WindowInvariant, PTL

\* An adapter never starts over the socket of a dead one.
THEOREM WindowSocket == Spec => []SocketClear
<1>1. IInv => SocketClear
  BY DEF IInv, Children, SocketClear
<1> QED
  BY <1>1, WindowInvariant, PTL

\* Only a window that received credentials, or the resume before it, changes the
\* supplicant or its file.
THEOREM WindowStation == Spec => StationKept
<1>1. IInv /\ [Next]_vars => [StationStep]_vars
  <2> SUFFICES ASSUME IInv, Next
               PROVE  StationStep
    BY DEF StationStep, vars, station
  <2> USE DEF IInv, Asked, StationStep, run, handler, work, station, children,
              AdapterAt, Returns
  <2>1. CASE Open \/ StartAdapter \/ StartParser \/ StartHelpers
    BY <2>1, SMTT(30) DEF Open, StartAdapter, StartParser, StartHelpers
  <2>2. CASE StartFails \/ ParserExited \/ GraceEnds
    BY <2>2, SMTT(30) DEF StartFails, ParserExited, GraceEnds
  <2>3. CASE Stop \/ KillChildren \/ ManagerRestarts \/ AdapterExited
    BY <2>3, ZenonT(40) DEF Stop, KillChildren, ManagerRestarts, AdapterExited
  <2>4. CASE Resume \/ Finish
    BY <2>4, SMTT(30) DEF Resume, Finish, ConfigAfter
  <2>5. CASE Deadline \/ HelperExited \/ Shutdown \/ ManagerKilled
    BY <2>5, SMTT(30) DEF Deadline, HelperExited, Shutdown, ManagerKilled
  <2>6. CASE \/ ParserListens \/ Submit \/ ReadAnswer \/ GivesUp \/ ParserExits
             \/ ParserCrashes
    BY <2>6, SMTT(30)
       DEF ParserListens, Submit, ReadAnswer, GivesUp, ParserExits, ParserCrashes
  <2>7. CASE \E p \in Profiles : Request(p)
    BY <2>7, SMTT(30) DEF Request
  <2>8. CASE \/ AdapterListens \/ Accept \/ PrepareSupplicant \/ WriteConfig
             \/ StartSupplicant
    BY <2>8, SMTT(30)
       DEF AdapterListens, Accept, PrepareSupplicant, WriteConfig, StartSupplicant
  <2>9. CASE \/ Completed \/ NotCompleted \/ SaveProfile \/ Answer \/ AdapterExits
             \/ AdapterCrashes
    BY <2>9, SMTT(30)
       DEF Completed, NotCompleted, SaveProfile, Answer, AdapterExits,
           AdapterCrashes
  <2> QED
    BY <2>1, <2>2, <2>3, <2>4, <2>5, <2>6, <2>7, <2>8, <2>9
       DEF Next, Manager, Parser, Adapter
<1> QED
  BY <1>1, WindowInvariant, PTL DEF Spec, StationKept
=============================================================================
