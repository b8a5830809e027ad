--------------------------- MODULE NandWriteProofs ---------------------------
(***************************************************************************)
(* Proofs about NandWrite for every extent, plan and profile: the types,   *)
(* and an inductive invariant that ties the snapshot, the blocks already   *)
(* handled and the block being rewritten together.  From it follow that    *)
(* the header is written last, that a block is erased only while it still  *)
(* holds what preflight read, that a verified extent holds its target and  *)
(* that cancellation leaves no block half written.                         *)
(***************************************************************************)
EXTENDS NandWrite, FiniteSetTheorems, WellFoundedInduction, TLAPS

\* The function an operation starts its snapshot with, and the extent before
\* the first session, have their types.
LEMMA InitialFunctions ==
    /\ InitialSnap \in [Block -> Content \cup {"none"}]
    /\ [b \in Block |-> Original(b)] \in [Block -> Content]
<1>1. \A b \in Block : Original(b) \in Content
  BY DEF Original, Content
<1> QED
  BY <1>1 DEF InitialSnap

\* The block numbers the header has and a session starts with.
LEMMA HeaderIsBlock == 0 \in Block
  BY WriterAssumption DEF Block

\* The type invariant is inductive: each step of the writer, the operator and
\* the medium keeps every variable in its type.
LEMMA TypeStep == TypeOK /\ [Next]_vars => TypeOK'
<1> SUFFICES ASSUME TypeOK, [Next]_vars
             PROVE  TypeOK'
  OBVIOUS
<1>1. ASSUME NEW m \in Modes, Start(m) PROVE TypeOK'
  <2>1. /\ cursor' \in 0 .. N /\ pass' \in 1 .. Passes /\ page' \in 0 .. Pages
        /\ sessions' \in 0 .. MaxSessions /\ disturbs' \in 0 .. MaxDisturb
    BY <1>1, WriterAssumption DEF Start, TypeOK, Passes
  <2>2. /\ snap' \in [Block -> Content \cup {"none"}]
        /\ flash' \in [Block -> Content]
        /\ block' \in Block /\ todo' \subseteq Changed
        /\ begun' \subseteq Block /\ verified' \subseteq Block
        /\ unread' \subseteq Block
    BY <1>1, InitialFunctions, HeaderIsBlock DEF Start, TypeOK
  <2>3. /\ pc' \in Stages /\ mode' \in Modes /\ result' \in Results
        /\ partition' \in {"none", "ro", "rw", "enabled"}
        /\ cancelled' \in BOOLEAN /\ leftover' \in BOOLEAN
    BY <1>1 DEF Start, TypeOK, Stages, Results
  <2> QED
    BY <2>1, <2>2, <2>3 DEF TypeOK
<1> USE WriterAssumption DEF TypeOK, loop, writing, world, Block, Content,
        Damage, Stages, Results, Modes, ReadOnlyModes, Passes
<1>2. CASE PreflightBlock
  BY <1>2 DEF PreflightBlock
<1>3. CASE PreflightComplete
  BY <1>3 DEF PreflightComplete
<1>4. CASE PersistEvidence
  BY <1>4 DEF PersistEvidence, EndChecked
<1>5. CASE RecheckBlock
  BY <1>5 DEF RecheckBlock
<1>6. CASE NextPass
  BY <1>6, SMTT(30) DEF NextPass, EndChecked
<1>7. CASE WritesEnabled
  BY <1>7 DEF WritesEnabled
<1>8. ASSUME NEW b \in Block, AlreadyTarget(b) PROVE TypeOK'
  BY <1>8 DEF AlreadyTarget
<1>9. ASSUME NEW b \in Block, BeforeErase(b) PROVE TypeOK'
  BY <1>9 DEF BeforeErase
<1>10. ASSUME NEW outcome \in Damage, Erase(outcome) PROVE TypeOK'
  BY <1>10 DEF Erase
<1>11. CASE VerifyBlank
  BY <1>11 DEF VerifyBlank
<1>12. ASSUME NEW ok \in BOOLEAN, ProgramPage(ok) PROVE TypeOK'
  BY <1>12 DEF ProgramPage, PagesLeft, Target, Original, Image
<1>13. CASE Readback
  BY <1>13 DEF Readback
<1>14. CASE BlocksDone
  BY <1>14 DEF BlocksDone
<1>15. CASE FinalBlock
  BY <1>15 DEF FinalBlock
<1>16. CASE ExtentVerified
  BY <1>16 DEF ExtentVerified
<1>17. CASE StopCancelled
  BY <1>17 DEF StopCancelled
<1>18. CASE Fail
  BY <1>18 DEF Fail, HalfDone
<1>19. CASE Close
  BY <1>19 DEF Close
<1>20. CASE Cancel
  BY <1>20 DEF Cancel
<1>21. CASE Killed
  BY <1>21 DEF Killed
<1>22. CASE PowerCut
  BY <1>22 DEF PowerCut, HalfDone
<1>23. ASSUME NEW b \in Block, Disturb(b) PROVE TypeOK'
  BY <1>23 DEF Disturb
<1>24. CASE UNCHANGED vars
  BY <1>24 DEF vars
<1> QED
  BY <1>1, <1>2, <1>3, <1>4, <1>5, <1>6, <1>7, <1>8, <1>9, <1>10, <1>11, <1>12,
     <1>13, <1>14, <1>15, <1>16, <1>17, <1>18, <1>19, <1>20, <1>21, <1>22,
     <1>23, <1>24 DEF Next, Writer, Progress, Environment

\* Every reachable state of the extent writer is well typed.
THEOREM NandTypes == Spec => []TypeOK
<1>1. Init => TypeOK
  <2> SUFFICES ASSUME Init PROVE TypeOK
    OBVIOUS
  <2>1. /\ cursor \in 0 .. N /\ pass \in 1 .. Passes /\ page \in 0 .. Pages
        /\ sessions \in 0 .. MaxSessions /\ disturbs \in 0 .. MaxDisturb
    BY WriterAssumption DEF Init, Passes
  <2>2. /\ snap \in [Block -> Content \cup {"none"}]
        /\ flash \in [Block -> Content]
        /\ block \in Block /\ todo \subseteq Changed
        /\ begun \subseteq Block /\ verified \subseteq Block
        /\ unread \subseteq Block
    BY InitialFunctions, HeaderIsBlock DEF Init
  <2>3. /\ pc \in Stages /\ mode \in Modes /\ result \in Results
        /\ partition \in {"none", "ro", "rw", "enabled"}
        /\ cancelled \in BOOLEAN /\ leftover \in BOOLEAN
    BY DEF Init, Stages, Results, Modes, ReadOnlyModes
  <2> QED
    BY <2>1, <2>2, <2>3 DEF TypeOK
<1> QED
  BY <1>1, TypeStep, PTL DEF Spec

\* The inductive invariant holds after every step.
LEMMA InvStep == TypeOK /\ IInv /\ [Next]_vars => IInv'
<1> SUFFICES ASSUME TypeOK, IInv, [Next]_vars
             PROVE  IInv'
  OBVIOUS
<1> USE DEF TypeOK, IInv, SnapVerdict, ReadSoFar, HandledAtTarget, BlockIsNext,
        FinalSoFar, OneOpenBlock, ResultAtEnd, VerifiedHoldsTarget,
        CancelFinishesBlock, Target, IsNext, Read, AtTarget, Active, InBlock, WriteStages,
        loop, writing, world
<1>1. ASSUME NEW m \in Modes, Start(m) PROVE IInv'
  <2>1. \A b \in Block : snap'[b] = "none"
    BY <1>1 DEF Start, InitialSnap
  <2>2. pc' = "preflight" /\ cursor' = 0 /\ begun' = {} /\ result' = "none"
    BY <1>1 DEF Start
  <2>3. \A b \in Block : ~(b < cursor')
    BY <2>2 DEF Block
  <2> QED
    BY <2>1, <2>2, <2>3
<1>2. CASE PreflightBlock
  <2>1. /\ cursor \in Block
        /\ \A b \in Block : b < cursor' => b < cursor \/ b = cursor
    BY <1>2, WriterAssumption DEF PreflightBlock, Block
  <2>2. /\ snap'[cursor] = flash[cursor]
        /\ \A b \in Block : b # cursor => snap'[b] = snap[b]
    BY <1>2, <2>1 DEF PreflightBlock
  <2>3. SnapVerdict'
    BY <1>2, <2>1, <2>2 DEF PreflightBlock, PreflightAccepts
  <2>4. flash[cursor] # "none"
    BY <2>1 DEF Content, Damage
  <2>5. ReadSoFar'
    <3>1. ASSUME NEW b \in Block, b < cursor' PROVE Read(b)'
      <4>1. CASE b = cursor
        BY <1>2, <2>1, <2>2, <2>4, <4>1 DEF PreflightBlock
      <4>2. CASE b # cursor
        BY <1>2, <2>1, <2>2, <3>1, <4>2 DEF PreflightBlock
      <4> QED
        BY <4>1, <4>2
    <3> QED
      BY <1>2, <3>1 DEF PreflightBlock
  <2> QED
    BY <1>2, <2>3, <2>5 DEF PreflightBlock
<1>3. CASE PreflightComplete
  <2>1. \A b \in Block : b < cursor
    BY <1>3, WriterAssumption DEF PreflightComplete, Block
  <2> QED
    BY <1>3, <2>1 DEF PreflightComplete
<1>4. CASE PersistEvidence
  BY <1>4 DEF PersistEvidence, EndChecked
<1>5. CASE RecheckBlock
  BY <1>5 DEF RecheckBlock
<1>6. CASE NextPass
  BY <1>6 DEF NextPass, EndChecked
<1>7. CASE WritesEnabled
  <2>1. \A b \in Block : Read(b)
    BY <1>7 DEF WritesEnabled
  <2>2. \A b \in Changed \ todo' : mode = "resume" /\ Candidate(b) /\ b \in Block
    BY <1>7, WriterAssumption DEF WritesEnabled, Block
  <2>3. \A b \in Changed \ todo' : AtTarget(b)
    BY <2>1, <2>2 DEF ResumeModes
  <2> QED
    BY <1>7, <2>1, <2>3 DEF WritesEnabled
<1>8. ASSUME NEW b \in Block, AlreadyTarget(b) PROVE IInv'
  BY <1>8 DEF AlreadyTarget, IsNext
<1>9. ASSUME NEW b \in Block, BeforeErase(b) PROVE IInv'
  BY <1>9 DEF BeforeErase, StillSnapshot
<1>10. ASSUME NEW outcome \in Damage, Erase(outcome) PROVE IInv'
  BY <1>10 DEF Erase
<1>11. CASE VerifyBlank
  BY <1>11 DEF VerifyBlank
<1>12. ASSUME NEW ok \in BOOLEAN, ProgramPage(ok) PROVE IInv'
  BY <1>12 DEF ProgramPage
<1>13. CASE Readback
  BY <1>13 DEF Readback, ReadbackAccepts
<1>14. CASE BlocksDone
  <2>1. \A b \in Block : ~(b < 0)
    BY DEF Block
  <2> QED
    BY <1>14, <2>1 DEF BlocksDone
<1>15. CASE FinalBlock
  <2>1. \A b \in Block : b < cursor' => b < cursor \/ b = cursor
    BY <1>15 DEF FinalBlock, Block
  <2> QED
    BY <1>15, <2>1 DEF FinalBlock, FinalAccepts
<1>16. CASE ExtentVerified
  <2>1. \A b \in Block : b < cursor
    BY <1>16, WriterAssumption DEF ExtentVerified, Block
  <2> QED
    BY <1>16, <2>1 DEF ExtentVerified
<1>17. CASE StopCancelled
  BY <1>17 DEF StopCancelled, CancelPoints
<1>18. CASE Fail
  BY <1>18 DEF Fail, HalfDone
<1>19. CASE Close
  BY <1>19 DEF Close
<1>20. CASE Cancel
  BY <1>20 DEF Cancel
<1>21. CASE Killed
  BY <1>21 DEF Killed
<1>22. CASE PowerCut
  BY <1>22 DEF PowerCut, HalfDone
<1>23. ASSUME NEW b \in Block, Disturb(b) PROVE IInv'
  BY <1>23 DEF Disturb
<1>24. CASE UNCHANGED vars
  BY <1>24 DEF vars
<1> QED
  BY <1>1, <1>2, <1>3, <1>4, <1>5, <1>6, <1>7, <1>8, <1>9, <1>10, <1>11, <1>12, <1>13, <1>14, <1>15, <1>16, <1>17, <1>18, <1>19, <1>20, <1>21, <1>22, <1>23, <1>24
     DEF Next, Writer, Progress, Environment

\* The inductive invariant holds before the first session.
LEMMA InvInit == Init => IInv
  BY DEF Init, IInv, SnapVerdict, ReadSoFar, HandledAtTarget, BlockIsNext,
     FinalSoFar, OneOpenBlock, ResultAtEnd, VerifiedHoldsTarget,
     CancelFinishesBlock, Active, InBlock, WriteStages, InitialSnap

\* The inductive invariant: snapshot verdicts, blocks read, blocks handled, the
\* block being rewritten, and the results drawn from them.
THEOREM NandInvariant == Spec => [](TypeOK /\ IInv)
<1>1. Init => IInv
  BY InvInit
<1>2. Spec => []TypeOK
  BY NandTypes
<1> QED
  BY <1>1, <1>2, InvStep, PTL DEF Spec

\* A reported success means every block of the extent holds its target, unless
\* the medium lost it after its last read (the final pass of executePrepared).
THEOREM VerifiedExtent == Spec => []VerifiedHoldsTarget
<1>1. IInv => VerifiedHoldsTarget
  BY DEF IInv
<1> QED
  BY <1>1, NandInvariant, PTL

\* Cancelling leaves no block between its erase and its verification.
THEOREM CancelSafe == Spec => []CancelFinishesBlock
<1>1. IInv => CancelFinishesBlock
  BY DEF IInv
<1> QED
  BY <1>1, NandInvariant, PTL

\* Flash changes only in the block being rewritten, or where the medium fails.
LEMMA FlashStep ==
    ASSUME TypeOK, [Next]_vars, NEW b \in Block
    PROVE  \/ flash'[b] \in {flash[b], "foreign"}
           \/ pc \in {"erase", "program"} /\ b = block
<1> USE DEF TypeOK
<1>1. ASSUME NEW outcome \in Damage, Erase(outcome)
      PROVE  pc = "erase" /\ \A c \in Block \ {block} : flash'[c] = flash[c]
  BY <1>1 DEF Erase
<1>2. ASSUME NEW ok \in BOOLEAN, ProgramPage(ok)
      PROVE  pc = "program" /\ \A c \in Block \ {block} : flash'[c] = flash[c]
  BY <1>2 DEF ProgramPage
<1>3. ASSUME Fail \/ PowerCut
      PROVE  \/ \A c \in Block : flash'[c] = flash[c]
             \/ /\ pc \in {"erase", "program"}
                /\ \A c \in Block \ {block} : flash'[c] = flash[c]
  BY <1>3 DEF Fail, PowerCut, HalfDone
<1>4. ASSUME NEW c \in Block, Disturb(c)
      PROVE  \A d \in Block : flash'[d] \in {flash[d], "foreign"}
  BY <1>4 DEF Disturb
<1>5. CASE \/ PreflightBlock \/ PreflightComplete \/ PersistEvidence
           \/ RecheckBlock \/ NextPass \/ WritesEnabled \/ VerifyBlank
           \/ Readback \/ BlocksDone \/ FinalBlock \/ ExtentVerified
           \/ StopCancelled \/ Close \/ Cancel \/ Killed \/ UNCHANGED vars
           \/ (\E m \in Modes : Start(m))
           \/ (\E c \in Block : AlreadyTarget(c) \/ BeforeErase(c))
  <2>1. flash' = flash
    BY <1>5 DEF PreflightBlock, PreflightComplete, PersistEvidence,
       RecheckBlock, NextPass, WritesEnabled, VerifyBlank, Readback,
       BlocksDone, FinalBlock, ExtentVerified, StopCancelled, Close, Cancel,
       Killed, vars, Start, AlreadyTarget, BeforeErase
  <2> QED
    BY <2>1
<1> QED
  BY <1>1, <1>2, <1>3, <1>4, <1>5 DEF Next, Writer, Progress, Environment

\* The header is next only when nothing else is to be done.
LEMMA HeaderNextAlone ==
    ASSUME HeaderLast, IsNext(Header) PROVE todo \subseteq {Header}
  BY DEF IsNext, Precedes

\* Header-last order (Plan.WriteOrder): the header block of the flash changes
\* only after every other planned block is at the session's target.
THEOREM HeaderLastOrder == Spec => HeaderWrittenLast
<1>1. TypeOK /\ IInv /\ [Next]_vars => [HeaderStep]_vars
  <2> SUFFICES ASSUME TypeOK, IInv, [Next]_vars, HeaderLast,
                      flash'[Header] \notin {flash[Header], "foreign"},
                      NEW b \in Changed \ {Header}
               PROVE  flash[b] = Target(b) \/ b \in unread
    BY DEF HeaderStep
  <2>1. pc \in {"erase", "program"} /\ block = Header
    BY FlashStep, HeaderIsBlock DEF Header
  <2>2. IsNext(Header)
    BY <2>1 DEF IInv, BlockIsNext, InBlock
  <2>3. b \notin todo
    BY <2>2, HeaderNextAlone
  <2> QED
    BY <2>1, <2>3 DEF IInv, HandledAtTarget, WriteStages, InBlock, AtTarget
<1> QED
  BY <1>1, NandInvariant, PTL DEF Spec, HeaderWrittenLast

\* An install or a resume never starts to change a block that no longer holds
\* the original data it was planned against.
THEOREM OriginalBeforeErase == Spec => ErasesOnlyOriginal
<1>1. TypeOK /\ IInv /\ [Next]_vars => [EraseStep]_vars
  <2> SUFFICES ASSUME TypeOK, IInv, [Next]_vars, NEW b \in Block,
                      mode # "restore", flash'[b] \in Damage,
                      flash[b] \notin Damage, ~(pc = "program" /\ b = block)
               PROVE  flash[b] = "original"
    BY DEF EraseStep
  <2>1. pc = "erase" /\ b = block
    BY FlashStep DEF Damage
  <2>2. b \in Changed /\ flash[b] = snap[b] /\ flash[b] # Target(b)
        /\ snap[b] # "none"
    BY <2>1 DEF TypeOK, IInv, BlockIsNext, HandledAtTarget, WriteStages,
       InBlock, IsNext
  <2> QED
    BY <2>2 DEF IInv, SnapVerdict, Target, Original, Image
<1> QED
  BY <1>1, NandInvariant, PTL DEF Spec, ErasesOnlyOriginal

-----------------------------------------------------------------------------
\* Damage: the second invariant, on top of IInv.

\* The block of an erase/program/verify cycle is a planned block.
LEMMA BlockPlanned ==
    ASSUME TypeOK, IInv, pc \in InBlock
    PROVE  block \in Changed /\ block \in todo /\ IsNext(block)
  BY DEF TypeOK, IInv, BlockIsNext, IsNext

\* The write order is a strict total order of the blocks.
LEMMA OrderTotal ==
    /\ \A a, b \in Block : a # b => Precedes(a, b) \/ Precedes(b, a)
    /\ \A a, b \in Block : ~(Precedes(a, b) /\ Precedes(b, a))
    /\ \A a \in Block : ~Precedes(a, a)
    /\ \A a, b, c \in Block : Precedes(a, b) /\ Precedes(b, c) => Precedes(a, c)
  BY WriterAssumption DEF Precedes, Block, Header

\* Everything of the damage invariant but the shape of the extent holds after
\* every step.
LEMMA KeptStep == TypeOK /\ IInv /\ Kept /\ [Next]_vars => Kept'
<1> SUFFICES ASSUME TypeOK, IInv, Kept, [Next]_vars
             PROVE  Kept'
  OBVIOUS
<1> USE DEF TypeOK, Kept, ModeAllowed, PagesLeft, ResumeModes, SoundMediumRead, UnplannedKept, UntouchedKept,
        VerifiedKept, OpenIsBlock, WritesInOrder, CycleDamages, Lost, Target,
        InBlock, WriteStages, loop, writing, world
<1>1. ASSUME NEW m \in Modes, Start(m) PROVE Kept'
  BY <1>1 DEF Start, InitialSnap
<1>2. CASE PreflightBlock
  BY <1>2 DEF PreflightBlock
<1>3. CASE PreflightComplete
  BY <1>3 DEF PreflightComplete
<1>4. CASE PersistEvidence
  BY <1>4 DEF PersistEvidence, EndChecked
<1>5. CASE RecheckBlock
  BY <1>5 DEF RecheckBlock
<1>6. CASE NextPass
  BY <1>6 DEF NextPass, EndChecked
<1>7. CASE WritesEnabled
  <2>1. \A a \in Changed \ todo', b \in todo' : Precedes(a, b)
    BY <1>7, WriterAssumption
       DEF WritesEnabled, Candidate, Precedes, Block, Header
  <2> QED
    BY <1>7, <2>1 DEF WritesEnabled
<1>8. ASSUME NEW b \in Block, AlreadyTarget(b) PROVE Kept'
  <2>1. \A a \in todo \ {b} : Precedes(b, a)
    BY <1>8, OrderTotal, WriterAssumption DEF AlreadyTarget, IsNext, Block
  <2> QED
    BY <1>8, <2>1 DEF AlreadyTarget
<1>9. ASSUME NEW b \in Block, BeforeErase(b) PROVE Kept'
  BY <1>9 DEF BeforeErase, IInv, OneOpenBlock, Active
<1>10. ASSUME NEW outcome \in Damage, Erase(outcome) PROVE Kept'
  BY <1>10, BlockPlanned DEF Erase
<1>11. CASE VerifyBlank
  BY <1>11 DEF VerifyBlank, Damage
<1>12. ASSUME NEW ok \in BOOLEAN, ProgramPage(ok) PROVE Kept'
  BY <1>12, BlockPlanned DEF ProgramPage, PagesLeft, Damage
<1>13. CASE Readback
  <2>1. \A a \in todo \ {block} : Precedes(block, a)
    BY <1>13, BlockPlanned, OrderTotal, WriterAssumption DEF Readback, IsNext, Block
  <2> QED
    BY <1>13, <2>1 DEF Readback, ReadbackAccepts
<1>14. CASE BlocksDone
  BY <1>14 DEF BlocksDone
<1>15. CASE FinalBlock
  BY <1>15 DEF FinalBlock
<1>16. CASE ExtentVerified
  BY <1>16 DEF ExtentVerified
<1>17. CASE StopCancelled
  BY <1>17 DEF StopCancelled
<1>18. CASE Fail
  BY <1>18, BlockPlanned DEF Fail, HalfDone
<1>19. CASE Close
  BY <1>19 DEF Close
<1>20. CASE Cancel
  BY <1>20 DEF Cancel
<1>21. CASE Killed
  BY <1>21 DEF Killed
<1>22. CASE PowerCut
  BY <1>22, BlockPlanned DEF PowerCut, HalfDone
<1>23. ASSUME NEW b \in Block, Disturb(b) PROVE Kept'
  BY <1>23 DEF Disturb
<1>24. CASE UNCHANGED vars
  BY <1>24 DEF vars
<1> QED
  BY <1>1, <1>2, <1>3, <1>4, <1>5, <1>6, <1>7, <1>8, <1>9, <1>10, <1>11, <1>12,
     <1>13, <1>14, <1>15, <1>16, <1>17, <1>18, <1>19, <1>20, <1>21, <1>22,
     <1>23, <1>24 DEF Next, Writer, Progress, Environment

\* A block that does not hold the original is rewritten: a restore has put the
\* original back before it, an install or a resume has the image before it and
\* the original after it.
LEMMA Neighbours ==
    ASSUME TypeOK, IInv, Kept, pc \in InBlock, disturbs = 0
    PROVE  /\ mode = "restore" =>
                \A a \in Changed : Precedes(a, block) => flash[a] = "original"
           /\ mode # "restore" =>
                \A a \in Changed :
                   /\ Precedes(a, block) => flash[a] = "image"
                   /\ Precedes(block, a) => flash[a] = "original"
<1> Changed \subseteq Block
  BY WriterAssumption DEF Block
<1>1. ASSUME NEW a \in Changed, Precedes(a, block) PROVE flash[a] = Target(a)
  <2>1. a \notin todo
    BY <1>1, BlockPlanned DEF IsNext
  <2> QED
    BY <2>1 DEF IInv, HandledAtTarget, AtTarget, Kept, SoundMediumRead, WriteStages
<1>2. ASSUME NEW a \in Changed, Precedes(block, a), mode # "restore"
      PROVE  flash[a] = "original"
  <2>1. a \in todo
    BY <1>2, BlockPlanned, OrderTotal DEF Kept, WritesInOrder, WriteStages
  <2>2. a # block
    BY <1>2, OrderTotal
  <2>3. a \notin begun
    BY <2>1, <2>2 DEF Kept, WritesInOrder, OpenIsBlock, WriteStages
  <2>4. flash[a] = snap[a] /\ snap[a] # "none"
    BY <2>3 DEF Kept, UntouchedKept, Lost, IInv, HandledAtTarget, WriteStages
  <2>5. ~(mode \in ResumeModes /\ Candidate(a))
    BY <2>1 DEF Kept, WritesInOrder, WriteStages, ResumeModes
  <2> QED
    BY <1>2, <2>4, <2>5 DEF IInv, SnapVerdict, Original, Image, TypeOK
<1> QED
  BY <1>1, <1>2 DEF Target, Original, Image

\* Rewriting the block of the cycle keeps the shape of the extent.
LEMMA CycleShape ==
    ASSUME TypeOK, IInv, DamageInv, pc \in InBlock, NEW c \in Content,
           flash[block] # "original" \/ mode # "restore",
           flash' = [flash EXCEPT ![block] = c], disturbs' = disturbs,
           mode = "restore" => RestoreSupported
    PROVE  Shape'
<1> Changed \subseteq Block
  BY WriterAssumption DEF Block
<1> SUFFICES ASSUME disturbs = 0
             PROVE  Shape'
  BY DEF Shape
<1>1. \A a \in Changed \ {block} : flash'[a] = flash[a]
  BY DEF TypeOK
<1>2. CASE mode = "restore"
  <2>1. \A a \in Changed : Precedes(a, block) => flash'[a] = "original"
    BY <1>1, <1>2, Neighbours, OrderTotal DEF DamageInv
  <2>2. ASSUME NEW a \in Changed, NEW b \in Changed, NEW d \in Changed,
               Precedes(a, b), Precedes(b, d),
               flash'[a] # "original", flash'[d] # "original"
        PROVE  flash'[b] = "image"
    <3>1. b # block /\ d # block
      BY <2>1, <2>2, OrderTotal, Zenon
    <3>2. flash[a] # "original" /\ flash[d] # "original"
      BY <1>1, <1>2, <2>2, <3>1
    <3> QED
      BY <1>1, <2>2, <3>1, <3>2 DEF DamageInv, Shape
  <2> QED
    BY <1>2, <2>2 DEF Shape
<1>3. CASE mode # "restore"
  <2>1. \A a \in Changed :
           /\ Precedes(a, block) => flash'[a] = "image"
           /\ Precedes(block, a) => flash'[a] = "original"
    BY <1>1, <1>3, Neighbours, OrderTotal DEF DamageInv
  <2>2. \A a, b \in Changed :
           Precedes(a, b) /\ flash'[b] # "original" => flash'[a] = "image"
    BY <2>1, OrderTotal, BlockPlanned
  <2> QED
    BY <2>2 DEF Shape
<1> QED
  BY <1>2, <1>3

\* The shape of the extent survives every step.
LEMMA ShapeStep == TypeOK /\ IInv /\ DamageInv /\ [Next]_vars => Shape'
<1> SUFFICES ASSUME TypeOK, IInv, DamageInv, [Next]_vars
             PROVE  Shape'
  OBVIOUS
<1>1. mode = "restore" => RestoreSupported
  BY DEF DamageInv, Kept, ModeAllowed
<1>2. ASSUME NEW outcome \in Damage, Erase(outcome) PROVE Shape'
  <2>1. pc \in InBlock /\ (flash[block] # "original" \/ mode # "restore")
    BY <1>2, BlockPlanned DEF Erase, IInv, BlockIsNext, InBlock, Target, Original
  <2> QED
    BY <1>1, <1>2, <2>1, CycleShape DEF Erase, world, Content, InBlock
<1>3. ASSUME NEW ok \in BOOLEAN, ProgramPage(ok) PROVE Shape'
  <2>1. pc \in InBlock /\ flash[block] # "original"
    BY <1>3 DEF ProgramPage, InBlock, DamageInv, Kept, CycleDamages, Damage
  <2>2. Target(block) \in Content
    BY DEF Target, Original, Image, Content
  <2> QED
    BY <1>1, <1>3, <2>1, <2>2, CycleShape DEF ProgramPage, world, Content, Damage
<1>4. CASE Fail \/ PowerCut
  <2>1. CASE flash' = flash
    BY <1>4, <2>1 DEF Fail, PowerCut, world, DamageInv, Shape
  <2>2. CASE flash' # flash
    <3>1. PICK c \in Content : flash' = [flash EXCEPT ![block] = c]
      BY <1>4 DEF Fail, PowerCut, HalfDone, Content, Damage, TypeOK
    <3>2. pc = "erase" \/ (pc = "program" /\ PagesLeft)
      <4>1. ASSUME pc # "erase", ~(pc = "program" /\ PagesLeft)
            PROVE  flash' = flash
        <5>1. HalfDone = {}
          BY <4>1 DEF HalfDone, PagesLeft
        <5>2. flash' = [flash EXCEPT ![block] = flash[block]]
          BY <1>4, <5>1 DEF Fail, PowerCut
        <5> QED
          BY <5>2 DEF TypeOK
      <4> QED
        BY <2>2, <4>1
    <3>3. pc \in InBlock /\ (flash[block] # "original" \/ mode # "restore")
      BY <3>2, BlockPlanned DEF IInv, BlockIsNext, InBlock, Target, Original,
         DamageInv, Kept, CycleDamages, Damage
    <3> QED
      BY <1>1, <1>4, <3>1, <3>3, CycleShape DEF Fail, PowerCut, world
  <2> QED
    BY <2>1, <2>2
<1>5. ASSUME NEW b \in Block, Disturb(b) PROVE Shape'
  BY <1>5 DEF Disturb, Shape, TypeOK
<1>6. CASE \/ PreflightBlock \/ PreflightComplete \/ PersistEvidence
           \/ RecheckBlock \/ NextPass \/ WritesEnabled \/ VerifyBlank
           \/ Readback \/ BlocksDone \/ FinalBlock \/ ExtentVerified
           \/ StopCancelled \/ Close \/ Cancel \/ Killed \/ UNCHANGED vars
           \/ (\E m \in Modes : Start(m))
           \/ (\E c \in Block : AlreadyTarget(c) \/ BeforeErase(c))
  <2>1. flash' = flash /\ disturbs' = disturbs
    BY <1>6 DEF PreflightBlock, PreflightComplete, PersistEvidence,
       RecheckBlock, NextPass, WritesEnabled, VerifyBlank, Readback,
       BlocksDone, FinalBlock, ExtentVerified, StopCancelled, Close, Cancel,
       Killed, vars, world, Start, AlreadyTarget, BeforeErase
  <2> QED
    BY <2>1 DEF DamageInv, Shape
<1> QED
  BY <1>2, <1>3, <1>4, <1>5, <1>6 DEF Next, Writer, Progress, Environment

\* What an interrupted session leaves behind: the inductive invariant about
\* damage, on top of the first one.
THEOREM NandDamage == Spec => [](TypeOK /\ IInv /\ DamageInv)
<1>1. Init => DamageInv
  <2> SUFFICES ASSUME Init PROVE DamageInv
    OBVIOUS
  <2>1. \A b \in Block : flash[b] = IF b \in Changed THEN "original" ELSE "same"
    BY DEF Init, Original
  <2>2. Changed \subseteq Block
    BY WriterAssumption DEF Block
  <2>3. UnplannedKept /\ Shape
    BY <2>1, <2>2 DEF Init, UnplannedKept, Shape
  <2>4. Kept
    BY <2>3 DEF Init, Kept, ModeAllowed, SoundMediumRead, UntouchedKept,
       VerifiedKept, OpenIsBlock, WritesInOrder, CycleDamages, InitialSnap,
       ResumeModes, WriteStages, InBlock
  <2> QED
    BY <2>3, <2>4 DEF DamageInv
<1>2. TypeOK /\ IInv /\ DamageInv /\ [Next]_vars => DamageInv'
  BY KeptStep, ShapeStep DEF DamageInv
<1> QED
  BY <1>1, <1>2, NandInvariant, PTL DEF Spec

\* A set without two different elements has at most one, a set without three
\* at most two.
LEMMA SmallSets ==
    ASSUME NEW S, IsFiniteSet(S)
    PROVE  /\ (\A a, b \in S : a = b) => Cardinality(S) <= 1
           /\ (\A a, b, c \in S : a = b \/ b = c \/ a = c) => Cardinality(S) <= 2
<1>1. CASE S = {}
  BY <1>1, FS_EmptySet
<1>2. CASE S # {}
  <2>1. PICK a \in S : TRUE
    BY <1>2
  <2>2. /\ IsFiniteSet(S \ {a})
        /\ Cardinality(S \ {a}) = Cardinality(S) - 1 /\ Cardinality(S) \in Nat
    BY <2>1, FS_RemoveElement, FS_CardinalityType
  <2>3. CASE S \ {a} = {}
    BY <2>2, <2>3, FS_EmptySet
  <2>4. CASE S \ {a} # {}
    <3>1. PICK b \in S \ {a} : TRUE
      BY <2>4
    <3>2. /\ IsFiniteSet((S \ {a}) \ {b})
          /\ Cardinality((S \ {a}) \ {b}) = Cardinality(S) - 2
      <4>1. Cardinality((S \ {a}) \ {b}) = Cardinality(S \ {a}) - 1
        BY <2>2, <3>1, FS_RemoveElement
      <4> QED
        BY <2>2, <4>1, FS_RemoveElement
    <3>3. CASE (S \ {a}) \ {b} = {}
      BY <2>2, <3>1, <3>2, <3>3, FS_EmptySet
    <3>4. CASE (S \ {a}) \ {b} # {}
      BY <3>1, <3>4
    <3> QED
      BY <3>3, <3>4
  <2> QED
    BY <2>3, <2>4
<1> QED
  BY <1>1, <1>2

LEMMA BlocksFinite == ASSUME NEW S \in SUBSET Block PROVE IsFiniteSet(S)
<1>1. IsFiniteSet(Block)
  BY WriterAssumption, FS_Interval DEF Block
<1> QED
  BY <1>1, FS_Subset

\* Whatever sessions were interrupted, at most two blocks are damaged, and at
\* most one in a forward-only profile (the two passes of the write loop of
\* engine.go, a restore over an interrupted install).
THEOREM DamageStaysBounded == Spec => []DamageBounded
<1>1. TypeOK /\ DamageInv => DamageBounded
  <2> SUFFICES ASSUME TypeOK, DamageInv, disturbs = 0
               PROVE  Cardinality({b \in Block : flash[b] \in Damage})
                         <= IF RestoreSupported THEN 2 ELSE 1
    BY DEF DamageBounded
  <2> DEFINE D == {b \in Block : flash[b] \in Damage}
  <2>1. IsFiniteSet(D)
    BY BlocksFinite
  <2>2. \A b \in D : b \in Changed /\ b \in Block /\ flash[b] \notin {"original", "image"}
    BY DEF DamageInv, Kept, UnplannedKept, Lost, Damage
  <2> HIDE DEF D
  <2>3. \A a, b, c \in D : a = b \/ b = c \/ a = c
    <3>1. \A a, b, c \in D : ~(Precedes(a, b) /\ Precedes(b, c))
      BY <2>2 DEF DamageInv, Shape
    <3> QED
      BY <2>2, <3>1, OrderTotal
  <2>4. ~RestoreSupported => \A a, b \in D : a = b
    <3>1. ~RestoreSupported => \A a, b \in D : ~Precedes(a, b)
      BY <2>2 DEF DamageInv, Shape
    <3> QED
      BY <2>2, <3>1, OrderTotal
  <2>5. Cardinality(D) <= IF RestoreSupported THEN 2 ELSE 1
    BY <2>1, <2>3, <2>4, SmallSets
  <2> QED
    BY <2>5 DEF D
<1> QED
  BY <1>1, NandDamage, PTL

\* The journal names the damage: of the blocks this session found whole only
\* the one begun and not verified can be blank or half programmed (the order of
\* the before-erase and block-verified records in the write loop of engine.go).
THEOREM JournalNamesDamage == Spec => []DamageIsJournalled
<1>1. TypeOK /\ DamageInv => DamageIsJournalled
  <2> SUFFICES ASSUME TypeOK, DamageInv
               PROVE  DamageIsJournalled
    OBVIOUS
  <2>1. begun \ verified \subseteq {block} /\ IsFiniteSet(begun \ verified)
    BY BlocksFinite DEF TypeOK, DamageInv, Kept, OpenIsBlock
  <2>2. Cardinality(begun \ verified) <= 1
    BY <2>1, SmallSets
  <2>3. ASSUME NEW b \in Block, flash[b] \in Damage,
               snap[b] \notin Damage \cup {"none"}
        PROVE  b \in begun \ verified
    BY <2>3 DEF TypeOK, DamageInv, Kept, UntouchedKept, VerifiedKept, Lost,
       Damage, Target, Original, Image
  <2> QED
    BY <2>2, <2>3 DEF DamageIsJournalled
<1> QED
  BY <1>1, NandDamage, PTL

\* While blocks are to do, one of them is next: the smallest one, or the header
\* when it is alone.
LEMMA NextExists ==
    ASSUME NEW S \in SUBSET Block, S # {}
    PROVE  \E b \in S : \A a \in S : ~Precedes(a, b)
<1> DEFINE R == OpToRel(<, Nat)
<1>1. ASSUME NEW T \in SUBSET Block, T # {}
      PROVE  \E b \in T : \A a \in T : ~(a < b)
  <2>1. T \subseteq Nat
    BY WriterAssumption DEF Block
  <2>2. IsWellFoundedOn(R, Nat)
    BY NatLessThanWellFounded, Zenon
  <2>3. \A a, b \in Nat : a < b => <<a, b>> \in R
    BY DEF OpToRel
  <2> HIDE DEF R
  <2>4. \E b \in T : \A a \in T : <<a, b>> \notin R
    BY <1>1, <2>1, <2>2, WFMin
  <2> QED
    BY <2>1, <2>3, <2>4
<1>2. CASE S = {Header}
  BY <1>2, OrderTotal, HeaderIsBlock DEF Header
<1>3. CASE S # {Header}
  <2>1. PICK b \in S \ (IF HeaderLast THEN {Header} ELSE {}) :
           \A a \in S \ (IF HeaderLast THEN {Header} ELSE {}) : ~(a < b)
    BY <1>1, <1>3
  <2> QED
    BY <2>1 DEF Precedes
<1> QED
  BY <1>2, <1>3

\* A restore is never refused: what interrupted sessions left behind passes
\* every verdict of a restore while the medium itself loses nothing
\* (verifiedBlock and preflight of engine.go accept any data in a planned block,
\* and no other block was touched).
THEOREM RestoreProceeds == Spec => []RestoreNotRefused
<1>1. TypeOK /\ IInv /\ DamageInv => RestoreNotRefused
  <2> SUFFICES ASSUME TypeOK, IInv, DamageInv, disturbs = 0, mode = "restore"
               PROVE  RestoreNotRefused
    BY DEF RestoreNotRefused
  <2>1. \A b \in Block \ Changed : flash[b] = Original(b)
    BY DEF DamageInv, Kept, UnplannedKept, Lost, Original
  <2>2. \A b \in Block \ begun : snap[b] # "none" => flash[b] = snap[b]
    BY DEF DamageInv, Kept, UntouchedKept, Lost
  <2>3. ASSUME cursor < N PROVE cursor \in Block
    BY <2>3, WriterAssumption DEF TypeOK, Block
  <2>4. ASSUME pc = "preflight", cursor < N PROVE PreflightAccepts(cursor)
    BY <2>1, <2>3, <2>4 DEF PreflightAccepts, ResumeModes
  <2>5. ASSUME pc = "recheck", cursor < N PROVE flash[cursor] = snap[cursor]
    BY <2>2, <2>3, <2>5 DEF IInv, ReadSoFar, Read, DamageInv, Kept, WritesInOrder
  <2>6. ASSUME pc = "choose", todo # {}
        PROVE  \E b \in todo : IsNext(b) /\ StillSnapshot(b)
    <3>1. todo \subseteq Block
      BY WriterAssumption DEF TypeOK, Block
    <3>2. PICK b \in todo : IsNext(b)
      BY <2>6, <3>1, NextExists DEF IsNext
    <3>3. b \notin begun
      BY <2>6, <3>2 DEF IInv, OneOpenBlock, Active, InBlock, DamageInv, Kept,
         WritesInOrder, WriteStages
    <3> QED
      BY <2>2, <2>6, <3>1, <3>2, <3>3
         DEF IInv, HandledAtTarget, WriteStages, StillSnapshot
  <2>7. ASSUME pc = "final", cursor < N PROVE FinalAccepts(cursor)
    <3>1. CASE cursor \in Changed
      BY <2>7, <3>1 DEF FinalAccepts, IInv, HandledAtTarget, AtTarget,
         WriteStages, DamageInv, Kept, WritesInOrder, SoundMediumRead
    <3>2. CASE cursor \notin Changed
      BY <2>1, <2>3, <2>7, <3>2 DEF FinalAccepts, Target
    <3> QED
      BY <3>1, <3>2
  <2> QED
    BY <2>4, <2>5, <2>6, <2>7 DEF RestoreNotRefused
<1> QED
  BY <1>1, NandDamage, PTL

\* No session, whatever its mode and however it ended, changes a block that the
\* plan leaves alone: erase and program only ever name a block of the write
\* order (Plan.WriteOrder).
THEOREM UnplannedUntouched == Spec => []UnplannedBlocksKept
<1>1. DamageInv => UnplannedBlocksKept
  BY DEF DamageInv, Kept, UnplannedKept, Lost, UnplannedBlocksKept
<1> QED
  BY <1>1, NandDamage, PTL
=============================================================================
