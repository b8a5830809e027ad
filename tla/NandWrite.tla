------------------------------ MODULE NandWrite ------------------------------
(***************************************************************************)
(* The guarded NAND extent writer of tools/nand-inspect: one operator      *)
(* session at a time (preflight, check-map, resume-preflight, install,     *)
(* restore or resume) reads the whole extent, maps a temporary partition,  *)
(* re-reads the extent around every step of that mapping and then erases,  *)
(* programs and verifies the changed blocks one by one, the block that     *)
(* holds the filesystem header last.  Any call may fail, the operator may  *)
(* cancel, the process may be killed, power may be cut, and the medium may *)
(* lose a block between two reads of it.                                   *)
(*                                                                         *)
(* Block contents are abstract: the original data, the image, an erased    *)
(* block, a partly erased or programmed one, and data nobody planned.      *)
(***************************************************************************)
EXTENDS Integers, FiniteSets

CONSTANTS
    N,                 \* number of erase blocks in the extent (Blocks)
    Changed,           \* the blocks whose image differs from the original
    Pages,             \* pages of a block that hold data
    HeaderLast,        \* profile: block 0 is written after all others
    RestoreSupported,  \* profile: restoring the original is permitted
    ResumeSupported,   \* profile: the fixed mixed-state resume is permitted
    LastCandidate,     \* resumeLastCandidate
    MaxSessions,       \* bound: operator sessions in a behaviour
    MaxDisturb         \* bound: blocks the medium loses in a behaviour

Block == 0 .. N - 1
Header == 0

\* A resume plan is refused unless every block changes and the header is last.
ASSUME WriterAssumption ==
    /\ N \in Nat \ {0}
    /\ Changed \subseteq 0 .. N - 1
    /\ Pages \in Nat \ {0}
    /\ HeaderLast \in BOOLEAN
    /\ RestoreSupported \in BOOLEAN
    /\ ResumeSupported \in BOOLEAN
    /\ LastCandidate \in Nat
    /\ ResumeSupported => HeaderLast /\ Changed = 0 .. N - 1
    /\ MaxSessions \in Nat
    /\ MaxDisturb \in Nat

Damage == {"blank", "partial"}
Content == {"same", "original", "image", "foreign"} \cup Damage

ReadOnlyModes == {"preflight", "check-map", "resume-preflight"}
Modes == ReadOnlyModes \cup {"install", "restore", "resume"}
ResumeModes == {"resume-preflight", "resume"}

\* Reading passes of EnableWrites over the extent: recheck, (create) compare,
\* recheck; recheck, (open read-write) compare, recheck.
Passes == 6

VARIABLES
    flash,      \* what each block holds
    pc,         \* the stage of the session
    mode,       \* the action the operator chose
    snap,       \* Snapshot.Hashes: what preflight read, "none" before
    cursor,     \* the index of the loop over all blocks
    pass,       \* which reading pass of EnableWrites runs
    partition,  \* "none", "ro", "rw" (open, unqualified) or "enabled"
    todo,       \* blocks of the write order not yet handled
    block,      \* the block being rewritten
    page,       \* its pages programmed so far
    begun,      \* blocks journalled before-erase in this session
    verified,   \* blocks journalled block-verified in this session
    cancelled,  \* ctx is done
    result,     \* how the session ended
    leftover,   \* a temporary partition of an ended session is still listed
    sessions,   \* sessions started
    unread,     \* blocks the medium changed since the writer last read them
    disturbs    \* blocks the medium has lost

vars == <<flash, pc, mode, snap, cursor, pass, partition, todo, block, page,
          begun, verified, cancelled, result, leftover, sessions, unread,
          disturbs>>

loop   == <<cursor, pass>>
writing == <<todo, block, page, begun, verified>>
world  == <<leftover, sessions, disturbs>>

Original(b) == IF b \in Changed THEN "original" ELSE "same"
Image(b)    == IF b \in Changed THEN "image" ELSE "same"

\* verifiedBlock(index, restore): what the session means the block to hold.
Target(b) == IF mode = "restore" THEN Original(b) ELSE Image(b)

\* resumeCandidateBlock
Candidate(b) == 1 <= b /\ b <= LastCandidate

\* The order of Plan.WriteOrder: ascending, the header after all others when
\* the profile says so.  b is next when no block still to do precedes it.
Precedes_HeaderFirst(a, b) == a < b
Precedes(a, b) ==
    IF HeaderLast THEN a # Header /\ (b = Header \/ a < b) ELSE a < b
IsNext(b) == b \in todo /\ \A a \in todo : ~Precedes(a, b)

\* What preflight demands of a block: the original, except that a restore
\* accepts any data in a planned block and a resume demands the mixed state.
PreflightAccepts_AnyPlanned(b) == b \in Changed \/ flash[b] = Original(b)
PreflightAccepts_OnlyOriginal(b) == flash[b] = Original(b)
PreflightAccepts(b) ==
    \/ mode = "restore" /\ b \in Changed
    \/ mode \in ResumeModes /\ Candidate(b) /\ flash[b] = Image(b)
    \/ ~(mode \in ResumeModes /\ Candidate(b)) /\ flash[b] = Original(b)

\* What the write loop demands of a block it reads again.
StillSnapshot_Trusting(b) == TRUE
StillSnapshot(b) == flash[b] = snap[b]

\* More pages of the block are to be programmed.
PagesLeft_OneMore == page <= Pages
PagesLeft == page < Pages

\* What the readback of the block just programmed must show.
ReadbackAccepts_Blind == TRUE
ReadbackAccepts == flash[block] = Target(block)

\* What the final pass must show: every block of the extent, written or not.
FinalAccepts_TrustVerified(b) == b \in verified \/ flash[b] = Target(b)
FinalAccepts(b) == flash[b] = Target(b)

\* The points where ctx.Err() is looked at.
CancelPoints_InsideBlock ==
    {"preflight", "evidence", "recheck", "choose", "erase", "blank", "program",
     "final"}
CancelPoints == {"preflight", "evidence", "recheck", "choose", "erase", "final"}

-----------------------------------------------------------------------------

InitialSnap == [b \in Block |-> "none"]

Init ==
    /\ flash = [b \in Block |-> Original(b)]
    /\ pc = "closed"
    /\ mode = "preflight"
    /\ snap = InitialSnap
    /\ cursor = 0 /\ pass = 1
    /\ partition = "none"
    /\ todo = {} /\ block = 0 /\ page = 0
    /\ begun = {} /\ verified = {}
    /\ cancelled = FALSE
    /\ result = "none"
    /\ leftover = FALSE
    /\ sessions = 0
    /\ unread = {}
    /\ disturbs = 0

\* hardware, dispatchHardware, OpenMTD and the start of preflight.  The topology
\* check refuses a session while a partition of an earlier one is listed.
Start(m) ==
    /\ pc = "closed"
    /\ ~leftover
    /\ sessions < MaxSessions
    /\ m = "restore" => RestoreSupported
    /\ m \in ResumeModes => ResumeSupported
    /\ mode' = m
    /\ pc' = "preflight"
    /\ snap' = InitialSnap
    /\ cursor' = 0 /\ pass' = 1
    /\ todo' = {} /\ block' = 0 /\ page' = 0
    /\ begun' = {} /\ verified' = {}
    /\ cancelled' = FALSE
    /\ result' = "none"
    /\ sessions' = sessions + 1
    /\ UNCHANGED <<flash, partition, leftover, unread, disturbs>>

\* One turn of the preflight loop: status check, read, verdict, journal.
PreflightBlock ==
    /\ pc = "preflight" /\ ~cancelled
    /\ cursor < N
    /\ PreflightAccepts(cursor)
    /\ snap' = [snap EXCEPT ![cursor] = flash[cursor]]
    /\ unread' = unread \ {cursor}
    /\ cursor' = cursor + 1
    /\ UNCHANGED <<flash, pc, mode, pass, partition, writing, cancelled,
                   result, world>>

PreflightComplete ==
    /\ pc = "preflight"
    /\ cursor = N
    /\ pc' = "evidence"
    /\ UNCHANGED <<flash, mode, snap, loop, partition, writing, cancelled,
                   result, world, unread>>

\* End of a session that only reads: success without a write.
EndChecked ==
    /\ pc' = "closing"
    /\ result' = "checked"

\* persistEvidence.  check-map and the writing modes go on to the mapping.
PersistEvidence ==
    /\ pc = "evidence"
    /\ \/ mode \in {"preflight", "resume-preflight"} /\ EndChecked
          /\ UNCHANGED loop
       \/ mode \notin {"preflight", "resume-preflight"} /\ ~cancelled
          /\ pc' = "recheck" /\ cursor' = 0 /\ pass' = 1
          /\ UNCHANGED result
    /\ UNCHANGED <<flash, mode, snap, partition, writing, cancelled, world,
                   unread>>

\* recheckMappingState and comparePartition: every block must still hold what
\* preflight read.
RecheckBlock ==
    /\ pc = "recheck" /\ ~cancelled
    /\ cursor < N
    /\ flash[cursor] = snap[cursor]
    /\ unread' = unread \ {cursor}
    /\ cursor' = cursor + 1
    /\ UNCHANGED <<flash, pc, mode, snap, pass, partition, writing, cancelled,
                   result, world>>

\* What stands between two passes: makePartition after the first, the end of
\* check-map after the third, the exchange of descriptors after the fifth.
NextPass ==
    /\ pc = "recheck" /\ ~cancelled
    /\ cursor = N
    /\ pass < Passes
    /\ IF mode = "check-map" /\ pass = 3
       THEN EndChecked /\ UNCHANGED <<cursor, pass, partition>>
       ELSE /\ cursor' = 0 /\ pass' = pass + 1
            /\ partition' = CASE pass = 1 -> "ro"
                              [] pass = 5 -> "rw"
                              [] OTHER -> partition
            /\ UNCHANGED <<pc, result>>
    /\ UNCHANGED <<flash, mode, snap, writing, cancelled, world, unread>>

\* The end of EnableWrites and the start of the write loop.  A resume leaves
\* the candidate blocks out of the write order.
WritesEnabled ==
    /\ pc = "recheck" /\ ~cancelled
    /\ cursor = N /\ pass = Passes
    /\ partition' = "enabled"
    /\ todo' = IF mode = "resume"
               THEN {b \in Changed : ~Candidate(b)} ELSE Changed
    /\ pc' = "choose"
    /\ UNCHANGED <<flash, mode, snap, loop, block, page, begun, verified,
                   cancelled, result, world, unread>>

\* The head of the write loop: the block is read again and must match the
\* snapshot; a block that already holds the target is skipped.
AlreadyTarget(b) ==
    /\ pc = "choose" /\ ~cancelled
    /\ IsNext(b)
    /\ StillSnapshot(b)
    /\ flash[b] = Target(b)
    /\ todo' = todo \ {b}
    /\ unread' = unread \ {b}
    /\ UNCHANGED <<flash, pc, mode, snap, loop, partition, block, page, begun,
                   verified, cancelled, result, world>>

BeforeErase(b) ==
    /\ pc = "choose" /\ ~cancelled
    /\ IsNext(b)
    /\ StillSnapshot(b)
    /\ flash[b] # Target(b)
    /\ block' = b
    /\ begun' = begun \cup {b}
    /\ unread' = unread \ {b}
    /\ pc' = "erase"
    /\ UNCHANGED <<flash, mode, snap, loop, partition, todo, page, verified,
                   cancelled, result, world>>

\* The erase returned success; whether the block is blank is checked next.
Erase(outcome) ==
    /\ pc = "erase" /\ ~cancelled
    /\ partition = "enabled"
    /\ flash' = [flash EXCEPT ![block] = outcome]
    /\ pc' = "blank"
    /\ UNCHANGED <<mode, snap, loop, partition, writing, cancelled, result,
                   world, unread>>

\* From here to the readback a cancellation is not honoured.
VerifyBlank ==
    /\ pc = "blank"
    /\ flash[block] = "blank"
    /\ page' = 0
    /\ pc' = "program"
    /\ UNCHANGED <<flash, mode, snap, loop, partition, todo, block, begun,
                   verified, cancelled, result, world, unread>>

\* WriteAt returned success for one page; after the last page the block holds
\* the target unless some page was programmed badly.
ProgramPage(ok) ==
    /\ pc = "program"
    /\ PagesLeft
    /\ page' = page + 1
    /\ flash' = [flash EXCEPT ![block] =
                    IF ok /\ page + 1 = Pages THEN Target(block) ELSE "partial"]
    /\ UNCHANGED <<pc, mode, snap, loop, partition, todo, block, begun,
                   verified, cancelled, result, world, unread>>

\* Sync, readback, and the block-verified record.
Readback ==
    /\ pc = "program"
    /\ page = Pages
    /\ ReadbackAccepts
    /\ verified' = verified \cup {block}
    /\ todo' = todo \ {block}
    /\ pc' = "choose"
    /\ UNCHANGED <<flash, mode, snap, loop, partition, block, page, begun,
                   cancelled, result, world, unread>>

BlocksDone ==
    /\ pc = "choose"
    /\ todo = {}
    /\ pc' = "final"
    /\ cursor' = 0
    /\ UNCHANGED <<flash, mode, snap, pass, partition, writing, cancelled,
                   result, world, unread>>

\* The final pass reads every block of the extent, changed or not.
FinalBlock ==
    /\ pc = "final" /\ ~cancelled
    /\ cursor < N
    /\ FinalAccepts(cursor)
    /\ unread' = unread \ {cursor}
    /\ cursor' = cursor + 1
    /\ UNCHANGED <<flash, pc, mode, snap, pass, partition, writing, cancelled,
                   result, world>>

ExtentVerified ==
    /\ pc = "final"
    /\ cursor = N
    /\ result' = "verified"
    /\ pc' = "closing"
    /\ UNCHANGED <<flash, mode, snap, loop, partition, writing, cancelled,
                   world, unread>>

-----------------------------------------------------------------------------
\* Failure, cancellation and the end of a session

Active == pc \notin {"closed", "closing"}

StopCancelled ==
    /\ cancelled
    /\ pc \in CancelPoints
    /\ result' = "cancelled"
    /\ pc' = "closing"
    /\ UNCHANGED <<flash, mode, snap, loop, partition, writing, cancelled,
                   world, unread>>

\* What an erase or a page program that did not come to its end may leave.
HalfDone ==
    IF pc = "erase" THEN Damage
    ELSE IF pc = "program" /\ page < Pages THEN {"partial"}
    ELSE {}

\* Any call returned an error or a comparison failed.  A failed erase or
\* program may have changed the block; a failed mapping may have added the
\* partition.
Fail ==
    /\ Active
    /\ \E left \in HalfDone \cup {flash[block]} :
          flash' = [flash EXCEPT ![block] = left]
    /\ partition' \in IF pc = "recheck" /\ pass = 1 /\ cursor = N
                      THEN {"none", "ro"} ELSE {partition}
    /\ result' = "failed"
    /\ pc' = "closing"
    /\ UNCHANGED <<mode, snap, loop, writing, cancelled, world, unread>>

\* closeWithJournal and MTD.Close: descriptors are closed and the partition
\* removed; the removal may fail and is then left to a restart of the device.
Close ==
    /\ pc = "closing"
    /\ leftover' \in IF partition = "none" THEN {FALSE} ELSE BOOLEAN
    /\ partition' = "none"
    /\ pc' = "closed"
    /\ UNCHANGED <<flash, mode, snap, loop, writing, cancelled, result,
                   sessions, unread, disturbs>>

\* A signal reaches the process.
Cancel ==
    /\ Active /\ ~cancelled
    /\ cancelled' = TRUE
    /\ UNCHANGED <<flash, pc, mode, snap, loop, partition, writing, result,
                   world, unread>>

\* The process dies without running Close; the flash operation it was in ends.
Killed ==
    /\ pc # "closed"
    /\ result' = IF Active THEN "killed" ELSE result
    /\ leftover' = (leftover \/ partition # "none")
    /\ partition' = "none"
    /\ pc' = "closed"
    /\ UNCHANGED <<flash, mode, snap, loop, writing, cancelled, sessions,
                   unread, disturbs>>

\* Power is cut: the block being erased or programmed may be left half done,
\* and the device comes back without the temporary partition.
PowerCut ==
    /\ \E left \in HalfDone \cup {flash[block]} :
          flash' = [flash EXCEPT ![block] = left]
    /\ Active \/ leftover
    /\ result' = IF Active THEN "powercut" ELSE result
    /\ leftover' = FALSE
    /\ partition' = "none"
    /\ pc' = "closed"
    /\ UNCHANGED <<mode, snap, loop, writing, cancelled, sessions, unread,
                   disturbs>>

\* The medium loses a block; not the one inside its erase/program/verify cycle,
\* which lasts milliseconds.
Disturb(b) ==
    /\ disturbs < MaxDisturb
    /\ ~(pc \in {"erase", "blank", "program"} /\ b = block)
    /\ flash[b] # "foreign"
    /\ flash' = [flash EXCEPT ![b] = "foreign"]
    /\ unread' = unread \cup {b}
    /\ disturbs' = disturbs + 1
    /\ UNCHANGED <<pc, mode, snap, loop, partition, writing, cancelled, result,
                   leftover, sessions>>

Progress ==
    \/ PreflightBlock
    \/ PreflightComplete
    \/ PersistEvidence
    \/ RecheckBlock
    \/ NextPass
    \/ WritesEnabled
    \/ \E b \in Block : AlreadyTarget(b)
    \/ \E b \in Block : BeforeErase(b)
    \/ \E outcome \in Damage : Erase(outcome)
    \/ VerifyBlank
    \/ \E ok \in BOOLEAN : ProgramPage(ok)
    \/ Readback
    \/ BlocksDone
    \/ FinalBlock
    \/ ExtentVerified

Writer == Progress \/ StopCancelled \/ Fail \/ Close

Environment ==
    \/ \E m \in Modes : Start(m)
    \/ Cancel
    \/ Killed
    \/ PowerCut
    \/ \E b \in Block : Disturb(b)

Next == Writer \/ Environment

Spec == Init /\ [][Next]_vars

-----------------------------------------------------------------------------

Stages == {"closed", "closing", "preflight", "evidence", "recheck", "choose",
           "erase", "blank", "program", "final"}
Results == {"none", "checked", "verified", "failed", "cancelled", "killed",
            "powercut"}

\* Every variable has its type.
TypeOK ==
    /\ flash \in [Block -> Content]
    /\ pc \in Stages
    /\ mode \in Modes
    /\ snap \in [Block -> Content \cup {"none"}]
    /\ cursor \in 0 .. N
    /\ pass \in 1 .. Passes
    /\ partition \in {"none", "ro", "rw", "enabled"}
    /\ todo \subseteq Changed
    /\ block \in Block
    /\ page \in 0 .. Pages
    /\ begun \subseteq Block
    /\ verified \subseteq Block
    /\ cancelled \in BOOLEAN
    /\ result \in Results
    /\ leftover \in BOOLEAN
    /\ sessions \in 0 .. MaxSessions
    /\ unread \subseteq Block
    /\ disturbs \in 0 .. MaxDisturb

\* A session that reports extent-verified-no-reboot leaves every block of the
\* extent, changed or not, with the data it meant to write, unless the medium
\* lost the block after the last read of it.
VerifiedHoldsTarget ==
    result = "verified" =>
        \A b \in Block : flash[b] = Target(b) \/ b \in unread

\* No session changes a block the plan leaves alone: only the medium can.
UnplannedBlocksKept ==
    \A b \in Block \ Changed : flash[b] \in {"same", "foreign"}

\* A cancelled session leaves no block half written: each block it journalled
\* before-erase was finished and verified, or was not touched at all.
CancelFinishesBlock ==
    result = "cancelled" =>
        \A b \in begun :
            \/ b \in verified
            \/ flash[b] = snap[b]
            \/ b \in unread

\* A block this session found intact and that is now blank or half programmed
\* is the one block whose before-erase record has no block-verified record.
DamageIsJournalled ==
    /\ Cardinality(begun \ verified) <= 1
    /\ \A b \in Block :
          flash[b] \in Damage /\ snap[b] \notin Damage \cup {"none"}
             => b \in begun \ verified

\* Whatever sequence of interrupted installs, restores and resumes has run, at
\* most two blocks are neither the original nor the image, and at most one in a
\* forward-only profile, as long as the medium itself loses none.
DamageBounded ==
    disturbs = 0 =>
        Cardinality({b \in Block : flash[b] \in Damage})
           <= IF RestoreSupported THEN 2 ELSE 1

\* A restore is never refused for what an interrupted session left behind: with
\* a sound medium every block it reads passes the verdict of its stage
\* (preflight, the rechecks of the mapping, the head of the write loop, the
\* final pass), and the write loop always finds a next block.
RestoreNotRefused ==
    disturbs = 0 /\ mode = "restore" =>
        /\ pc = "preflight" /\ cursor < N => PreflightAccepts(cursor)
        /\ pc = "recheck" /\ cursor < N => flash[cursor] = snap[cursor]
        /\ pc = "choose" /\ todo # {} =>
              \E b \in todo : IsNext(b) /\ StillSnapshot(b)
        /\ pc = "final" /\ cursor < N => FinalAccepts(cursor)

\* With a header-last profile, a step that changes the header block of the
\* flash finds every other planned block already holding the session's target
\* (or lost by the medium since it was read).
HeaderStep ==
    (HeaderLast /\ flash'[Header] \notin {flash[Header], "foreign"}) =>
        \A b \in Changed \ {Header} : flash[b] = Target(b) \/ b \in unread
HeaderWrittenLast == [][HeaderStep]_vars

\* An install or a resume starts to change a block only when it still holds the
\* original data: a block that changed after preflight is never erased.
EraseStep ==
    \A b \in Block :
        (mode # "restore" /\ flash'[b] \in Damage /\ flash[b] \notin Damage)
            => flash[b] = "original" \/ (pc = "program" /\ b = block)
ErasesOnlyOriginal == [][EraseStep]_vars

-----------------------------------------------------------------------------
\* The inductive invariant behind these properties.

\* Preflight read the block and, as far as the writer has seen, it still holds
\* that.
Read(b) == snap[b] # "none" /\ (flash[b] = snap[b] \/ b \in unread)

\* The block holds the target, as far as the writer has seen.
AtTarget(b) == flash[b] = Target(b) \/ b \in unread

\* What preflight accepted of a block is what the mode demands.
SnapVerdict ==
    \A b \in Block :
        snap[b] # "none" =>
            \/ mode = "restore" /\ b \in Changed
            \/ mode \in ResumeModes /\ Candidate(b) /\ snap[b] = Image(b)
            \/ ~(mode \in ResumeModes /\ Candidate(b))
                 /\ snap[b] = Original(b)

ReadSoFar ==
    /\ pc = "preflight" => \A b \in Block : b < cursor => Read(b)
    /\ pc \in {"evidence", "recheck"} => \A b \in Block : Read(b)

InBlock == {"erase", "blank", "program"}
WriteStages == {"choose", "final"} \cup InBlock

\* The blocks of the plan that are not to do any more are at their target.
HandledAtTarget ==
    pc \in WriteStages =>
        /\ \A b \in Block : snap[b] # "none"
        /\ \A b \in Changed \ todo : AtTarget(b)

\* The block being rewritten is the next one of the order and, before its
\* erase, holds what preflight read and not the target.
BlockIsNext ==
    /\ pc \in InBlock => IsNext(block)
    /\ pc = "erase" => flash[block] = snap[block]
                         /\ flash[block] # Target(block)

FinalSoFar ==
    pc = "final" => \A b \in Block : b < cursor => AtTarget(b)

OneOpenBlock ==
    Active => begun \ verified \subseteq IF pc \in InBlock THEN {block} ELSE {}

ResultAtEnd == Active => result = "none"

IInv ==
    /\ SnapVerdict
    /\ ReadSoFar
    /\ HandledAtTarget
    /\ BlockIsNext
    /\ FinalSoFar
    /\ OneOpenBlock
    /\ ResultAtEnd
    /\ VerifiedHoldsTarget
    /\ CancelFinishesBlock
-----------------------------------------------------------------------------
\* The invariant behind the properties about damage: what an interrupted
\* session leaves behind, and what the next one makes of it.

\* The medium lost the block.
Lost(b) == flash[b] = "foreign" /\ disturbs > 0

ModeAllowed ==
    /\ mode = "restore" => RestoreSupported
    /\ mode \in ResumeModes => ResumeSupported

SoundMediumRead == disturbs = 0 => unread = {}

\* Blocks the plan leaves alone keep their data, blocks of the plan keep what
\* preflight read until they are journalled, and hold the target once they are
\* verified; also after the session has ended.
UnplannedKept == \A b \in Block \ Changed : flash[b] = "same" \/ Lost(b)
UntouchedKept ==
    \A b \in Block \ begun : snap[b] = "none" \/ flash[b] = snap[b] \/ Lost(b)
VerifiedKept == \A b \in verified : flash[b] = Target(b) \/ Lost(b)

\* The one block without a block-verified record is the last one begun.
OpenIsBlock ==
    /\ begun \ verified \subseteq {block}
    /\ pc \in InBlock => block \in begun

\* A write session goes once through the order: nothing is journalled before
\* it writes, what it verified it does not do again, all it has handled precedes
\* all that is left, and a resume leaves the candidates alone.
WritesInOrder ==
    /\ pc \in {"preflight", "evidence", "recheck"} => begun = {} /\ verified = {}
    /\ pc \in WriteStages \cup {"recheck"} =>
          mode \notin {"preflight", "resume-preflight"}
    /\ pc \in WriteStages =>
          /\ mode = "resume" => \A a \in todo : ~Candidate(a)
          /\ verified \cap todo = {}
          /\ \A a \in Changed \ todo, b \in todo : Precedes(a, b)
    /\ pc = "final" => todo = {}

\* A block with pages left to program is not whole.
CycleDamages == pc = "program" /\ PagesLeft => flash[block] \in Damage

\* The shape of the extent in write order, however sessions were interrupted:
\* originals a restore put back, images, originals never replaced, with at
\* most one damaged block at each of the two borders; what lies between two
\* blocks that do not hold the original holds the image.  A forward-only
\* profile has only the second border.
Shape ==
    disturbs = 0 =>
        /\ \A a, b, c \in Changed :
              Precedes(a, b) /\ Precedes(b, c)
                /\ flash[a] # "original" /\ flash[c] # "original"
                   => flash[b] = "image"
        /\ ~RestoreSupported =>
              \A a, b \in Changed :
                 Precedes(a, b) /\ flash[b] # "original" => flash[a] = "image"

Kept ==
    /\ ModeAllowed
    /\ SoundMediumRead
    /\ UnplannedKept
    /\ UntouchedKept
    /\ VerifiedKept
    /\ OpenIsBlock
    /\ WritesInOrder
    /\ CycleDamages

DamageInv == Kept /\ Shape
=============================================================================
