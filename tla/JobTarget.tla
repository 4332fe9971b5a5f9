------------------------------- MODULE JobTarget -------------------------------
(***************************************************************************)
(* Job::setTarget and the test of a hash against it.  A pool sends the     *)
(* target in four bytes, as the largest 32-bit number divided by the       *)
(* difficulty, or in eight.  The four bytes are turned into a difficulty,  *)
(* that into a 64-bit target and that into a difficulty again, each time   *)
(* by a division that rounds down.                                          *)
(***************************************************************************)
EXTENDS Integers

CONSTANT Half   \* 2^32: a half of uint64_t

ASSUME HalfAssumption == Half \in Nat /\ Half > 1

HalfTop == Half - 1             \* 0xFFFFFFFF
Top     == Half * Half - 1      \* 0xFFFFFFFFFFFFFFFF

\* What hexToBytes makes of the text, little-endian.  Bytes of any other
\* number than four or eight are not looked at.
Texts == [bytes : {4}, value : 0..HalfTop] \cup [bytes : {8}, value : 0..Top]
             \cup [bytes : (0..7) \ {4}, value : {0}]

VARIABLES
    text,       \* the target as the pool sent it
    target,     \* m_target
    diff,       \* m_diff
    hash,       \* the last 64 bits of the hash just tested, or -1
    found,      \* it is a share
    actualDiff  \* JobResult::actualDiff

targetVars == <<text, target, diff, hash, found, actualDiff>>

InitTarget ==
    /\ text \in Texts /\ target = 0 /\ diff = 0     \* a Job before its constructor's body
    /\ hash = -1 /\ found = FALSE /\ actualDiff = 0

\* Mutant: the target is the four bytes in the upper half of the word.
ExpandShifted(compact) == compact * Half

Expand(compact) == Top \div (HalfTop \div compact)

SetCompact ==
    /\ text.bytes = 4 /\ target = 0
    /\ IF text.value = 0
       THEN target' = Top /\ diff' = 0
       ELSE target' = Expand(text.value) /\ diff' = Top \div target'
    /\ UNCHANGED <<text, hash, found, actualDiff>>

\* Zero and what is neither four nor eight bytes leave the job invalid.
SetWide ==
    /\ text.bytes = 8 /\ text.value > 0 /\ target = 0
    /\ target' = text.value /\ diff' = Top \div target'
    /\ UNCHANGED <<text, hash, found, actualDiff>>

\* The worker hashes for a valid job only.
TestHash(h) ==
    /\ diff > 0 /\ hash = -1
    /\ hash' = h
    /\ found' = (h < target)
    /\ actualDiff' = IF h < target /\ h > 0 THEN Top \div h ELSE 0
    /\ UNCHANGED <<text, target, diff>>

NextTarget == SetCompact \/ SetWide \/ \E h \in 0..Top : TestHash(h)
TargetSpec == InitTarget /\ [][NextTarget]_targetVars
-----------------------------------------------------------------------------
\* The difficulty of a hash, as pools count it.
MeetsDifficulty(h, d) == h = 0 \/ Top \div h >= d

(* No rounding costs the miner a share or sends the pool a bad one: the     *)
(* difficulty that four bytes stand for comes out of both divisions as it   *)
(* went in; a hash is reported only if it has the job's difficulty; and     *)
(* with four bytes every hash that has it is reported, but for the one that *)
(* is equal to the target (Job.cpp:35-57, Worker.cpp:200-206).              *)
TargetIsDifficulty ==
    /\ text.bytes = 4 /\ target > 0 /\ text.value > 0 => diff = HalfTop \div text.value
    /\ found => MeetsDifficulty(hash, diff) /\ (hash > 0 => actualDiff >= diff)
    /\ text.bytes = 4 /\ hash >= 0 /\ MeetsDifficulty(hash, diff) => found \/ hash = target
=============================================================================
