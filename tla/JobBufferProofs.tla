-------------------------- MODULE JobBufferProofs --------------------------
(* SettledIsLatest, TornIsTransient and MeetOnlyAfterOverrun hold for any  *)
(* set of members, any number of jobs and any assignment of jobs to pools. *)
(* None of them is inductive: what carries them is IInv, which says which  *)
(* slot holds what in each phase of setJob, and what a copy that is still  *)
(* current can have seen.                                                   *)
EXTENDS JobBuffer, TLAPS

\* The job the active slot holds.
Published == IF wpc = "write" THEN jobs - 1 ELSE jobs

\* Phases of setJob: the bump is the last step of a publication.
SequenceCounts == /\ wpc # "idle" => jobs > 0
                  /\ sequence = IF wpc = "idle" THEN jobs ELSE jobs - 1

SlotsHold ==
    /\ \A p \in Parts : slot[readIndex][p] = Published
    /\ wpc = "write" => \A p \in written : slot[1 - readIndex][p] = jobs
    /\ wpc = "bump" => \A p \in Parts : slot[1 - readIndex][p] = jobs - 1

\* A copy begun since the last bump has seen one slot only.
CopyIsOneSlot ==
    rpc = "copy" /\ localSequence = sequence =>
        /\ wpc # "bump" => readIdx = readIndex
        /\ \A p \in copied : local[p] = slot[readIdx][p]

LoopingHolds ==
    Looping /\ localSequence = sequence =>
        /\ wpc # "bump" => \A p \in Parts : local[p] = sequence
        /\ Whole(local)

IInv == /\ TypeOK /\ SequenceCounts /\ localSequence <= sequence
        /\ SlotsHold /\ CopyIsOneSlot /\ LoopingHolds
-----------------------------------------------------------------------------
(* The initial state satisfies the inductive invariant. *)
LEMMA InitIInv == Init => IInv
  BY PartsAssumption, MaxJobsAssumption, SMT
  DEF Init, IInv, TypeOK, SequenceCounts, SlotsHold, CopyIsOneSlot, LoopingHolds,
      Looping, Whole, Copy, Job, Published

(* Every step of setJob keeps it. *)
LEMMA PublisherIInv == IInv /\ Publisher => IInv'
<1> USE MaxJobsAssumption
    DEF IInv, TypeOK, SequenceCounts, SlotsHold, CopyIsOneSlot, LoopingHolds,
        Looping, Whole, Job, Published, workerVars
<1>1. IInv /\ BeginSetJob => IInv'
  BY DEF BeginSetJob
<1>2. ASSUME NEW p \in Parts, IInv, WritePart(p) PROVE IInv'
  <2>1. slot'[readIndex] = slot[readIndex]
    BY <1>2 DEF WritePart
  <2>2. \A q \in Parts : slot'[1 - readIndex][q]
                       = IF q = p THEN jobs ELSE slot[1 - readIndex][q]
    BY <1>2 DEF WritePart
  <2>3. TypeOK'
    BY <1>2 DEF WritePart
  <2> QED BY <1>2, <2>1, <2>2, <2>3 DEF WritePart
<1>3. IInv /\ FlipIndex => IInv'
  BY DEF FlipIndex
<1>4. IInv /\ BumpSequence => IInv'
  BY DEF BumpSequence
<1> QED BY <1>1, <1>2, <1>3, <1>4 DEF Publisher, FinishSetJob

(* Every step of the worker keeps it. *)
LEMMA ReaderIInv == IInv /\ Reader => IInv'
<1> USE MaxJobsAssumption, PoolOfAssumption, PartsAssumption
    DEF IInv, TypeOK, SequenceCounts, SlotsHold, CopyIsOneSlot, LoopingHolds,
        Looping, Whole, Job, Published, pubVars
<1>1. IInv /\ LoadSequence => IInv'
  BY DEF LoadSequence
<1>2. IInv /\ LoadIndex => IInv'
  BY DEF LoadIndex
<1>3. ASSUME NEW p \in Parts, IInv, CopyPart(p) PROVE IInv'
  BY <1>3 DEF CopyPart
<1>4. ASSUME IInv, Adopt PROVE IInv'
  <2>1. TypeOK' /\ SequenceCounts' /\ (localSequence <= sequence)' /\ SlotsHold'
    BY <1>4 DEF Adopt
  <2>2. CopyIsOneSlot'
    BY <1>4 DEF Adopt
  <2>3. LoopingHolds'
    <3> SUFFICES ASSUME localSequence = sequence
                 PROVE  /\ wpc # "bump" => \A p \in Parts : local[p] = sequence
                        /\ Whole(local)
      BY <1>4 DEF Adopt
    <3>1. \A p \in Parts : local[p] = slot[readIdx][p]
      BY <1>4 DEF Adopt
    <3>2. wpc # "bump" => \A p \in Parts : slot[readIdx][p] = sequence
      BY <1>4 DEF Adopt
    <3>3. wpc = "bump" => \A p, q \in Parts : slot[readIdx][p] = slot[readIdx][q]
      BY <1>4 DEF Adopt
    <3> QED BY <3>1, <3>2, <3>3
  <2> QED BY <2>1, <2>2, <2>3
<1>5. IInv /\ Hash => IInv'
  BY DEF Hash
<1> QED BY <1>1, <1>2, <1>3, <1>4, <1>5 DEF Reader

(* IInv is an invariant of the specification. *)
THEOREM Invariance == Spec => []IInv
<1>1. IInv /\ [Next]_vars => IInv'
  <2>1. IInv /\ UNCHANGED vars => IInv'
    BY DEF vars, pubVars, workerVars, IInv, TypeOK, SequenceCounts, SlotsHold,
           CopyIsOneSlot, LoopingHolds, Looping, Whole, Published
  <2> QED BY <2>1, PublisherIInv, ReaderIInv DEF Next
<1> QED BY <1>1, InitIInv, PTL DEF Spec

(* The variables keep their types: in particular the sequence number never *)
(* runs ahead of the jobs published (Worker.cpp:105).                       *)
THEOREM TypeCorrect == Spec => []TypeOK
<1>1. IInv => TypeOK BY DEF IInv
<1> QED BY <1>1, Invariance, PTL

(* Once the publisher is out of setJob and the sequence numbers agree, the *)
(* worker has the newest job (Worker.cpp:97-106 against 140-144).           *)
THEOREM SettledJob == Spec => []SettledIsLatest
<1>1. IInv => SettledIsLatest
  <2> SUFFICES ASSUME IInv, Looping, wpc = "idle", localSequence = sequence
               PROVE  local = Copy(jobs)
    BY DEF SettledIsLatest
  <2>1. \A p \in Parts : local[p] = jobs
    BY DEF IInv, LoopingHolds, SequenceCounts
  <2> QED BY <2>1 DEF IInv, TypeOK, Copy
<1> QED BY <1>1, Invariance, PTL

(* A torn localJob is always replaced at the next job check. *)
THEOREM TearsAreTransient == Spec => []TornIsTransient
<1>1. IInv => TornIsTransient BY DEF IInv, LoopingHolds, TornIsTransient
<1> QED BY <1>1, Invariance, PTL

(* Publisher and worker are on one slot only after a whole setJob has      *)
(* completed under the copy (Worker.h:53-58).                               *)
THEOREM MeetingNeedsOverrun == Spec => []MeetOnlyAfterOverrun
<1>1. IInv => MeetOnlyAfterOverrun
  BY DEF IInv, TypeOK, Job, CopyIsOneSlot, MeetOnlyAfterOverrun
<1> QED BY <1>1, Invariance, PTL
=============================================================================
