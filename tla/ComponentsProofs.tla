-------------------------- MODULE ComponentsProofs --------------------------
(***************************************************************************)
(* The components that share no state, side by side: whichever moves, each *)
(* makes a step of its own or none, so that what was proved of each holds  *)
(* of them all.  The proofs about the trace guard are in HeavyPathProofs.  *)
(***************************************************************************)
EXTENDS MCComponents, SessionProofs, ActionReviewProofs

\* A step of one component leaves the others alone.
LEMMA OneMoves ==
    ASSUME [ComponentsNext]_componentVars
    PROVE  /\ [DiscoveryNext]_discoveryVars /\ [TransportNext]_transportVars
           /\ [MemoryNext]_memoryVars /\ [ArchiveNext]_archiveVars /\ [ReviewNext]_reviewVars
<1>1. CASE DiscoveryPart
  BY <1>1 DEF DiscoveryPart
<1>2. CASE ReaderPart
  BY <1>2 DEF ReaderPart, TransportNext, SomebodySends
<1>3. CASE SubscriberPart
  BY <1>3 DEF SubscriberPart, TransportNext, SomebodySends
<1>4. CASE MemoryPart
  BY <1>4 DEF MemoryPart
<1>5. CASE ArchivePart
  BY <1>5 DEF ArchivePart
<1>6. CASE ReviewPart
  BY <1>6 DEF ReviewPart
<1>7. CASE GuardPart
  BY <1>7 DEF GuardPart
<1>8. CASE UNCHANGED componentVars
  BY <1>8 DEF componentVars
<1> QED
  BY <1>1, <1>2, <1>3, <1>4, <1>5, <1>6, <1>7, <1>8 DEF ComponentsNext

\* What is proved of each component by itself.
DiscoveryHolds == IInv /\ Tight
TransportHolds == SessionInv /\ StreamInv /\ Limits
MemoryHolds == MemoryInv /\ Bounded
ArchiveHolds == ArchiveInv /\ Tidy
ReviewHolds == ReviewInv /\ Proper

AllHold == DiscoveryHolds /\ TransportHolds /\ MemoryHolds /\ ArchiveHolds /\ ReviewHolds

LEMMA AllStart == ComponentsInit => AllHold
<1> SUFFICES ASSUME ComponentsInit PROVE AllHold
  OBVIOUS
<1>1. DiscoveryInit /\ TransportInit /\ MemoryInit /\ ArchiveInit /\ ReviewInit
  BY DEF ComponentsInit
<1>2. DiscoveryHolds
  BY <1>1, DiscoveryInitHolds, TightStart DEF DiscoveryHolds
<1>3. TransportHolds
  BY <1>1, TransportStart, StreamStart, LimitsStart DEF TransportHolds
<1>4. MemoryHolds
  BY <1>1, MemoryStart, BoundedStart DEF MemoryHolds
<1>5. ArchiveHolds
  BY <1>1, ArchiveStart, TidyStart DEF ArchiveHolds
<1>6. ReviewHolds
  BY <1>1, ReviewStart, ProperStart DEF ReviewHolds
<1> QED
  BY <1>2, <1>3, <1>4, <1>5, <1>6 DEF AllHold

LEMMA AllStep == AllHold /\ [ComponentsNext]_componentVars => AllHold'
<1> SUFFICES ASSUME AllHold, [ComponentsNext]_componentVars PROVE AllHold'
  OBVIOUS
<1>1. /\ [DiscoveryNext]_discoveryVars /\ [TransportNext]_transportVars
      /\ [MemoryNext]_memoryVars /\ [ArchiveNext]_archiveVars /\ [ReviewNext]_reviewVars
  BY OneMoves
<1>2. DiscoveryHolds'
  BY <1>1, DiscoveryStep, TightStep DEF AllHold, DiscoveryHolds
<1>3. TransportHolds'
  BY <1>1, TransportStep, StreamStep, LimitsKept DEF AllHold, TransportHolds
<1>4. MemoryHolds'
  BY <1>1, MemoryStep, BoundedStep DEF AllHold, MemoryHolds
<1>5. ArchiveHolds'
  BY <1>1, ArchiveStep, TidyStep DEF AllHold, ArchiveHolds
<1>6. ReviewHolds'
  BY <1>1, ReviewStep, ProperStep DEF AllHold, ReviewHolds
<1> QED
  BY <1>2, <1>3, <1>4, <1>5, <1>6 DEF AllHold

LEMMA AllAlways == ComponentsSpec => []AllHold
<1> QED
  BY AllStart, AllStep, PTL DEF ComponentsSpec

(***************************************************************************)
(* Each component keeps its types, in whatever company: for any groups,    *)
(* callers, readers, subscribers, page sizes and registries, pollers and   *)
(* streams stay inside their limits and what is decided or stored is of    *)
(* its type.                                                               *)
(***************************************************************************)
THEOREM ComponentsTypeCorrect == ComponentsSpec => []ComponentsTypeOK
<1>1. AllHold => ComponentsTypeOK
  BY TypesFollow, TransportTypesFollow, MemoryTypesFollow, ArchiveTypesFollow, ReviewTypesFollow
     DEF AllHold, DiscoveryHolds, TransportHolds, MemoryHolds, ArchiveHolds, ReviewHolds,
         ComponentsTypeOK
<1> QED
  BY <1>1, AllAlways, PTL

(***************************************************************************)
(* And each keeps its word, as in the run of this module: an event is told *)
(* once and none is skipped, a list is a prefix, subscribers and handlers  *)
(* are given what is theirs in order, an audit has its archive, and        *)
(* decisions are what the rules, the bytes and the registry make them.     *)
(***************************************************************************)
THEOREM ComponentsKeepTheirWord ==
    ComponentsSpec => /\ []ToldOnce /\ []NothingSkipped /\ []KnowsMembership
                      /\ []ListIsPrefix /\ []GivenInOrder
                      /\ []FirstSeesStoredOrder /\ []OverMeansGiven
                      /\ []AuditHasArchive
                      /\ []ApprovedByRules /\ []RejectionStands
                      /\ []ApprovedWithinLimits /\ []DangerReviewed /\ []PlansAccepted
<1>1. AllHold => ToldOnce /\ NothingSkipped /\ KnowsMembership
  BY DEF AllHold, DiscoveryHolds, IInv, CursorsHonest, Covered, NothingSkipped
<1>2. AllHold => ListIsPrefix /\ GivenInOrder
  <2>1. SessionInv => ListIsPrefix
    BY DEF SessionInv, Reads, ListIsPrefix
  <2> QED
    BY <2>1, StreamsInOrder DEF AllHold, TransportHolds
<1>3. AllHold => FirstSeesStoredOrder /\ OverMeansGiven
  <2>1. MemoryInv => FirstSeesStoredOrder
    BY DEF MemoryInv
  <2> QED
    BY <2>1, OnceIsGiven DEF AllHold, MemoryHolds
<1>4. AllHold => AuditHasArchive
  BY ArchiveIsThere DEF AllHold, ArchiveHolds
<1>5. AllHold => ApprovedByRules /\ RejectionStands
  BY ExactByRules DEF AllHold, ReviewHolds, ReviewInv, EngineInv
<1>6. AllHold => ApprovedWithinLimits /\ DangerReviewed /\ PlansAccepted
  <2>1. ReviewInv => ApprovedWithinLimits
    BY WithinEveryRule DEF ApprovedWithinLimits
  <2>2. ReviewInv => PlansAccepted
    BY DEF ReviewInv
  <2> QED
    BY <2>1, <2>2, DangerIsVouchedFor DEF AllHold, ReviewHolds
<1> QED
  BY <1>1, <1>2, <1>3, <1>4, <1>5, <1>6, AllAlways, PTL
=============================================================================
