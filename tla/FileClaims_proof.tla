-------------------------- MODULE FileClaims_proof --------------------------
(***************************************************************************)
(* Proofs about the two protocols that are made of files created with      *)
(* O_EXCL, for every set of processes, calls and claims: the claims on a   *)
(* session (SessionLifecycle) and a barrier directory (Barrier).           *)
(***************************************************************************)
EXTENDS SessionLifecycle, BarrierCalls, TLAPS

\* Type correctness of the initial state.
LEMMA TypeInit == Init => TypeOK
BY ConstantsAssumption
DEF Init, TypeOK, Versions, Claimants, BeforeClaim, WithClaim, WithLease, Publishing, Ended

\* Every step of every process keeps the types.
LEMMA TypeStep == TypeOK /\ [Next]_vars => TypeOK'
<1> SUFFICES ASSUME TypeOK, [Next]_vars PROVE TypeOK'
  OBVIOUS
<1> USE ConstantsAssumption
    DEF TypeOK, Goto, session, Versions, Claimants, Forbidden,
        BeforeClaim, WithClaim, WithLease, Publishing, Ended
<1>1. ASSUME NEW c \in Claimants, ClaimantStep(c) PROVE TypeOK'
  <2>1. CASE ReadSeal(c)  BY <2>1 DEF ReadSeal
  <2>2. CASE ReadOfflineMarker(c)  BY <2>2 DEF ReadOfflineMarker
  <2>3. CASE CreateMarker(c)  BY <2>3 DEF CreateMarker
  <2>4. CASE CreateMarkerFails(c)  BY <2>4 DEF CreateMarkerFails
  <2>5. CASE RemoveMarker(c)  BY <2>5 DEF RemoveMarker
  <2>6. CASE Record(c)  BY <2>6 DEF Record
  <2> QED  BY <1>1, <2>1, <2>2, <2>3, <2>4, <2>5, <2>6 DEF ClaimantStep
<1>2. ASSUME NEW o \in Publishers, PublisherStep(o) PROVE TypeOK'
  <2>1. CASE CreateOfflineMarker(o)  BY <2>1 DEF CreateOfflineMarker
  <2>2. ASSUME NEW k \in Claims, LookForMarker(o, k) PROVE TypeOK'
    BY <2>2 DEF LookForMarker
  <2>3. CASE EnterPublication(o)  BY <2>3 DEF EnterPublication
  <2>4. CASE OpenSeal(o)  BY <2>4 DEF OpenSeal
  <2>5. CASE VerifyCaptured(o)  BY <2>5 DEF VerifyCaptured
  <2>6. CASE ReplaceSeal(o)  BY <2>6 DEF ReplaceSeal
  <2>7. CASE VerifySeal(o)  BY <2>7 DEF VerifySeal
  <2>8. CASE OpenIndex(o)  BY <2>8 DEF OpenIndex
  <2>9. CASE VerifySources(o)  BY <2>9 DEF VerifySources
  <2>10. CASE PublishIndex(o)  BY <2>10 DEF PublishIndex
  <2>11. CASE ValidateIndex(o)  BY <2>11 DEF ValidateIndex
  <2>12. CASE PublicationFails(o)  BY <2>12 DEF PublicationFails
  <2>13. CASE RemoveOfflineMarker(o)  BY <2>13 DEF RemoveOfflineMarker
  <2> QED
    BY <1>2, <2>1, <2>2, <2>3, <2>4, <2>5, <2>6, <2>7, <2>8, <2>9, <2>10,
       <2>11, <2>12, <2>13 DEF PublisherStep
<1>3. ASSUME NEW x \in Claimants \cup Publishers, Crash(x) PROVE TypeOK'
  BY <1>3 DEF Crash
<1>4. CASE EditOutside  BY <1>4 DEF EditOutside
<1>5. CASE UNCHANGED vars  BY <1>5 DEF vars
<1> QED  BY <1>1, <1>2, <1>3, <1>4, <1>5 DEF Next

\* Type correctness: no interleaving, failure or crash of the claim protocol
\* leaves its state outside the declared sets.
THEOREM TypeCorrect == Spec => []TypeOK
BY TypeInit, TypeStep, PTL DEF Spec

-----------------------------------------------------------------------------
(* Exclusion.  Whoever is past the creation of a marker owns it, and a       *)
(* publisher that has not given up found every marker it looked for absent:  *)
(* an active claimant is one whose marker the publisher has yet to look for, *)
(* for it would otherwise have met the publisher's own marker.               *)
ClaimInv ==
    /\ \A c \in Claimants : at[c] \in WithClaim => marker[ClaimOf[c]] = c
    /\ \A o \in Publishers : at[o] \in WithLease => offlineMarker = o
    /\ \A o \in Publishers : at[o] = "start" => scanned[o] = {}
    /\ \A o \in Publishers, c \in Claimants :
          (at[o] \in {"scan"} \cup Publishing /\ at[c] = "active")
              => ClaimOf[c] \notin scanned[o]
    /\ \A o \in Publishers : at[o] \in Publishing => scanned[o] = Claims

\* A step of a producer or writer keeps the protocol's invariant.
LEMMA ClaimantKeepsClaims ==
    ASSUME TypeOK, ClaimInv, NEW c \in Claimants, ClaimantStep(c)
    PROVE  ClaimInv'
<1> USE ConstantsAssumption
    DEF TypeOK, ClaimInv, Goto, Claimants, Forbidden, WithClaim, WithLease, Publishing
<1>1. CASE ReadSeal(c)  BY <1>1 DEF ReadSeal
<1>2. CASE ReadOfflineMarker(c)  BY <1>2 DEF ReadOfflineMarker
<1>3. CASE CreateMarker(c)  BY <1>3 DEF CreateMarker
<1>4. CASE CreateMarkerFails(c)  BY <1>4 DEF CreateMarkerFails
<1>5. CASE RemoveMarker(c)  BY <1>5 DEF RemoveMarker
<1>6. CASE Record(c)  BY <1>6 DEF Record
<1> QED  BY <1>1, <1>2, <1>3, <1>4, <1>5, <1>6 DEF ClaimantStep

\* A step of a publisher keeps the protocol's invariant.
LEMMA PublisherKeepsClaims ==
    ASSUME TypeOK, ClaimInv, NEW o \in Publishers, PublisherStep(o)
    PROVE  ClaimInv'
<1> USE ConstantsAssumption
    DEF TypeOK, ClaimInv, Goto, Claimants, WithClaim, WithLease, Publishing
<1>1. CASE CreateOfflineMarker(o)  BY <1>1 DEF CreateOfflineMarker
<1>2. ASSUME NEW k \in Claims, LookForMarker(o, k) PROVE ClaimInv'
  BY <1>2 DEF LookForMarker
<1>3. CASE EnterPublication(o)  BY <1>3 DEF EnterPublication
<1>4. CASE OpenSeal(o)  BY <1>4 DEF OpenSeal
<1>5. CASE VerifyCaptured(o)  BY <1>5 DEF VerifyCaptured
<1>6. CASE ReplaceSeal(o)  BY <1>6 DEF ReplaceSeal
<1>7. CASE VerifySeal(o)  BY <1>7 DEF VerifySeal
<1>8. CASE OpenIndex(o)  BY <1>8 DEF OpenIndex
<1>9. CASE VerifySources(o)  BY <1>9 DEF VerifySources
<1>10. CASE PublishIndex(o)  BY <1>10 DEF PublishIndex
<1>11. CASE ValidateIndex(o)  BY <1>11 DEF ValidateIndex
<1>12. CASE PublicationFails(o)  BY <1>12 DEF PublicationFails
<1>13. CASE RemoveOfflineMarker(o)  BY <1>13 DEF RemoveOfflineMarker
<1> QED
  BY <1>1, <1>2, <1>3, <1>4, <1>5, <1>6, <1>7, <1>8, <1>9, <1>10, <1>11,
     <1>12, <1>13 DEF PublisherStep

\* The protocol's invariant holds in every reachable state.
LEMMA ClaimInvariant == Spec => []ClaimInv
<1>1. Init => ClaimInv
  BY ConstantsAssumption DEF Init, ClaimInv, Claimants, WithClaim, WithLease, Publishing
<1>2. TypeOK /\ ClaimInv /\ [Next]_vars => ClaimInv'
  <2> SUFFICES ASSUME TypeOK, ClaimInv, [Next]_vars PROVE ClaimInv'
    OBVIOUS
  <2>1. ASSUME NEW x \in Claimants \cup Publishers, Crash(x) PROVE ClaimInv'
    BY <2>1, ConstantsAssumption
    DEF Crash, TypeOK, ClaimInv, Goto, Claimants, WithClaim, WithLease, Publishing
  <2>2. CASE EditOutside
    BY <2>2 DEF EditOutside, ClaimInv
  <2>3. CASE UNCHANGED vars
    BY <2>3 DEF vars, ClaimInv
  <2> QED
    BY <2>1, <2>2, <2>3, ClaimantKeepsClaims, PublisherKeepsClaims DEF Next
<1> QED  BY <1>1, <1>2, TypeCorrect, PTL DEF Spec

\* No process records while a publisher hashes, seals or indexes the session,
\* for any number of processes and however their steps interleave.
THEOREM Exclusion == Spec => []PublicationExclusion
<1>1. TypeOK /\ ClaimInv => PublicationExclusion
  BY ConstantsAssumption DEF TypeOK, ClaimInv, PublicationExclusion, Claimants
<1> QED  BY <1>1, TypeCorrect, ClaimInvariant, PTL

\* One recording process per claim and one publisher per session.
THEOREM OneHolder == Spec => []SingleHolder
<1>1. ClaimInv => SingleHolder
  BY ConstantsAssumption
  DEF ClaimInv, SingleHolder, Claimants, WithClaim, WithLease, Publishing
<1> QED  BY <1>1, ClaimInvariant, PTL

-----------------------------------------------------------------------------
(* Seal and index, whoever rewrites the sources meanwhile: what a publisher  *)
(* holds in memory when it indexes is what the seal records, and an index    *)
(* exists only beside the seal it was built from.                            *)
SealInv ==
    /\ sync # Absent => seal # Absent /\ sync = seal
    /\ \A o \in Publishers :
          /\ at[o] \in {"verify_captured", "replace_seal"} =>
                 seal = Absent /\ held[o] # Absent
          /\ at[o] \in {"verify_seal", "open_index", "verify_sources",
                        "publish_index", "validate", "commit"} => seal # Absent
          /\ at[o] \in {"verify_sources", "publish_index"} => held[o] = seal

\* A publisher's own step keeps the seal and the index consistent; no other
\* publisher is past the scan at that moment.
LEMMA PublisherKeepsSeal ==
    ASSUME TypeOK, ClaimInv, SealInv, NEW o \in Publishers, PublisherStep(o)
    PROVE  SealInv'
<1> USE ConstantsAssumption
    DEF TypeOK, SealInv, Goto, session, Versions, Claimants
<1>1. \A p \in Publishers : at[o] \in WithLease /\ at[p] \in WithLease => p = o
  BY DEF ClaimInv
<1> USE <1>1 DEF WithLease, Publishing
<1>2. CASE CreateOfflineMarker(o)  BY <1>2 DEF CreateOfflineMarker
<1>3. ASSUME NEW k \in Claims, LookForMarker(o, k) PROVE SealInv'
  BY <1>3 DEF LookForMarker
<1>4. CASE EnterPublication(o)  BY <1>4 DEF EnterPublication
<1>5. CASE OpenSeal(o)  BY <1>5 DEF OpenSeal
<1>6. CASE VerifyCaptured(o)  BY <1>6 DEF VerifyCaptured
<1>7. CASE ReplaceSeal(o)  BY <1>7 DEF ReplaceSeal
<1>8. CASE VerifySeal(o)  BY <1>8 DEF VerifySeal
<1>9. CASE OpenIndex(o)  BY <1>9 DEF OpenIndex
<1>10. CASE VerifySources(o)  BY <1>10 DEF VerifySources
<1>11. CASE PublishIndex(o)  BY <1>11 DEF PublishIndex
<1>12. CASE ValidateIndex(o)  BY <1>12 DEF ValidateIndex
<1>13. CASE PublicationFails(o)  BY <1>13 DEF PublicationFails
<1>14. CASE RemoveOfflineMarker(o)  BY <1>14 DEF RemoveOfflineMarker
<1> QED
  BY <1>2, <1>3, <1>4, <1>5, <1>6, <1>7, <1>8, <1>9, <1>10, <1>11, <1>12,
     <1>13, <1>14 DEF PublisherStep

\* Steps of the other processes leave seal, index and memory alone.
LEMMA OthersKeepSeal ==
    ASSUME TypeOK, SealInv,
           \/ \E c \in Claimants : ClaimantStep(c)
           \/ \E x \in Claimants \cup Publishers : Crash(x)
           \/ EditOutside
    PROVE  SealInv' /\ seal' = seal /\ sync' = sync
<1> USE ConstantsAssumption DEF TypeOK, SealInv, Goto, session, Claimants
<1>1. ASSUME NEW c \in Claimants, ClaimantStep(c)
      PROVE  SealInv' /\ seal' = seal /\ sync' = sync
  <2>1. /\ UNCHANGED <<seal, sync, held>>
        /\ \A o \in Publishers : at'[o] = at[o]
    BY <1>1 DEF ClaimantStep, ReadSeal, ReadOfflineMarker, CreateMarker,
                CreateMarkerFails, RemoveMarker, Record
  <2> QED  BY <2>1
<1>2. ASSUME NEW x \in Claimants \cup Publishers, Crash(x)
      PROVE  SealInv' /\ seal' = seal /\ sync' = sync
  BY <1>2 DEF Crash
<1>3. CASE EditOutside
  BY <1>3 DEF EditOutside
<1> QED  BY <1>1, <1>2, <1>3

\* The invariant that relates seal, index and the publishers' memory.
LEMMA SealInvariant == Spec => []SealInv
<1>1. Init => SealInv
  BY ConstantsAssumption DEF Init, SealInv, Claimants
<1>2. TypeOK /\ ClaimInv /\ SealInv /\ [Next]_vars => SealInv'
  <2> SUFFICES ASSUME TypeOK, ClaimInv, SealInv, [Next]_vars PROVE SealInv'
    OBVIOUS
  <2>1. CASE UNCHANGED vars  BY <2>1 DEF vars, SealInv
  <2> QED  BY <2>1, PublisherKeepsSeal, OthersKeepSeal DEF Next
<1> QED  BY <1>1, <1>2, TypeCorrect, ClaimInvariant, PTL DEF Spec

\* The published index always comes from the sources the seal records, even
\* when something outside the protocol rewrites them.
THEOREM IndexFromSeal == Spec => []IndexMatchesSeal
<1>1. SealInv => IndexMatchesSeal
  BY DEF SealInv, IndexMatchesSeal
<1> QED  BY <1>1, SealInvariant, PTL

\* A seal that exists is never replaced or removed.
THEOREM SealStays == Spec => SealWrittenOnce
<1>1. TypeOK /\ SealInv /\ [Next]_vars => [seal # Absent => seal' = seal]_seal
  <2> SUFFICES ASSUME TypeOK, SealInv, [Next]_vars, seal # Absent
               PROVE  seal' = seal
    BY DEF vars
  <2>1. ASSUME NEW o \in Publishers, PublisherStep(o) PROVE seal' = seal
    BY <2>1 DEF SealInv, session, PublisherStep, CreateOfflineMarker, LookForMarker,
       EnterPublication, OpenSeal, VerifyCaptured, ReplaceSeal, VerifySeal,
       OpenIndex, VerifySources, PublishIndex, ValidateIndex,
       PublicationFails, RemoveOfflineMarker
  <2>2. CASE UNCHANGED vars  BY <2>2 DEF vars
  <2> QED  BY <2>1, <2>2, OthersKeepSeal DEF Next
<1> QED  BY <1>1, TypeCorrect, SealInvariant, PTL DEF Spec, SealWrittenOnce

-----------------------------------------------------------------------------
(* With every actor inside the protocol the sources stand still during a     *)
(* publication, so its checks succeed and it ends in agreement.              *)
AgreementInv ==
    \A o \in Publishers :
        /\ OutsideEdits = FALSE =>
              /\ at[o] \in {"verify_captured", "replace_seal"} => held[o] = source
              /\ at[o] \in {"verify_seal", "open_index", "verify_sources",
                            "publish_index", "validate", "commit"} => seal = source
        /\ at[o] \in {"verify_sources", "publish_index"} => sync = Absent
        /\ at[o] \in {"validate", "commit"} => sync = seal

\* A publisher's step keeps the agreement.
LEMMA PublisherKeepsAgreement ==
    ASSUME TypeOK, ClaimInv, SealInv, AgreementInv,
           NEW o \in Publishers, PublisherStep(o)
    PROVE  AgreementInv'
<1> USE ConstantsAssumption
    DEF TypeOK, SealInv, AgreementInv, Goto, session, Versions, Claimants
<1>1. \A p \in Publishers : at[o] \in WithLease /\ at[p] \in WithLease => p = o
  BY DEF ClaimInv
<1> USE <1>1 DEF WithLease, Publishing
<1>2. CASE CreateOfflineMarker(o)  BY <1>2 DEF CreateOfflineMarker
<1>3. ASSUME NEW k \in Claims, LookForMarker(o, k) PROVE AgreementInv'
  BY <1>3 DEF LookForMarker
<1>4. CASE EnterPublication(o)  BY <1>4 DEF EnterPublication
<1>5. CASE OpenSeal(o)  BY <1>5 DEF OpenSeal
<1>6. CASE VerifyCaptured(o)  BY <1>6 DEF VerifyCaptured
<1>7. CASE ReplaceSeal(o)  BY <1>7 DEF ReplaceSeal
<1>8. CASE VerifySeal(o)  BY <1>8 DEF VerifySeal
<1>9. CASE OpenIndex(o)  BY <1>9 DEF OpenIndex
<1>10. CASE VerifySources(o)  BY <1>10 DEF VerifySources
<1>11. CASE PublishIndex(o)  BY <1>11 DEF PublishIndex
<1>12. CASE ValidateIndex(o)  BY <1>12 DEF ValidateIndex
<1>13. CASE PublicationFails(o)  BY <1>13 DEF PublicationFails
<1>14. CASE RemoveOfflineMarker(o)  BY <1>14 DEF RemoveOfflineMarker
<1> QED
  BY <1>2, <1>3, <1>4, <1>5, <1>6, <1>7, <1>8, <1>9, <1>10, <1>11, <1>12,
     <1>13, <1>14 DEF PublisherStep

\* A recording process cannot disturb it: it is not active meanwhile.
LEMMA OthersKeepAgreement ==
    ASSUME TypeOK, ClaimInv, AgreementInv,
           \/ \E c \in Claimants : ClaimantStep(c)
           \/ \E x \in Claimants \cup Publishers : Crash(x)
    PROVE  AgreementInv'
<1> USE ConstantsAssumption DEF TypeOK, AgreementInv, Goto, session, Claimants
<1>1. ASSUME NEW c \in Claimants, Record(c) PROVE AgreementInv'
  <2>1. \A o \in Publishers : at[o] \notin Publishing
    BY <1>1 DEF ClaimInv, Record
  <2> QED  BY <1>1, <2>1 DEF Record, Publishing
<1>2. ASSUME NEW c \in Claimants, ClaimantStep(c), ~Record(c) PROVE AgreementInv'
  <2>1. /\ UNCHANGED <<source, seal, sync, held>>
        /\ \A o \in Publishers : at'[o] = at[o]
    BY <1>2 DEF ClaimantStep, ReadSeal, ReadOfflineMarker, CreateMarker,
                CreateMarkerFails, RemoveMarker
  <2> QED  BY <2>1
<1>3. ASSUME NEW x \in Claimants \cup Publishers, Crash(x) PROVE AgreementInv'
  BY <1>3 DEF Crash
<1> QED  BY <1>1, <1>2, <1>3

\* Agreement of seal, index and sources during a publication.
LEMMA AgreementInvariant == Spec => []AgreementInv
<1>1. Init => AgreementInv
  BY ConstantsAssumption DEF Init, AgreementInv, Claimants
<1>2. TypeOK /\ ClaimInv /\ SealInv /\ AgreementInv /\ [Next]_vars => AgreementInv'
  <2> SUFFICES ASSUME TypeOK, ClaimInv, SealInv, AgreementInv, [Next]_vars
               PROVE  AgreementInv'
    OBVIOUS
  <2>1. CASE UNCHANGED vars  BY <2>1 DEF vars, AgreementInv
  <2> QED
    <3>1. CASE EditOutside  BY <3>1, ConstantsAssumption DEF EditOutside, AgreementInv
    <3> QED  BY <2>1, <3>1, PublisherKeepsAgreement, OthersKeepAgreement DEF Next
<1> QED
  BY <1>1, <1>2, TypeCorrect, ClaimInvariant, SealInvariant, PTL DEF Spec

\* build_index succeeds only with the sources, the seal and the index in
\* agreement at the moment it returns.
THEOREM SuccessIsAgreement ==
    ASSUME OutsideEdits = FALSE PROVE Spec => SuccessMeansAgreement
<1> DEFINE Step == \A o \in Publishers :
               (at'[o] = "published" /\ at[o] # "published")
                   => source = seal /\ sync = seal
<1>1. TypeOK /\ AgreementInv /\ [Next]_vars => [Step]_vars
  <2> SUFFICES ASSUME TypeOK, AgreementInv, Next, NEW o \in Publishers,
                      at'[o] = "published", at[o] # "published"
               PROVE  source = seal /\ sync = seal
    BY DEF vars
  <2>1. RemoveOfflineMarker(o) /\ at[o] = "commit"
    <3> USE ConstantsAssumption DEF TypeOK, Goto, Claimants
    <3>1. ASSUME NEW c \in Claimants, ClaimantStep(c) PROVE FALSE
      BY <3>1 DEF ClaimantStep, ReadSeal, ReadOfflineMarker, CreateMarker,
                  CreateMarkerFails, RemoveMarker, Record
    <3>2. ASSUME NEW x \in Claimants \cup Publishers, Crash(x) PROVE FALSE
      BY <3>2 DEF Crash
    <3>3. CASE EditOutside  BY <3>3 DEF EditOutside
    <3>4. ASSUME NEW p \in Publishers, PublisherStep(p)
          PROVE  RemoveOfflineMarker(o) /\ at[o] = "commit"
      BY <3>4 DEF PublisherStep, CreateOfflineMarker, LookForMarker,
         EnterPublication, OpenSeal, VerifyCaptured, ReplaceSeal, VerifySeal,
         OpenIndex, VerifySources, PublishIndex, ValidateIndex,
         PublicationFails, RemoveOfflineMarker
    <3> QED  BY <3>1, <3>2, <3>3, <3>4 DEF Next
  <2> QED  BY <2>1 DEF AgreementInv
<1> QED
  BY <1>1, TypeCorrect, AgreementInvariant, PTL DEF Spec, SuccessMeansAgreement

-----------------------------------------------------------------------------
(* Implementation of SessionAccess.                                         *)
Recording == {c \in Claimants : at[c] = "active"}
InPublication == {o \in Publishers : at[o] \in Publishing}

\* A producer's or writer's step is an abstract step or a stutter.
LEMMA ClaimantRefines ==
    ASSUME TypeOK, ClaimInv, NEW c \in Claimants, ClaimantStep(c)
    PROVE  [Access!Next]_(Access!vars)
<1> USE ConstantsAssumption DEF TypeOK, Goto, session, Claimants, Access!vars
<1>1. ASSUME UNCHANGED <<source, seal, sync>>, Recording' = Recording,
             InPublication' = InPublication
      PROVE  [Access!Next]_(Access!vars)
  BY <1>1 DEF Recording, InPublication
<1>2. CASE ReadSeal(c)
  <2>1. Recording' = Recording /\ InPublication' = InPublication
    BY <1>2 DEF ReadSeal, Forbidden, WithClaim, Recording, InPublication
  <2> QED  BY <1>1, <1>2, <2>1 DEF ReadSeal
<1>3. CASE ReadOfflineMarker(c) /\ at'[c] # "active"
  <2>1. Recording' = Recording /\ InPublication' = InPublication
    BY <1>3 DEF ReadOfflineMarker, Forbidden, WithClaim, Recording, InPublication
  <2> QED  BY <1>1, <1>3, <2>1 DEF ReadOfflineMarker
<1>4. CASE ReadOfflineMarker(c) /\ at'[c] = "active"
  <2>1. at[c] = "lock2" /\ offlineMarker = Absent
    BY <1>4 DEF ReadOfflineMarker, Forbidden, WithClaim
  <2>2. InPublication = {}
    BY <2>1 DEF ClaimInv, WithLease, InPublication
  <2>3. \A d \in Recording : ClaimOf[d] # ClaimOf[c]
    BY <2>1 DEF ClaimInv, WithClaim, Recording
  <2>4. Recording' = Recording \cup {c} /\ InPublication' = InPublication
    BY <1>4 DEF ReadOfflineMarker, Recording, InPublication
  <2>5. Access!StartRecording(c)
    BY <1>4, <2>2, <2>3, <2>4
    DEF Access!StartRecording, ReadOfflineMarker, Recording, InPublication
  <2> QED  BY <2>5 DEF Access!Next
<1>5. CASE CreateMarker(c)
  <2>1. Recording' = Recording /\ InPublication' = InPublication
    BY <1>5 DEF CreateMarker, Recording, InPublication
  <2> QED  BY <1>1, <1>5, <2>1 DEF CreateMarker
<1>6. CASE CreateMarkerFails(c)
  <2>1. Recording' = Recording /\ InPublication' = InPublication
    BY <1>6 DEF CreateMarkerFails, Recording, InPublication
  <2> QED  BY <1>1, <1>6, <2>1 DEF CreateMarkerFails
<1>7. CASE RemoveMarker(c) /\ at[c] = "retract"
  <2>1. Recording' = Recording /\ InPublication' = InPublication
    BY <1>7 DEF RemoveMarker, Recording, InPublication
  <2> QED  BY <1>1, <1>7, <2>1 DEF RemoveMarker
<1>8. CASE RemoveMarker(c) /\ at[c] = "active"
  <2>1. c \in Recording /\ Recording' = Recording \ {c}
        /\ InPublication' = InPublication
    BY <1>8 DEF RemoveMarker, Recording, InPublication
  <2>2. Access!StopRecording(c)
    BY <1>8, <2>1 DEF Access!StopRecording, RemoveMarker, Recording, InPublication
  <2> QED  BY <2>2 DEF Access!Next
<1>9. CASE Record(c)
  <2>1. Access!Record(c)
    BY <1>9 DEF Access!Record, Record
  <2> QED  BY <2>1 DEF Access!Next
<1> QED
  BY <1>2, <1>3, <1>4, <1>5, <1>6, <1>7, <1>8, <1>9 DEF ClaimantStep, RemoveMarker

\* A publisher's step is an abstract step or a stutter.
LEMMA PublisherRefines ==
    ASSUME TypeOK, ClaimInv, SealInv, AgreementInv,
           NEW o \in Publishers, PublisherStep(o)
    PROVE  [Access!Next]_(Access!vars)
<1> USE ConstantsAssumption DEF TypeOK, Goto, session, Claimants, Access!vars
<1>1. ASSUME UNCHANGED <<source, seal, sync>>, Recording' = Recording,
             InPublication' = InPublication
      PROVE  [Access!Next]_(Access!vars)
  BY <1>1 DEF Recording, InPublication
<1>2. Recording' = Recording
  <2>1. \A c \in Claimants : at'[c] = at[c]
    BY DEF PublisherStep, CreateOfflineMarker, LookForMarker,
       EnterPublication, OpenSeal, VerifyCaptured, ReplaceSeal, VerifySeal,
       OpenIndex, VerifySources, PublishIndex, ValidateIndex,
       PublicationFails, RemoveOfflineMarker
  <2> QED  BY <2>1 DEF Recording
<1>3. at[o] \in Publishing => InPublication = {o}
  BY DEF ClaimInv, WithLease, InPublication
<1>4. at[o] \in WithLease => InPublication \subseteq {o}
  BY DEF ClaimInv, WithLease, InPublication
<1>5. /\ at'[o] \in Publishing => InPublication' = InPublication \cup {o}
      /\ at'[o] \notin Publishing => InPublication' = InPublication \ {o}
  <2>1. \A p \in Publishers : p # o => at'[p] = at[p]
    BY DEF PublisherStep, CreateOfflineMarker, LookForMarker,
       EnterPublication, OpenSeal, VerifyCaptured, ReplaceSeal, VerifySeal,
       OpenIndex, VerifySources, PublishIndex, ValidateIndex,
       PublicationFails, RemoveOfflineMarker
  <2> QED  BY <2>1 DEF InPublication
<1>6. ASSUME at[o] \notin Publishing, at'[o] \notin Publishing
      PROVE  InPublication' = InPublication
  BY <1>5, <1>6 DEF InPublication
<1>7. ASSUME at[o] \in Publishing, at'[o] \notin Publishing,
             source' = source, seal' = seal, sync' \in {sync, Absent}
      PROVE  [Access!Next]_(Access!vars)
  <2>1. Access!StopPublishing(o)
    BY <1>2, <1>3, <1>5, <1>7 DEF Access!StopPublishing, Recording, InPublication
  <2> QED  BY <2>1 DEF Access!Next
<1>8. ASSUME at[o] \in Publishing, at'[o] \in Publishing,
             UNCHANGED <<source, seal, sync>>
      PROVE  [Access!Next]_(Access!vars)
  BY <1>1, <1>2, <1>3, <1>5, <1>8
<1>9. CASE CreateOfflineMarker(o)
  <2>1. at[o] \notin Publishing /\ at'[o] \notin Publishing
    BY <1>9 DEF CreateOfflineMarker, Publishing
  <2> QED  BY <1>1, <1>2, <1>6, <1>9, <2>1 DEF CreateOfflineMarker
<1>10. ASSUME NEW k \in Claims, LookForMarker(o, k)
       PROVE  [Access!Next]_(Access!vars)
  <2>1. at[o] \notin Publishing /\ at'[o] \notin Publishing
    BY <1>10 DEF LookForMarker, Publishing
  <2> QED  BY <1>1, <1>2, <1>6, <1>10, <2>1 DEF LookForMarker
<1>11. CASE EnterPublication(o)
  <2>1. Recording = {}
    BY <1>11 DEF EnterPublication, ClaimInv, Recording
  <2>2. InPublication = {} /\ InPublication' = {o}
    BY <1>4, <1>5, <1>11 DEF EnterPublication, WithLease, Publishing, InPublication
  <2>3. Access!StartPublishing(o)
    BY <1>2, <1>11, <2>1, <2>2
    DEF Access!StartPublishing, EnterPublication, Recording, InPublication
  <2> QED  BY <2>3 DEF Access!Next
<1>12. CASE OpenSeal(o)  BY <1>7, <1>8, <1>12 DEF OpenSeal, Publishing
<1>13. CASE VerifyCaptured(o)  BY <1>7, <1>8, <1>13 DEF VerifyCaptured, Publishing
<1>14. CASE ReplaceSeal(o)
  <2>1. InPublication = {o} /\ InPublication' = {o}
    BY <1>3, <1>5, <1>14 DEF ReplaceSeal, Publishing
  <2>2. seal = Absent /\ held[o] \in Versions /\ (held[o] = source \/ OutsideEdits)
    BY <1>14 DEF ReplaceSeal, SealInv, AgreementInv
  <2>3. Access!TakeSeal(o)
    BY <1>2, <1>14, <2>1, <2>2
    DEF Access!TakeSeal, ReplaceSeal, Recording, InPublication, Versions
  <2> QED  BY <2>3 DEF Access!Next
<1>15. CASE VerifySeal(o)  BY <1>7, <1>8, <1>15 DEF VerifySeal, Publishing
<1>16. CASE OpenIndex(o)  BY <1>7, <1>8, <1>16 DEF OpenIndex, Publishing
<1>17. CASE VerifySources(o)  BY <1>7, <1>8, <1>17 DEF VerifySources, Publishing
<1>18. CASE PublishIndex(o)
  <2>1. InPublication = {o} /\ InPublication' = {o}
    BY <1>3, <1>5, <1>18 DEF PublishIndex, Publishing
  <2>2. /\ seal # Absent /\ held[o] = seal /\ sync = Absent
        /\ seal = source \/ OutsideEdits
    BY <1>18 DEF PublishIndex, SealInv, AgreementInv
  <2>3. Access!TakeIndex(o)
    BY <1>2, <1>18, <2>1, <2>2
    DEF Access!TakeIndex, PublishIndex, Recording, InPublication
  <2> QED  BY <2>3 DEF Access!Next
<1>19. CASE ValidateIndex(o)  BY <1>7, <1>8, <1>19 DEF ValidateIndex, Publishing
<1>20. CASE PublicationFails(o)
  <2>1. sync' \in {sync, Absent}  BY <1>20 DEF PublicationFails
  <2> QED  BY <1>7, <1>20, <2>1 DEF PublicationFails, Publishing
<1>21. CASE RemoveOfflineMarker(o) /\ at[o] = "commit"
  BY <1>7, <1>21 DEF RemoveOfflineMarker, Publishing
<1>22. CASE RemoveOfflineMarker(o) /\ at[o] = "abort"
  <2>1. at[o] \notin Publishing /\ at'[o] \notin Publishing
    BY <1>22 DEF RemoveOfflineMarker, Publishing
  <2> QED  BY <1>1, <1>2, <1>6, <1>22, <2>1 DEF RemoveOfflineMarker
<1> QED
  BY <1>9, <1>10, <1>11, <1>12, <1>13, <1>14, <1>15, <1>16, <1>17, <1>18,
     <1>19, <1>20, <1>21, <1>22 DEF PublisherStep, RemoveOfflineMarker

\* A process that dies stops recording or publishing.
LEMMA CrashRefines ==
    ASSUME TypeOK, ClaimInv, NEW x \in Claimants \cup Publishers, Crash(x)
    PROVE  [Access!Next]_(Access!vars)
<1> USE ConstantsAssumption DEF TypeOK, Crash, Goto, session, Claimants, Access!vars
<1>1. CASE x \in Recording
  <2>1. Recording' = Recording \ {x} /\ InPublication' = InPublication
    BY <1>1 DEF Recording, InPublication, Publishing
  <2>2. Access!StopRecording(x)
    BY <1>1, <2>1 DEF Access!StopRecording, Recording, InPublication
  <2> QED  BY <1>1, <2>2 DEF Access!Next, Recording
<1>2. CASE x \in InPublication
  <2>1. InPublication = {x}
    BY <1>2 DEF ClaimInv, WithLease, InPublication
  <2>2. Recording' = Recording /\ InPublication' = {}
    BY <1>2, <2>1 DEF Recording, InPublication, Publishing
  <2>3. Access!StopPublishing(x)
    BY <1>2, <2>1, <2>2 DEF Access!StopPublishing, Recording, InPublication
  <2> QED  BY <1>2, <2>3 DEF Access!Next, InPublication
<1>3. CASE x \notin Recording /\ x \notin InPublication
  <2>1. Recording' = Recording /\ InPublication' = InPublication
    BY <1>3 DEF Recording, InPublication, Publishing
  <2> QED  BY <2>1 DEF Recording, InPublication
<1> QED  BY <1>1, <1>2, <1>3

\* The claim protocol implements exclusive publication over shared recording.
THEOREM Implementation == Spec => ImplementsAccess
<1>1. Init => Access!Init
  BY ConstantsAssumption DEF Init, Access!Init, Claimants, Publishing
<1>2. TypeOK /\ ClaimInv /\ SealInv /\ AgreementInv /\ [Next]_vars
          => [Access!Next]_(Access!vars)
  <2> SUFFICES ASSUME TypeOK, ClaimInv, SealInv, AgreementInv, [Next]_vars
               PROVE  [Access!Next]_(Access!vars)
    OBVIOUS
  <2>1. CASE UNCHANGED vars  BY <2>1 DEF vars, Access!vars
  <2> QED
    <3>1. CASE EditOutside
      <4>1. Access!EditOutside
        BY <3>1 DEF EditOutside, Access!EditOutside
      <4> QED  BY <4>1 DEF Access!Next
    <3> QED  BY <2>1, <3>1, ClaimantRefines, PublisherRefines, CrashRefines DEF Next
<1> QED
  BY <1>1, <1>2, TypeCorrect, ClaimInvariant, SealInvariant, AgreementInvariant, PTL
  DEF Spec, Access!Spec, ImplementsAccess

-----------------------------------------------------------------------------
(* The records of a barrier directory, for every set of calls and devices.  *)
(* The invariant says whose a claim is: while a call holds one, the file is  *)
(* its own, because only its owner removes it; and a start or stop claim is  *)
(* never removed, so nobody writes those records a second time.              *)

Directory == INSTANCE Barrier

Holding == {"claimed", "synced", "replaced", "rollback"}

\* A claim file present belongs to a call about its slot that took it.
ClaimsHaveOwners ==
    \A s \in Slots :
        lock[s] # NoCall =>
            /\ SlotOf[lock[s]] = s
            /\ \/ call[lock[s]] \in Holding \cup {"raised", "crashed"}
               \/ call[lock[s]] = "returned" /\ record[s] # NoCall

HoldersOwnClaims == \A c \in Calls : call[c] \in Holding => lock[SlotOf[c]] = c

RollbackIsALatch == \A c \in Calls : call[c] = "rollback" => c \in Latches

Written ==
    /\ \A c \in Calls : call[c] = "replaced" => record[SlotOf[c]] # NoCall
    /\ \A c \in Starts \cup Stops :
          /\ record[SlotOf[c]] # NoCall => lock[SlotOf[c]] # NoCall
          /\ call[c] \in {"claimed", "synced"} => record[SlotOf[c]] = NoCall
          /\ call[c] = "replaced" => record[SlotOf[c]] = c

DirectoryInv ==
    /\ Directory!TypeOK
    /\ ClaimsHaveOwners
    /\ HoldersOwnClaims
    /\ RollbackIsALatch
    /\ Written
    /\ Directory!StartReturnMeansMine
    /\ QuietReturnIsCovered

LEMMA DirectoryInit == Directory!Init => DirectoryInv
  BY BarrierAssumption
  DEF Directory!Init, DirectoryInv, Directory!TypeOK, ClaimsHaveOwners, HoldersOwnClaims,
      RollbackIsALatch, Written, Directory!StartReturnMeansMine, QuietReturnIsCovered, Holding,
      Calls, Directory!Calls

(* What every step of one call has in common: the others keep their place,  *)
(* and only the slot of the call changes.                                   *)
LEMMA DirectoryStep ==
    ASSUME DirectoryInv, NEW c \in Calls, Directory!Step(c) \/ Directory!Crash(c)
    PROVE  DirectoryInv'
<1> USE BarrierAssumption
    DEF Calls, Holding, Directory!Calls, Directory!Ended, Directory!Goto, Directory!Step,
        Directory!TakeClaim, Directory!OpenFails, Directory!SyncClaim, Directory!SyncClaimFails,
        Directory!ReplaceRecord, Directory!WriteFails, Directory!SyncRecord,
        Directory!SyncRecordFails, Directory!RemoveClaim, Directory!RemoveClaimFails,
        Directory!Crash, Directory!Failing, Directory!ReadyToWrite
<1>1. Directory!TypeOK'
  BY DEF DirectoryInv, Directory!TypeOK
<1>2. ClaimsHaveOwners'
  BY DEF DirectoryInv, Directory!TypeOK, ClaimsHaveOwners, HoldersOwnClaims, Written
<1>3. HoldersOwnClaims'
  BY DEF DirectoryInv, Directory!TypeOK, HoldersOwnClaims
<1>4. RollbackIsALatch'
  BY DEF DirectoryInv, Directory!TypeOK, RollbackIsALatch
<1>5. Written'
  BY DEF DirectoryInv, Directory!TypeOK, HoldersOwnClaims, RollbackIsALatch, Written
<1>6. Directory!StartReturnMeansMine'
  BY DEF DirectoryInv, Directory!TypeOK, HoldersOwnClaims, Written, Directory!StartReturnMeansMine
<1>7. QuietReturnIsCovered'
  BY DEF DirectoryInv, Directory!TypeOK, ClaimsHaveOwners, Written, QuietReturnIsCovered
<1> QED BY <1>1, <1>2, <1>3, <1>4, <1>5, <1>6, <1>7 DEF DirectoryInv

LEMMA DirectoryNext == DirectoryInv /\ [Directory!Next]_Directory!vars => DirectoryInv'
<1>1. CASE UNCHANGED Directory!vars
  BY <1>1
  DEF Directory!vars, DirectoryInv, Directory!TypeOK, ClaimsHaveOwners, HoldersOwnClaims,
      RollbackIsALatch, Written, Directory!StartReturnMeansMine, QuietReturnIsCovered
<1>2. CASE Directory!Next
  BY <1>2, DirectoryStep DEF Calls, Directory!Calls, Directory!Next
<1> QED BY <1>1, <1>2

(* The claims, records and program points keep their types.                 *)
THEOREM DirectoryTypes == Directory!Spec => []Directory!TypeOK
<1>1. DirectoryInv => Directory!TypeOK
  BY DEF DirectoryInv
<1> QED BY <1>1, DirectoryInit, DirectoryNext, PTL DEF Directory!Spec

(* schedule_start returns to the one caller whose start is visible.         *)
THEOREM StartIsMine == Directory!Spec => []Directory!StartReturnMeansMine
<1>1. DirectoryInv => Directory!StartReturnMeansMine
  BY DEF DirectoryInv
<1> QED BY <1>1, DirectoryInit, DirectoryNext, PTL DEF Directory!Spec

(* A quiet return leaves the event to somebody who answers for it.          *)
THEOREM QuietIsCovered == Directory!Spec => []QuietReturnIsCovered
<1>1. DirectoryInv => QuietReturnIsCovered
  BY DEF DirectoryInv
<1> QED BY <1>1, DirectoryInit, DirectoryNext, PTL DEF Directory!Spec

(* The start and the stop, once visible, stay what they are.                *)
THEOREM BoundaryStays == Directory!Spec => BoundaryWrittenOnce
<1> DEFINE Stays == \A c \in Starts \cup Stops :
               record[SlotOf[c]] # NoCall => record'[SlotOf[c]] = record[SlotOf[c]]
<1>1. ASSUME DirectoryInv, Directory!Next PROVE Stays
  <2>1. PICK d \in Calls : Directory!Step(d) \/ Directory!Crash(d)
    BY <1>1 DEF Calls, Directory!Calls, Directory!Next
  <2>2. CASE Directory!ReplaceRecord(d)
    <3>1. ASSUME NEW c \in Starts \cup Stops, record[SlotOf[c]] # NoCall
          PROVE  SlotOf[d] # SlotOf[c]
      \* Otherwise d holds the claim of a slot whose record it may still write.
      <4>1. call[d] \in {"claimed", "synced"}
        BY <2>2 DEF Directory!ReplaceRecord, Directory!ReadyToWrite
      <4>2. d \in Starts \cup Stops => record[SlotOf[d]] = NoCall
        BY <1>1, <4>1 DEF DirectoryInv, Written
      <4>3. d \in Latches => SlotOf[d] # SlotOf[c]
        BY BarrierAssumption
      <4> QED BY <3>1, <4>2, <4>3 DEF Calls
    <3> QED BY <1>1, <2>2, <3>1, BarrierAssumption
    DEF Directory!ReplaceRecord, DirectoryInv, Directory!TypeOK, Calls, Directory!Calls
  <2>3. CASE ~Directory!ReplaceRecord(d)
    BY <2>1, <2>3
    DEF Directory!Step, Directory!Crash, Directory!TakeClaim, Directory!OpenFails,
        Directory!SyncClaim, Directory!SyncClaimFails, Directory!WriteFails,
        Directory!SyncRecord, Directory!SyncRecordFails, Directory!RemoveClaim,
        Directory!RemoveClaimFails
  <2> QED BY <2>2, <2>3
<1>2. UNCHANGED Directory!vars => Stays
  BY DEF Directory!vars
<1>3. DirectoryInv /\ [Directory!Next]_Directory!vars => [Stays]_<<lock, record>>
  BY <1>1, <1>2
<1> QED BY <1>3, DirectoryInit, DirectoryNext, PTL DEF Directory!Spec, BoundaryWrittenOnce

=============================================================================
