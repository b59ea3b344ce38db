-------------------------- MODULE SessionParties --------------------------
(***************************************************************************)
(* Who works in a session's directory, what the directory holds, and what  *)
(* the claims on it promise; SessionLifecycle says how they keep it.       *)
(***************************************************************************)
EXTENDS Naturals

CONSTANTS
    Producers,      \* processes that enter producer_claim
    Writers,        \* processes that open an AppendOnlySessionWriter
    Publishers,     \* processes that run build_index
    Claims,         \* marker files: .producer.<id>.lock, <device>/.writer.lock
    ClaimOf,        \* the marker each producer or writer creates
    OutsideEdits,   \* may something that takes no claim rewrite a source?
    MaxWrites,      \* bound on the versions of the session's sources
    Absent

Claimants == Producers \cup Writers

ASSUME ConstantsAssumption ==
    /\ Claimants \cap Publishers = {}
    /\ ClaimOf \in [Claimants -> Claims]
    /\ OutsideEdits \in BOOLEAN
    /\ MaxWrites \in Nat
    /\ Absent \notin Claimants \cup Publishers \cup Nat

VARIABLES
    marker,         \* who created the marker file that is present, per claim
    offlineMarker,  \* who created .offline.lock, if it is present
    source,         \* the version of the recorded files
    seal,           \* the version session.seal.json records, or Absent
    sync,           \* the version the published sync/ directory was built from
    held,           \* the version each publisher has read into memory
    scanned,        \* the markers each publisher has looked for
    at              \* what each process does next

Publishing  == {"open_seal", "verify_captured", "replace_seal", "verify_seal",
                "open_index", "verify_sources", "publish_index", "validate",
                "commit"}

\* While a publisher hashes, seals or indexes the session no producer or
\* writer is inside its with-block, whatever the interleaving of the two
\* create-then-check sequences and whatever was left behind by a crash.
PublicationExclusion ==
    \A o \in Publishers, c \in Claimants :
        ~(at[o] \in Publishing /\ at[c] = "active")

\* The published index is always one built from exactly the sources the seal
\* records, also when a source is rewritten behind the publisher's back.
IndexMatchesSeal == sync # Absent => sync = seal

\* session.seal.json is written once: no later build, failure or crash of
\* another process replaces or removes it.
SealWrittenOnce == [][seal # Absent => seal' = seal]_seal

\* The claims implement the abstract readers-writer access of SessionAccess,
\* also when something that takes no claim rewrites a source.
Access == INSTANCE SessionAccess WITH
    recording <- {c \in Claimants : at[c] = "active"},
    publishing <- {o \in Publishers : at[o] \in Publishing}

ImplementsAccess == Access!Spec
=============================================================================
