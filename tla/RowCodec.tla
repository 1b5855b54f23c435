------------------------------ MODULE RowCodec ------------------------------
(***************************************************************************)
(* One stored row of a zechinus store and the pure functions that write    *)
(* and read it: blobCodec.ts (encode, decode, versions), legacyMigration   *)
(* and legacyFallback (old AADs, several candidate keys), and the part of  *)
(* rotationMigration that decides what a DEK rotation writes.              *)
(*                                                                         *)
(* A row abstracts a BlobRecord: which data key (DEK) sealed it, under     *)
(* which AAD convention, the epoch tag it stores, the format version of    *)
(* its envelope, the content, and the content_hash column.  The AAD of a   *)
(* row names the pid of the key that wrote it and the pid is derived from  *)
(* the key, so `dek` stands for both.                                      *)
(***************************************************************************)
EXTENDS Integers, Sequences

CONSTANTS
    Data,           \* contents a row can hold
    Empty,          \* StoreDef.empty: what a missing row decodes to
    Keys,           \* DEKs, including ZeroKey
    ZeroKey,        \* the all-zero key a destroyed closure handle is left with
    NoKey,          \* no handle
    Epochs,         \* epoch tags
    NoEpoch,        \* a blob written without an epoch (wire formats 1 to 4)
    MaxVersion,     \* newest schema version deployed anywhere
    HasLegacyAAD,   \* StoreDef.legacyAAD is given
    NoRow, NoHash

ASSUME CodecAssumption ==
    /\ Empty \in Data
    /\ ZeroKey \in Keys
    /\ NoKey \notin Keys
    /\ NoEpoch \notin Epochs
    /\ MaxVersion \in Nat \ {0}
    /\ HasLegacyAAD \in BOOLEAN

Versions == 1 .. MaxVersion

(* content_hash: an HMAC keyed by the DEK over the envelope {version, data}. *)
Hash == [key : Keys, ver : Versions, data : Data]
HashOrNone == Hash \cup {NoHash}
ContentHashOf(k, v, d) == [key |-> k, ver |-> v, data |-> d]

(* "blank" is a row whose blob column is missing or is not an enc: string. *)
Row == [dek   : Keys,
        aad   : {"canonical", "legacy", "blank"},
        epoch : Epochs \cup {NoEpoch},
        ver   : Versions,
        data  : Data,
        hash  : HashOrNone]
RowOrNone == Row \cup {NoRow}

ASSUME NoRowAssumption == NoRow \notin Row /\ NoHash \notin Hash

HashOf(r) == IF r = NoRow THEN NoHash ELSE r.hash
IsBlob(r) == r # NoRow /\ r.aad # "blank"
DataOf(r) == IF IsBlob(r) THEN r.data ELSE Empty

(* encodeBlob: always the canonical AAD and the code's own version. *)
EncodeBlob(k, e, d, v, withHash) ==
    [dek |-> k, aad |-> "canonical", epoch |-> e, ver |-> v, data |-> d,
     hash |-> IF withHash THEN ContentHashOf(k, v, d) ELSE NoHash]

(* decodeBlob succeeds: GCM accepts the key and AAD (the epoch in the AAD  *)
(* is the one the blob stores), and the row is not newer than the code.    *)
DecodesAs(aad, k, r, v) ==
    IsBlob(r) => r.dek = k /\ r.aad = aad /\ r.ver <= v
Decodes(k, r, v) == DecodesAs("canonical", k, r, v)

(* migrateLegacyAAD: same envelope and same hash under the canonical AAD.  *)
(* It persists before the version check; a legacy row predates the code,   *)
(* so that order shows in no row.                                          *)
CanonicalForm(r) == [r EXCEPT !.aad = "canonical", !.epoch = NoEpoch]

(* decodeWithLegacyFallback under one candidate key: readable, and the     *)
(* writes it makes before it answers.                                      *)
UsesLegacyAAD(k, r, v) == HasLegacyAAD /\ ~Decodes(k, r, v) /\ DecodesAs("legacy", k, r, v)
FallbackDecodes(k, r, v) == Decodes(k, r, v) \/ UsesLegacyAAD(k, r, v)
FallbackWrites(k, r, v) == IF UsesLegacyAAD(k, r, v) THEN << CanonicalForm(r) >> ELSE << >>

(* decodeWithCandidates over <<cur, prev>>; prev = NoKey is no candidate.  *)
CurrentWins(cur, r, v) == FallbackDecodes(cur, r, v)
PreviousWins(cur, prev, r, v) ==
    /\ ~CurrentWins(cur, r, v)
    /\ prev # NoKey
    /\ FallbackDecodes(prev, r, v)

(* Mutants: the previous handle is not tried; a row it read is encoded     *)
(* under it again.                                                         *)
CandidateDecodes_NoPrevious(cur, prev, r, v) == CurrentWins(cur, r, v)
CandidateWrites_Reversed(cur, prev, r, v) ==
    IF PreviousWins(cur, prev, r, v)
    THEN << EncodeBlob(prev, NoEpoch, r.data, v, r.hash # NoHash) >>
    ELSE FallbackWrites(cur, r, v)

CandidateDecodes(cur, prev, r, v) ==
    CurrentWins(cur, r, v) \/ PreviousWins(cur, prev, r, v)

(* The rows it persists, in order: a legacy row is first made canonical    *)
(* under the key that read it; a row read by the previous key is then      *)
(* encoded again under the current one, hashed only if it had a hash.      *)
CandidateWrites(cur, prev, r, v) ==
    IF CurrentWins(cur, r, v)
    THEN FallbackWrites(cur, r, v)
    ELSE IF PreviousWins(cur, prev, r, v)
    THEN FallbackWrites(prev, r, v) \o
         << EncodeBlob(cur, NoEpoch, r.data, v, r.hash # NoHash) >>
    ELSE << >>

(* DecodeResult.upgraded: the envelope is older than the code (migrators   *)
(* ran, or its wire format was 1 or 2), or another candidate won.          *)
Upgraded(cur, prev, r, v) ==
    IsBlob(r) /\ (r.ver < v \/ PreviousWins(cur, prev, r, v))

(* reencryptRowIfNeeded: a row either decodes under the new key (left      *)
(* alone), or is decoded under the old one and sealed at the new epoch.    *)
(* Only the canonical AAD is tried on either side.                         *)
AlreadyMigrated(new, r, v) == Decodes(new, r, v)
CanReencrypt(old, r, v) == Decodes(old, r, v)

(* Mutant: the hash is carried over from the old row. *)
Reencrypted_OldHash(new, e, r, v) == [EncodeBlob(new, e, r.data, v, FALSE) EXCEPT !.hash = r.hash]

Reencrypted(new, e, r, v) == EncodeBlob(new, e, r.data, v, r.hash # NoHash)

(* Mutants: SQL's `content_hash = NULL`, and an upsert for the null case.  *)
Matches_NullNever(r, expected) == expected # NoHash /\ HashOf(r) = expected
Matches_NullAny(r, expected) == expected = NoHash \/ HashOf(r) = expected

(* StorageAdapter.putIfMatch: null matches no row, or a row with no hash. *)
Matches(r, expected) == HashOf(r) = expected
=============================================================================
