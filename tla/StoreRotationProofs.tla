------------------------ MODULE StoreRotationProofs ------------------------
(***************************************************************************)
(* Proofs about StoreRotation for every set of rows, sessions, contents    *)
(* and calls, both engines and every size of a batch.                      *)
(*                                                                         *)
(* Three invariants.  Sound gives every row, in the store or on its way to *)
(* it, what makes it readable: it is sealed under the old or the new key,  *)
(* only a row under the new key carries the new epoch, and its hash is its *)
(* own.  UnhashedAre fixes the content of the rows without a hash, for     *)
(* which a conditional write compares nothing.  Quiet says when nothing    *)
(* that could bring back the old key is left.                              *)
(***************************************************************************)
EXTENDS StoreRotation, RowCodecProofs, FiniteSetTheorems

-----------------------------------------------------------------------------
(* Rows and calls.                                                         *)

Honest(r) == r.hash # NoHash => r.hash = ContentHashOf(r.dek, r.ver, r.data)

(* What a row of the store can be. *)
Stored == {r \in Row :
    /\ r.dek \in {OldKey, NewKey}
    /\ r.ver <= CodeVersion
    /\ r.aad = "legacy" => HasLegacyAAD
    /\ r.epoch = NewEpoch => r.dek = NewKey /\ r.aad = "canonical"
    /\ Honest(r)}
StoredOrNone == Stored \cup {NoRow}

(* What a session writes. *)
Fresh == {r \in Stored : r.aad = "canonical" /\ r.epoch # NewEpoch}
FreshOrNone == Fresh \cup {NoRow}

(* The writes of a call: at most a row made canonical, under any key, and  *)
(* at most one under the key the call holds.                               *)
Conversions(k) ==
    {<< >>} \cup {<< e >> : e \in {f \in Fresh : f.dek = k}}
            \cup {<< c, e >> : c \in Fresh, e \in {f \in Fresh : f.dek = k}}

(* A call when it begins, and one that is in flight. *)
Begun == {c \in [key : RowIds, held : {OldKey, NewKey}, expected : HashOrNone,
                 writes : Seq(Fresh), upgrade : FreshOrNone, record : FreshOrNone] :
    /\ c.writes \in Conversions(c.held)
    /\ c.upgrade # NoRow => c.upgrade.dek = c.held
    /\ c.record # NoRow => c.record.dek = c.held}
InFlight == {c \in Begun : c.writes = << >> => c.record # NoRow}

Sound ==
    /\ rows \in [RowIds -> StoredOrNone]
    /\ listing \in [RowIds -> StoredOrNone]
    /\ call \in [Sessions -> InFlight \cup {NoCall}]
    /\ late \in [Sessions -> [key : RowIds, record : Fresh] \cup {NoCall}]
    /\ handle \in [Sessions -> SessionKeys]
    /\ previous \in [Sessions -> {OldKey, NoKey}]
    /\ calls \in [Sessions -> 0 .. MaxCalls]
    /\ pending \in BOOLEAN /\ retired \in BOOLEAN /\ quiet \in BOOLEAN
    /\ driver \in {"off", "list", "migrate", "verify", "retire", "done"}
    /\ engine \in Engines
    /\ cursor \in Nat

(* The keys and epochs are distinct. *)
LEMMA Constants ==
    /\ OldKey \in Keys /\ NewKey \in Keys /\ OldKey # NewKey
    /\ NoKey \notin {OldKey, NewKey} /\ NoEpoch # NewEpoch
    /\ CodeVersion \in Versions /\ NewEpoch \in Epochs
BY CodecAssumption, StoreRotationAssumption

LEMMA FreshIsStored == Fresh \subseteq Stored /\ Stored \subseteq Row
BY DEF Fresh, Stored

(* What a session encodes under the key it holds (encodeBlob). *)
LEMMA SealedIsFresh ==
    ASSUME NEW k \in {OldKey, NewKey}, NEW d \in Data, NEW h \in BOOLEAN
    PROVE  LET e == EncodeBlob(k, NoEpoch, d, CodeVersion, h)
           IN  e \in Fresh /\ e.dek = k /\ (h => e.hash # NoHash)
                  /\ (~h => e.hash = NoHash) /\ e.data = d
<1> DEFINE e == EncodeBlob(k, NoEpoch, d, CodeVersion, h)
<1>1. e \in Row
  BY Constants, EncodeBlobType
<1>2. ContentHashOf(k, CodeVersion, d) # NoHash
  BY Constants, NoRowAssumption DEF ContentHashOf, Hash
<1>3. CodeVersion <= CodeVersion
  BY Constants DEF Versions
<1> QED BY <1>1, <1>2, <1>3, Constants DEF Fresh, Stored, Honest, EncodeBlob

(* A legacy row made canonical (migrateLegacyAAD). *)
LEMMA CanonicalIsFresh ==
    ASSUME NEW r \in Stored, CanonicalForm(r) \in Row
    PROVE  /\ CanonicalForm(r) \in Fresh /\ CanonicalForm(r).dek = r.dek
           /\ CanonicalForm(r).hash = r.hash /\ CanonicalForm(r).data = r.data
<1>1. r \in Row
  BY FreshIsStored
<1>2. /\ CanonicalForm(r).dek = r.dek /\ CanonicalForm(r).aad = "canonical"
      /\ CanonicalForm(r).epoch = NoEpoch /\ CanonicalForm(r).ver = r.ver
      /\ CanonicalForm(r).hash = r.hash /\ CanonicalForm(r).data = r.data
  BY <1>1 DEF CanonicalForm, Row
<1> QED BY <1>2, Constants DEF Fresh, Stored, Honest

(* A row the driver encrypts again (reencryptRowIfNeeded). *)
LEMMA MigratedIsStored ==
    ASSUME NEW r \in StoredOrNone, MustMigrate(r)
    PROVE  /\ r \in Stored /\ Migrated(r) \in Stored /\ Migrated(r).data = r.data
           /\ Migrated(r).epoch = NewEpoch /\ (r.hash = NoHash <=> Migrated(r).hash = NoHash)
           /\ Decodes(NewKey, Migrated(r), CodeVersion)
<1>1. r \in Stored
  BY DEF StoredOrNone, MustMigrate, AlreadyMigrated, Decodes, DecodesAs, IsBlob
<1>2. r.data \in Data /\ NewEpoch \in Epochs \cup {NoEpoch} /\ CodeVersion <= CodeVersion
  BY <1>1, FreshIsStored, Constants DEF Row, Versions
<1>3. Migrated(r) \in Row
  BY <1>2, Constants, EncodeBlobType DEF Migrated, Reencrypted
<1>4. ContentHashOf(NewKey, CodeVersion, r.data) # NoHash
  BY <1>2, Constants, NoRowAssumption DEF ContentHashOf, Hash
<1> QED
  BY <1>1, <1>2, <1>3, <1>4, Constants
     DEF Migrated, Reencrypted, EncodeBlob, Stored, Honest, Decodes, DecodesAs

(* What a read writes under the keys of its session (decodeWithCandidates): *)
(* an unhashed row stays unhashed and keeps its content.                    *)
LEMMA ReadWrites ==
    ASSUME NEW r \in StoredOrNone, NEW cur \in {OldKey, NewKey}, NEW prev
    PROVE  LET w == CandidateWrites(cur, prev, r, CodeVersion)
           IN  /\ w \in Conversions(cur) /\ w \in Seq(Fresh)
               /\ \A i \in DOMAIN w : w[i].hash = NoHash
                                      => r \in Stored /\ r.hash = NoHash /\ w[i].data = r.data
<1> DEFINE w == CandidateWrites(cur, prev, r, CodeVersion)
           c == CanonicalForm(r)
           e == EncodeBlob(cur, NoEpoch, r.data, CodeVersion, r.hash # NoHash)
           keeps(f) == f.hash = NoHash => r.hash = NoHash /\ f.data = r.data
<1>1. r \in RowOrNone /\ (r \in Row => r \in Stored /\ r.data \in Data)
  BY NoRowAssumption, FreshIsStored DEF StoredOrNone, RowOrNone, Row
<1>2. \/ w = << >>
      \/ w = << c >> /\ r \in Row /\ c \in Row /\ r.dek = cur
      \/ w = << e >> /\ r \in Row
      \/ w = << c, e >> /\ r \in Row /\ c \in Row
  BY <1>1, Constants, CandidateWritesShape
<1>3. ASSUME r \in Row
      PROVE  r \in Stored /\ e \in Fresh /\ e.dek = cur /\ keeps(e)
  BY <1>1, <1>3, SealedIsFresh
<1>4. ASSUME r \in Row, c \in Row
      PROVE  c \in Fresh /\ c.dek = r.dek /\ keeps(c)
  BY <1>1, <1>4, CanonicalIsFresh
<1> HIDE DEF c, e, w
<1>5. w \in Conversions(cur)
  BY <1>2, <1>3, <1>4 DEF Conversions
<1>6. w \in Seq(Fresh)
  BY <1>2, <1>3, <1>4, EmptySeq, ShortSeqs
<1>7. \A i \in DOMAIN w : w[i].hash = NoHash
                          => r \in Stored /\ r.hash = NoHash /\ w[i].data = r.data
  BY <1>2, <1>3, <1>4
<1> QED BY <1>5, <1>6, <1>7 DEF w

-----------------------------------------------------------------------------
(* Sound holds in every reachable state.                                   *)

LEMMA InitSound == Init => Sound
<1> SUFFICES ASSUME Init PROVE Sound
  OBVIOUS
<1>1. rows \in [RowIds -> StoredOrNone]
  <2>1. rows \in InitialRows /\ rows \in [RowIds -> RowOrNone]
    BY StoreRotationAssumption DEF Init
  <2>2. ASSUME NEW k \in RowIds, rows[k] # NoRow
        PROVE  rows[k] \in Stored
    <3>1. rows[k] \in Row
      BY <2>1, <2>2 DEF RowOrNone
    <3> QED BY <2>1, <2>2, <3>1, InitialRowsAssumption DEF Stored, Honest
  <2> QED BY <2>1, <2>2 DEF StoredOrNone
<1>2. listing \in [RowIds -> StoredOrNone]
  BY DEF Init, NothingListed, StoredOrNone
<1>3. 0 \in 0 .. MaxCalls
  BY StoreRotationAssumption
<1> QED BY <1>1, <1>2, <1>3 DEF Init, Sound, SessionKeys

(* A call that goes on is sound, and so is the upgrade it sends off. *)
LEMMA ContinueSound ==
    ASSUME Sound, NEW s \in Sessions, NEW c \in Begun, Continue(s, c)
    PROVE  /\ call' \in [Sessions -> InFlight \cup {NoCall}]
           /\ late' \in [Sessions -> [key : RowIds, record : Fresh] \cup {NoCall}]
<1>1. c.key \in RowIds /\ c.upgrade \in FreshOrNone
  BY DEF Begun
<1>2. (c.writes = << >> /\ c.record = NoRow) \/ c \in InFlight
  BY DEF InFlight
<1>3. call' \in [Sessions -> InFlight \cup {NoCall}]
  BY <1>2 DEF Sound, Continue
<1>4. late' \in [Sessions -> [key : RowIds, record : Fresh] \cup {NoCall}]
  BY <1>1 DEF Sound, Continue, FreshOrNone
<1> QED BY <1>3, <1>4

(* What a get() or mutate() prepares when it begins. *)
LEMMA BeginSound ==
    ASSUME Sound, NEW s \in Sessions, NEW k \in RowIds, NEW m \in BOOLEAN,
           BeginCall(s, k, m)
    PROVE  \E c \in Begun :
              /\ c.key = k /\ c.held = handle[s]
              /\ c.writes = CandidateWrites(handle[s], previous[s], rows[k], CodeVersion)
              /\ c.upgrade # NoRow => c.upgrade.hash # NoHash
              /\ c.record # NoRow => c.record.hash # NoHash
              /\ Continue(s, c)
<1> DEFINE r == rows[k]
           cur == handle[s]
           prev == previous[s]
           upgraded == Upgraded(cur, prev, r, CodeVersion)
           sealed(d) == EncodeBlob(cur, NoEpoch, d, CodeVersion, TRUE)
           w == CandidateWrites(cur, prev, r, CodeVersion)
           u == IF upgraded THEN sealed(DataOf(r)) ELSE NoRow
           n == IF m THEN sealed(Change(s, DataOf(r))) ELSE NoRow
           c == [key |-> k, held |-> cur, expected |-> HashOf(r),
                 writes |-> w, upgrade |-> u, record |-> n]
<1>1. r \in StoredOrNone /\ cur \in {OldKey, NewKey}
  <2>1. cur # NoKey
    BY DEF BeginCall
  <2> QED BY <2>1 DEF Sound, SessionKeys
<1>2. r \in RowOrNone
  BY <1>1, FreshIsStored DEF StoredOrNone, RowOrNone
<1>3. DataOf(r) \in Data /\ HashOf(r) \in HashOrNone /\ Change(s, DataOf(r)) \in Data
  BY <1>2, RowFields, StoreRotationAssumption
<1>4. w \in Conversions(cur) /\ w \in Seq(Fresh)
  BY <1>1, ReadWrites
<1>5. /\ u \in FreshOrNone /\ (u # NoRow => u.dek = cur /\ u.hash # NoHash)
      /\ n \in FreshOrNone /\ (n # NoRow => n.dek = cur /\ n.hash # NoHash)
  <2>1. ASSUME NEW d \in Data
        PROVE  sealed(d) \in FreshOrNone /\ sealed(d).dek = cur /\ sealed(d).hash # NoHash
    BY <1>1, SealedIsFresh DEF FreshOrNone
  <2>2. NoRow \in FreshOrNone
    BY DEF FreshOrNone
  <2> HIDE DEF sealed
  <2> QED BY <1>3, <2>1, <2>2
<1>6. Continue(s, c)
  BY DEF BeginCall
<1> HIDE DEF w, u, n
<1>7. c \in Begun
  BY <1>1, <1>3, <1>4, <1>5 DEF Begun
<1>8. /\ c.key = k /\ c.held = handle[s] /\ c.writes = w
      /\ c.upgrade # NoRow => c.upgrade.hash # NoHash
      /\ c.record # NoRow => c.record.hash # NoHash
  BY <1>5
<1> QED BY <1>6, <1>7, <1>8 DEF w

(* The next write of a call is a fresh row, under another key than the one *)
(* it holds only if the encoding under that key follows.                   *)
LEMMA NextWrite ==
    ASSUME NEW c \in Begun, c.writes # << >>
    PROVE  /\ Head(c.writes) \in Fresh
           /\ Head(c.writes).dek = c.held \/ Len(c.writes) = 2
           /\ [c EXCEPT !.writes = Tail(@)] \in Begun
           /\ \A i \in DOMAIN Tail(c.writes) :
                 i + 1 \in DOMAIN c.writes /\ Tail(c.writes)[i] = c.writes[i + 1]
           /\ 1 \in DOMAIN c.writes /\ Head(c.writes) = c.writes[1]
<1> DEFINE own == {f \in Fresh : f.dek = c.held}
           t == Tail(c.writes)
           h == Head(c.writes)
<1>1. c.writes \in Seq(Fresh)
  BY DEF Begun
<1>2. /\ h \in Fresh /\ t \in Seq(Fresh) /\ h = c.writes[1] /\ 1 \in DOMAIN c.writes
      /\ \A i \in DOMAIN t : i + 1 \in DOMAIN c.writes /\ t[i] = c.writes[i + 1]
  <2>1. Len(c.writes) \in Nat \ {0} /\ DOMAIN c.writes = 1 .. Len(c.writes)
    BY <1>1, EmptySeq, LenProperties
  <2>2. /\ h \in Fresh /\ t \in Seq(Fresh) /\ Len(t) = Len(c.writes) - 1
        /\ \A i \in 1 .. Len(t) : t[i] = c.writes[i + 1]
    BY <1>1, HeadTailProperties
  <2>3. DOMAIN t = 1 .. Len(t)
    BY <2>2, LenProperties
  <2>4. h = c.writes[1]
    BY <1>1
  <2> HIDE DEF t, h
  <2> QED BY <2>1, <2>2, <2>3, <2>4
<1>3. \/ \E e \in own : c.writes = << e >>
      \/ \E a \in Fresh, e \in own : c.writes = << a, e >>
  BY DEF Begun, Conversions
<1>4. (h.dek = c.held \/ Len(c.writes) = 2) /\ t \in Conversions(c.held)
  <2>1. ASSUME NEW e \in own, c.writes = << e >>
        PROVE  h = e /\ t = << >>
    BY <2>1
  <2>2. ASSUME NEW a \in Fresh, NEW e \in own, c.writes = << a, e >>
        PROVE  Len(c.writes) = 2 /\ t = << e >>
    BY <2>2
  <2> HIDE DEF t, h
  <2> QED BY <1>3, <2>1, <2>2 DEF Conversions
<1> HIDE DEF t, h
<1>5. [c EXCEPT !.writes = t] \in Begun
  BY <1>2, <1>4 DEF Begun
<1> QED BY <1>2, <1>4, <1>5 DEF t, h

LEMMA SessionSound ==
    ASSUME Sound, NEW s \in Sessions, SessionStep(s)
    PROVE  Sound'
<1> USE DEF driverVars, batchVars
<1>1. CASE AdoptRotation(s)
  BY <1>1 DEF Sound, AdoptRotation, SessionKeys
<1>2. CASE FinishSession(s)
  BY <1>2 DEF Sound, FinishSession
<1>3. CASE Lock(s)
  BY <1>3 DEF Sound, Lock, SessionKeys
<1>4. CASE Unlock(s)
  BY <1>4 DEF Sound, Unlock, SessionKeys
<1>5. ASSUME NEW k \in RowIds, NEW m \in BOOLEAN, BeginCall(s, k, m)
      PROVE  Sound'
  <2>1. PICK c \in Begun : Continue(s, c)
    BY <1>5, BeginSound
  <2>2. /\ call' \in [Sessions -> InFlight \cup {NoCall}]
        /\ late' \in [Sessions -> [key : RowIds, record : Fresh] \cup {NoCall}]
    BY <2>1, ContinueSound
  <2>3. /\ calls[s] < MaxCalls /\ calls' = [calls EXCEPT ![s] = @ + 1]
        /\ UNCHANGED << rows, handle, previous, driverVars, quiet >>
    BY <1>5 DEF BeginCall
  <2>4. calls' \in [Sessions -> 0 .. MaxCalls]
    BY <2>3, StoreRotationAssumption DEF Sound
  <2> QED BY <2>2, <2>3, <2>4 DEF Sound
<1>6. CASE ConvergeWrite(s)
  <2> DEFINE c == call[s]
             rest == [c EXCEPT !.writes = Tail(@)]
  <2>1. c \in Begun /\ c.writes # << >> /\ c.key \in RowIds
    BY <1>6 DEF ConvergeWrite, Sound, InFlight, Begun
  <2>2. Head(c.writes) \in Fresh /\ rest \in Begun
    BY <2>1, NextWrite
  <2>3. Continue(s, rest)
    BY <1>6 DEF ConvergeWrite
  <2> HIDE DEF rest
  <2>4. /\ call' \in [Sessions -> InFlight \cup {NoCall}]
        /\ late' \in [Sessions -> [key : RowIds, record : Fresh] \cup {NoCall}]
    BY <2>2, <2>3, ContinueSound
  <2>5. rows' \in [RowIds -> StoredOrNone]
    BY <1>6, <2>2, FreshIsStored DEF ConvergeWrite, Sound, StoredOrNone, Fresh
  <2> QED BY <1>6, <2>4, <2>5 DEF ConvergeWrite, Sound
<1>7. CASE MutateWrites(s)
  <2>1. call[s].record \in Fresh
    BY <1>7 DEF MutateWrites, Sound, InFlight, Begun, FreshOrNone
  <2>2. rows' \in [RowIds -> StoredOrNone]
    BY <1>7, <2>1 DEF MutateWrites, Sound, StoredOrNone, Fresh
  <2> QED BY <1>7, <2>2 DEF MutateWrites, Sound
<1>8. CASE AbandonCall(s)
  BY <1>8 DEF Sound, AbandonCall
<1>9. CASE LateSaved(s)
  <2>1. late[s].record \in Fresh
    BY <1>9 DEF LateSaved, Sound
  <2>2. rows' \in [RowIds -> StoredOrNone]
    BY <1>9, <2>1 DEF LateSaved, Sound, StoredOrNone, Fresh
  <2> QED BY <1>9, <2>2 DEF LateSaved, Sound
<1>10. CASE LateFailed(s)
  BY <1>10 DEF Sound, LateFailed
<1> QED
  BY <1>1, <1>2, <1>3, <1>4, <1>5, <1>6, <1>7, <1>8, <1>9, <1>10 DEF SessionStep, CallStep

LEMMA DriverSound ==
    ASSUME Sound,
           BeginRotation \/ DriverDies \/ DriverStep \/ \E k \in RowIds : MigrateFails(k)
    PROVE  Sound'
<1> USE DEF sessionVars, batchVars, NothingListed, StoredOrNone
<1>1. CASE BeginRotation
  BY <1>1 DEF Sound, BeginRotation
<1>2. CASE DriverDies
  BY <1>2 DEF Sound, DriverDies
<1>3. CASE ResumeRotation
  BY <1>3 DEF Sound, ResumeRotation
<1>4. CASE ListRows
  BY <1>4 DEF Sound, ListRows
<1>5. CASE ListForVerify
  BY <1>5 DEF Sound, ListForVerify
<1>6. CASE Verify
  BY <1>6 DEF Sound, Verify
<1>7. CASE Retire
  BY <1>7 DEF Sound, Retire
<1>8. CASE ListBatch
  <2>1. PICK B \in SUBSET Untagged :
          /\ listing' = [k \in RowIds |-> IF k \in B THEN rows[k] ELSE NoRow]
          /\ driver' = IF B = {} THEN "verify" ELSE "migrate"
          /\ quiet' = (B = {} /\ \A s \in Sessions : ~OldWriter(s))
    BY <1>8 DEF ListBatch
  <2>2. listing' \in [RowIds -> StoredOrNone]
    BY <2>1 DEF Sound
  <2>3. quiet' \in BOOLEAN /\ driver' \in {"verify", "migrate"}
    BY <2>1
  <2>4. UNCHANGED << rows, sessionVars, pending, retired, batchVars >>
    BY <1>8 DEF ListBatch
  <2> QED BY <2>2, <2>3, <2>4 DEF Sound
<1>9. CASE VerifyPage
  <2>1. cursor' \in Nat
    <3>1. cursor' = 0 \/ \E k \in Page : cursor' = Rank[k]
      BY <1>9 DEF VerifyPage
    <3>2. Page \subseteq RowIds
      BY DEF Page
    <3> QED BY <3>1, <3>2, StoreRotationAssumption
  <2> QED BY <1>9, <2>1 DEF VerifyPage, Sound
<1>10. ASSUME NEW k \in RowIds, MigrateRow(k) \/ MigrateBatchRow(k) \/ MigrateFails(k)
       PROVE  Sound'
  <2>1. /\ listing[k] \in StoredOrNone
        /\ rows' = rows \/ (MustMigrate(listing[k])
                            /\ rows' = [rows EXCEPT ![k] = Migrated(listing[k])])
    BY <1>10 DEF Sound, MigrateRow, MigrateBatchRow, MigrateFails
  <2>2. rows' \in [RowIds -> StoredOrNone]
    BY <2>1, MigratedIsStored DEF Sound
  <2>3. Handled(k)
    BY <1>10 DEF MigrateRow, MigrateBatchRow, MigrateFails
  <2> QED BY <2>2, <2>3 DEF Handled, Sound
<1> QED
  BY <1>1, <1>2, <1>3, <1>4, <1>5, <1>6, <1>7, <1>8, <1>9, <1>10 DEF DriverStep

(* Nothing is stored, listed or on its way but rows sealed under the old   *)
(* or the new key, each with its own hash, and only rows under the new key *)
(* carry the new epoch.                                                    *)
THEOREM RowsAreSound == Spec => []Sound
<1>1. Init => Sound
  BY InitSound
<1>2. Sound /\ [Next]_vars => Sound'
  <2> SUFFICES ASSUME Sound, [Next]_vars PROVE Sound'
    OBVIOUS
  <2>1. CASE Next
    BY <2>1, SessionSound, DriverSound DEF Next
  <2>2. CASE UNCHANGED vars
    BY <2>2 DEF vars, sessionVars, driverVars, batchVars, Sound
  <2> QED BY <2>1, <2>2
<1> QED BY <1>1, <1>2, PTL DEF Spec

(* Every reachable state of StoreRotation is well typed. *)
THEOREM TypeCorrect == Spec => []TypeOK
<1>1. Sound => TypeOK
  <2> SUFFICES ASSUME Sound PROVE TypeOK
    OBVIOUS
  <2>1. Seq(Fresh) \subseteq Seq(Row)
    BY FreshIsStored, SeqMonotonic
  <2>2. InFlight \subseteq Call
    BY <2>1, FreshIsStored DEF InFlight, Begun, Call, FreshOrNone, RowOrNone
  <2>3. [key : RowIds, record : Fresh] \subseteq LateSave
    BY FreshIsStored DEF LateSave
  <2>4. StoredOrNone \subseteq RowOrNone
    BY FreshIsStored DEF StoredOrNone, RowOrNone
  <2> QED BY <2>2, <2>3, <2>4 DEF Sound, TypeOK
<1> QED BY <1>1, RowsAreSound, PTL

(* The hash stored with a row is the row's own, whoever wrote it last. *)
THEOREM HashesBelong == Spec => []HashBelongs
<1>1. Sound => HashBelongs
  BY DEF Sound, HashBelongs, StoredOrNone, Stored, Honest
<1> QED BY <1>1, RowsAreSound, PTL

(* A session with both keys reads every row, at every stage of the         *)
(* migration (getPreviousCryptoHandle, decodeWithCandidates).              *)
THEOREM AdoptersRead == Spec => []AdoptersCanRead
<1>1. Sound => AdoptersCanRead
  <2> SUFFICES ASSUME Sound, NEW k \in RowIds
               PROVE  CandidateDecodes(NewKey, OldKey, rows[k], CodeVersion)
    BY DEF AdoptersCanRead
  <2>1. CASE rows[k] = NoRow
    BY <2>1 DEF CandidateDecodes, CurrentWins, FallbackDecodes, Decodes, DecodesAs, IsBlob
  <2>2. CASE rows[k] \in Stored
    <3>1. FallbackDecodes(rows[k].dek, rows[k], CodeVersion)
      BY <2>2, FreshIsStored
         DEF Stored, FallbackDecodes, UsesLegacyAAD, Decodes, DecodesAs, IsBlob, Row
    <3> QED BY <2>2, <3>1, Constants DEF Stored, CandidateDecodes, CurrentWins, PreviousWins
  <2> QED BY <2>1, <2>2 DEF Sound, StoredOrNone
<1> QED BY <1>1, RowsAreSound, PTL

-----------------------------------------------------------------------------
(* Nothing brings the old key back once it is retired in peace.            *)

(* Every row is under the new key and no session can write another one.    *)
Clean ==
    /\ \A k \in RowIds : AtNewEpoch(rows[k])
    /\ \A s \in Sessions : ~OldWriter(s)

(* The driver is past the point at which it can still go back to listing   *)
(* because of a row it has seen.                                           *)
Cleared ==
    \/ retired
    \/ driver = "retire"
    \/ driver = "verify" /\ (engine = "batch" \/ \A k \in RowIds : AtNewEpoch(listing[k]))

Quiet ==
    /\ retired => driver = "done" /\ ~pending
    /\ quiet /\ Cleared => Clean

(* A fresh row under the new key is readable with it, and so is a row that *)
(* carries the new epoch.                                                  *)
LEMMA NewIsReadable ==
    ASSUME NEW r \in StoredOrNone,
           \/ r = NoRow
           \/ r \in Fresh /\ r.dek = NewKey
           \/ r # NoRow /\ r.epoch = NewEpoch
    PROVE  AtNewEpoch(r)
BY DEF StoredOrNone, Stored, Fresh, AtNewEpoch, Decodes, DecodesAs, IsBlob

(* checkRetirementEligibility of a whole listing. *)
LEMMA EligibleIsNew == Eligible => \A k \in RowIds : AtNewEpoch(listing[k])
BY DEF Eligible

LEMMA SessionKeepsClean ==
    ASSUME Sound, Clean, NEW s \in Sessions, SessionStep(s), quiet'
    PROVE  Clean'
<1>1. /\ handle[s] \in {NewKey, NoKey}
      /\ call[s] # NoCall => /\ call[s] \in Begun /\ call[s].held = NewKey
                             /\ \A i \in DOMAIN call[s].writes : call[s].writes[i].dek # OldKey
      /\ late[s] # NoCall => late[s].record.dek # OldKey
  BY DEF Sound, Clean, OldWriter, SessionKeys, InFlight, Begun
<1>2. ASSUME \A t \in Sessions \ {s} : UNCHANGED << handle[t], call[t], late[t] >>,
             ~OldWriter(s)', \A k \in RowIds : rows'[k] = rows[k] \/ AtNewEpoch(rows'[k])
      PROVE  Clean'
  BY <1>2 DEF Clean, OldWriter, AtNewEpoch, Decodes, DecodesAs, IsBlob
<1>3. ASSUME NEW r \in FreshOrNone, r # NoRow => r.dek # OldKey
      PROVE  AtNewEpoch(r)
  <2>1. r \in StoredOrNone
    BY FreshIsStored DEF FreshOrNone, StoredOrNone, Fresh
  <2>2. r = NoRow \/ (r \in Fresh /\ r.dek = NewKey)
    BY <1>3 DEF FreshOrNone, Fresh, Stored
  <2> QED BY <2>1, <2>2, NewIsReadable
<1>4. CASE AdoptRotation(s)
  BY <1>1, <1>2, <1>4, Constants DEF AdoptRotation, OldWriter, Sound
<1>5. CASE FinishSession(s)
  BY <1>1, <1>2, <1>5, Constants DEF FinishSession, OldWriter, Sound
<1>6. CASE Lock(s)
  BY <1>1, <1>2, <1>6, Constants DEF Lock, OldWriter, Sound
<1>7. CASE Unlock(s)
  BY <1>1, <1>2, <1>7, Constants DEF Unlock, OldWriter, Sound
<1>8. ASSUME NEW k \in RowIds, NEW m \in BOOLEAN, BeginCall(s, k, m)
      PROVE  Clean'
  <2>1. PICK c \in Begun :
           /\ c.held = handle[s]
           /\ c.writes = CandidateWrites(handle[s], previous[s], rows[k], CodeVersion)
           /\ Continue(s, c)
    BY <1>8, BeginSound
  <2>2. handle[s] = NewKey /\ UNCHANGED << rows, handle >>
    BY <1>1, <1>8 DEF BeginCall
  <2>3. c.writes = << >>
    BY <2>1, <2>2
       DEF Clean, AtNewEpoch, CandidateWrites, CurrentWins, FallbackDecodes, FallbackWrites,
           UsesLegacyAAD
  <2>4. c.upgrade # NoRow => c.upgrade.dek # OldKey
    BY <2>1, <2>2, Constants DEF Begun
  <2>5. ~OldWriter(s)'
    BY <1>1, <2>1, <2>2, <2>3, <2>4, Constants DEF Continue, OldWriter, Sound
  <2> QED BY <1>2, <2>1, <2>2, <2>5 DEF Continue, Sound
<1>9. CASE ConvergeWrite(s)
  <2> DEFINE c == call[s]
             rest == [c EXCEPT !.writes = Tail(@)]
  <2>1. /\ c \in Begun /\ c.writes # << >> /\ c.held = NewKey /\ c.key \in RowIds
        /\ \A i \in DOMAIN c.writes : c.writes[i].dek # OldKey
        /\ Continue(s, rest) /\ rows' = [rows EXCEPT ![c.key] = Head(c.writes)]
        /\ UNCHANGED handle
    BY <1>1, <1>9 DEF ConvergeWrite, Begun
  <2>2. Head(c.writes) \in Fresh /\ Head(c.writes).dek # OldKey
    BY <2>1, NextWrite
  <2>3. /\ rest.held = NewKey
        /\ rest.upgrade # NoRow => rest.upgrade.dek # OldKey
        /\ \A i \in DOMAIN rest.writes : rest.writes[i].dek # OldKey
    <3>1. \A i \in DOMAIN Tail(c.writes) : Tail(c.writes)[i].dek # OldKey
      BY <2>1, NextWrite
    <3> QED BY <2>1, <3>1, Constants DEF Begun
  <2> HIDE DEF rest
  <2>4. ~OldWriter(s)'
    BY <1>1, <2>1, <2>3, Constants DEF Continue, OldWriter, Sound
  <2>5. \A k \in RowIds : rows'[k] = rows[k] \/ AtNewEpoch(rows'[k])
    BY <1>3, <2>1, <2>2 DEF Sound, FreshOrNone
  <2> QED BY <1>2, <2>1, <2>4, <2>5 DEF Continue, Sound
<1>10. CASE MutateWrites(s)
  <2>1. /\ call[s].record \in FreshOrNone
        /\ call[s].record # NoRow => call[s].record.dek # OldKey
        /\ rows' = rows \/ rows' = [rows EXCEPT ![call[s].key] = call[s].record]
    BY <1>1, <1>10, Constants DEF MutateWrites, Begun
  <2>2. \A k \in RowIds : rows'[k] = rows[k] \/ AtNewEpoch(rows'[k])
    BY <1>3, <2>1 DEF Sound
  <2> QED BY <1>1, <1>2, <1>10, <2>2, Constants DEF MutateWrites, OldWriter, Sound
<1>11. CASE AbandonCall(s)
  BY <1>1, <1>2, <1>11, Constants DEF AbandonCall, OldWriter, Sound
<1>12. CASE LateSaved(s)
  <2>1. \A k \in RowIds : rows'[k] = rows[k] \/ AtNewEpoch(rows'[k])
    BY <1>1, <1>3, <1>12 DEF LateSaved, Sound, FreshOrNone
  <2> QED BY <1>1, <1>2, <1>12, <2>1, Constants DEF LateSaved, OldWriter, Sound
<1>13. CASE LateFailed(s)
  BY <1>1, <1>2, <1>13, Constants DEF LateFailed, OldWriter, Sound
<1> QED
  BY <1>4, <1>5, <1>6, <1>7, <1>8, <1>9, <1>10, <1>11, <1>12, <1>13 DEF SessionStep, CallStep

(* A session does not move the driver. *)
LEMMA SessionLeavesDriver ==
    ASSUME NEW s \in Sessions, SessionStep(s)
    PROVE  UNCHANGED driverVars /\ (quiet' => quiet)
<1>1. CASE Unlock(s)
  BY <1>1 DEF Unlock
<1>2. CASE AdoptRotation(s) \/ FinishSession(s) \/ Lock(s) \/ CallStep(s)
           \/ AbandonCall(s) \/ LateSaved(s) \/ LateFailed(s)
  BY <1>2 DEF AdoptRotation, FinishSession, Lock, CallStep, ConvergeWrite, MutateWrites,
              AbandonCall, LateSaved, LateFailed
<1>3. CASE \E k \in RowIds, m \in BOOLEAN : BeginCall(s, k, m)
  BY <1>3 DEF BeginCall
<1> QED BY <1>1, <1>2, <1>3 DEF SessionStep

LEMMA DriverQuiet ==
    ASSUME Sound, Quiet,
           BeginRotation \/ DriverDies \/ DriverStep \/ \E k \in RowIds : MigrateFails(k)
    PROVE  Quiet'
<1>1. engine = "store" \/ engine = "batch"
  BY StoreRotationAssumption DEF Sound
<1>2. ASSUME UNCHANGED << rows, sessionVars >>, Clean
      PROVE  Clean'
  BY <1>2 DEF Clean, OldWriter, sessionVars
<1>3. CASE BeginRotation \/ ResumeRotation \/ ListRows
  BY <1>3 DEF BeginRotation, ResumeRotation, ListRows, Quiet, Cleared
<1>4. CASE DriverDies
  BY <1>4 DEF DriverDies, Quiet, Cleared
<1>5. CASE ListForVerify
  <2>1. ASSUME quiet', Cleared' PROVE Clean
    <3>1. \A k \in RowIds : AtNewEpoch(listing'[k])
      BY <1>5, <2>1 DEF ListForVerify, Quiet, Cleared, batchVars
    <3> QED BY <1>5, <2>1, <3>1 DEF ListForVerify, Clean
  <2> QED BY <1>2, <1>5, <2>1 DEF ListForVerify, Quiet
<1>6. CASE Verify
  BY <1>2, <1>6, EligibleIsNew DEF Verify, Quiet, Cleared
<1>7. CASE Retire
  BY <1>2, <1>7 DEF Retire, Quiet, Cleared
<1>8. CASE ListBatch
  <2>1. PICK B \in SUBSET Untagged :
          /\ B # Untagged => Cardinality(B) = BatchSize
          /\ driver' = IF B = {} THEN "verify" ELSE "migrate"
          /\ quiet' = (B = {} /\ \A s \in Sessions : ~OldWriter(s))
    BY <1>8 DEF ListBatch
  <2>2. /\ UNCHANGED << rows, sessionVars, pending, retired, batchVars >>
        /\ ~retired
    BY <1>8 DEF ListBatch, Quiet
  <2>3. ASSUME quiet' PROVE Clean
    <3>1. B = {} /\ Untagged = {}
      BY <2>1, <2>3, FS_EmptySet, StoreRotationAssumption
    <3>2. ASSUME NEW k \in RowIds PROVE AtNewEpoch(rows[k])
      <4>1. rows[k] \in StoredOrNone /\ (rows[k] = NoRow \/ rows[k].epoch = NewEpoch)
        BY <3>1 DEF Untagged, Tagged, Sound
      <4> QED BY <4>1, NewIsReadable
    <3> QED BY <2>1, <2>3, <3>2 DEF Clean
  <2> QED BY <1>2, <2>2, <2>3 DEF Quiet
<1>9. CASE VerifyPage
  <2>1. UNCHANGED << rows, sessionVars, pending, retired, quiet >> /\ ~retired
    BY <1>9 DEF VerifyPage, Quiet
  <2>2. Cleared
    BY <1>9 DEF VerifyPage, Cleared
  <2> QED BY <1>2, <2>1, <2>2 DEF Quiet
<1>10. ASSUME NEW k \in RowIds, MigrateRow(k) \/ MigrateBatchRow(k) \/ MigrateFails(k)
       PROVE  Quiet'
  BY <1>10 DEF MigrateRow, MigrateBatchRow, MigrateFails, Handled, Quiet, Cleared
<1> QED
  BY <1>3, <1>4, <1>5, <1>6, <1>7, <1>8, <1>9, <1>10 DEF DriverStep

(* Once the driver is past its last listing, and no session could write    *)
(* under the old key when it was made, or has taken that key up since,     *)
(* every row is under the new key and nothing on its way to the store is   *)
(* under the old one.                                                      *)
THEOREM StaysQuiet == Spec => []Quiet
<1>1. Init => Quiet
  BY DEF Init, Quiet
<1>2. Sound /\ Quiet /\ [Next]_vars => Quiet'
  <2> SUFFICES ASSUME Sound, Quiet, [Next]_vars PROVE Quiet'
    OBVIOUS
  <2>1. ASSUME NEW s \in Sessions, SessionStep(s) PROVE Quiet'
    <3>1. UNCHANGED driverVars /\ (quiet' => quiet)
      BY <2>1, SessionLeavesDriver
    <3>2. Cleared' => Cleared
      BY <3>1 DEF Cleared, driverVars, batchVars
    <3> QED BY <2>1, <3>1, <3>2, SessionKeepsClean DEF Quiet, driverVars
  <2>2. CASE UNCHANGED vars
    BY <2>2 DEF vars, sessionVars, driverVars, batchVars, Quiet, Cleared, Clean, OldWriter
  <2> QED BY <2>1, <2>2, DriverQuiet DEF Next
<1> QED BY <1>1, <1>2, RowsAreSound, PTL DEF Spec

(* A retirement that no session has disturbed leaves no row behind         *)
(* (verifyRotatedRows, verifyRowsDecryptAtEpoch, the retirement gates).    *)
THEOREM RetirementIsSafe == Spec => []SafeRetirement
<1>1. Quiet => SafeRetirement
  BY DEF Quiet, Cleared, Clean, SafeRetirement, AtNewEpoch
<1> QED BY <1>1, StaysQuiet, PTL

-----------------------------------------------------------------------------
(* What a step may do to a row.                                            *)

(* A session writes fresh rows, and those it takes back to the old key are *)
(* the ones TakesBack allows.                                              *)
LEMMA SessionWrites ==
    ASSUME Sound, NEW s \in Sessions, SessionStep(s), NEW k \in RowIds, rows'[k] # rows[k]
    PROVE  rows'[k] \in Fresh /\ (AtNewEpoch(rows'[k]) \/ TakesBack(s, k))
<1>1. ASSUME NEW r \in Fresh, ~AtNewEpoch(r)
      PROVE  r.dek = OldKey
  BY <1>1, NewIsReadable DEF Fresh, StoredOrNone, Stored
<1>2. CASE ConvergeWrite(s)
  <2> DEFINE c == call[s]
  <2>1. /\ c # NoCall /\ c \in Begun /\ c.writes # << >>
        /\ rows' = [rows EXCEPT ![c.key] = Head(c.writes)]
    BY <1>2 DEF ConvergeWrite, Sound, InFlight
  <2>2. c.key = k /\ rows'[k] = Head(c.writes)
    BY <2>1 DEF Sound
  <2>3. Head(c.writes) \in Fresh /\ (Head(c.writes).dek = c.held \/ Len(c.writes) = 2)
    BY <2>1, NextWrite
  <2> QED BY <1>1, <2>1, <2>2, <2>3 DEF TakesBack
<1>3. CASE MutateWrites(s)
  <2> DEFINE c == call[s]
  <2>1. /\ c # NoCall /\ c.record \in Fresh /\ c.record.dek = c.held
        /\ rows' = rows \/ rows' = [rows EXCEPT ![c.key] = c.record]
    BY <1>3, NoRowAssumption, FreshIsStored
       DEF MutateWrites, Sound, InFlight, Begun, FreshOrNone
  <2>2. c.key = k /\ rows'[k] = c.record
    BY <2>1 DEF Sound
  <2> QED BY <1>1, <2>1, <2>2 DEF TakesBack
<1>4. CASE LateSaved(s)
  <2>1. /\ late[s] # NoCall /\ late[s].record \in Fresh
        /\ rows' = [rows EXCEPT ![late[s].key] = late[s].record]
    BY <1>4 DEF LateSaved, Sound
  <2>2. late[s].key = k /\ rows'[k] = late[s].record
    BY <2>1 DEF Sound
  <2> QED BY <1>1, <2>1, <2>2 DEF TakesBack
<1>5. CASE AdoptRotation(s) \/ FinishSession(s) \/ Lock(s) \/ Unlock(s)
           \/ (\E j \in RowIds, m \in BOOLEAN : BeginCall(s, j, m))
           \/ AbandonCall(s) \/ LateFailed(s)
  <2>1. rows' = rows
    BY <1>5 DEF AdoptRotation, FinishSession, Lock, Unlock, BeginCall, AbandonCall, LateFailed
  <2> QED BY <2>1
<1> QED BY <1>2, <1>3, <1>4, <1>5 DEF SessionStep, CallStep

(* The driver writes rows under the new key.                               *)
LEMMA DriverWrites ==
    ASSUME Sound, NEW k \in RowIds, rows'[k] # rows[k],
           BeginRotation \/ DriverDies \/ DriverStep \/ \E j \in RowIds : MigrateFails(j)
    PROVE  /\ MigrateRow(k) \/ MigrateBatchRow(k)
           /\ MustMigrate(listing[k]) /\ rows'[k] = Migrated(listing[k])
           /\ AtNewEpoch(rows'[k])
<1>1. PICK j \in RowIds : MigrateRow(j) \/ MigrateBatchRow(j)
  BY DEF BeginRotation, DriverDies, DriverStep, ResumeRotation, ListRows, ListForVerify, Verify,
         Retire, ListBatch, VerifyPage, MigrateFails
<1>2. MustMigrate(listing[j]) /\ rows' = [rows EXCEPT ![j] = Migrated(listing[j])]
  BY <1>1 DEF MigrateRow, MigrateBatchRow
<1>3. j = k /\ rows'[k] = Migrated(listing[k])
  BY <1>2 DEF Sound
<1>4. AtNewEpoch(Migrated(listing[k]))
  BY <1>2, <1>3, MigratedIsStored DEF Sound, AtNewEpoch
<1> QED BY <1>1, <1>2, <1>3, <1>4

(* Only a straggler takes a row back to the old key: candidates converge   *)
(* in one direction (decodeWithCandidates), and the driver never goes back. *)
THEOREM NoDemigration == Spec => NeverDemigrated
<1>1. Sound /\ [Next]_vars =>
        [\A k \in RowIds :
           AtNewEpoch(rows[k]) /\ ~AtNewEpoch(rows'[k]) => \E s \in Sessions : TakesBack(s, k)]_rows
  <2> SUFFICES ASSUME Sound, Next, NEW k \in RowIds, AtNewEpoch(rows[k]), ~AtNewEpoch(rows'[k])
               PROVE  \E s \in Sessions : TakesBack(s, k)
    BY DEF vars
  <2>1. rows'[k] # rows[k]
    OBVIOUS
  <2>2. CASE \E s \in Sessions : SessionStep(s)
    BY <2>1, <2>2, SessionWrites
  <2>3. CASE ~ \E s \in Sessions : SessionStep(s)
    BY <2>1, <2>3, DriverWrites DEF Next
  <2> QED BY <2>2, <2>3
<1> QED BY <1>1, RowsAreSound, PTL DEF Spec, NeverDemigrated

-----------------------------------------------------------------------------
(* Rows without a hash.                                                    *)

(* A row without a hash has the content the rotation found: sessions hash  *)
(* what they change, and a conversion of an unhashed row keeps its content. *)
Keeps(r, d) == r # NoRow /\ r.hash = NoHash => r.data = d
Hashed(r) == r # NoRow => r.hash # NoHash

UnhashedAre(base) ==
    /\ \A k \in RowIds :
          /\ listing[k] # NoRow => rows[k] # NoRow
          /\ Keeps(rows[k], base[k]) /\ Keeps(listing[k], base[k])
    /\ \A s \in Sessions :
          /\ call[s] # NoCall =>
               /\ Hashed(call[s].upgrade) /\ Hashed(call[s].record)
               /\ \A i \in DOMAIN call[s].writes : Keeps(call[s].writes[i], base[call[s].key])
          /\ late[s] # NoCall => Hashed(late[s].record)

UnhashedFixed == \E base \in [RowIds -> Data] : UnhashedAre(base)

LEMMA InitUnhashed == Init => UnhashedFixed
<1> SUFFICES ASSUME Init PROVE UnhashedFixed
  OBVIOUS
<1> DEFINE base == [k \in RowIds |-> IF rows[k] = NoRow THEN Empty ELSE rows[k].data]
<1>1. Sound
  BY InitSound
<1>2. base \in [RowIds -> Data]
  BY <1>1, CodecAssumption DEF Sound, StoredOrNone, Stored, Row
<1>3. UnhashedAre(base)
  BY DEF Init, NothingListed, UnhashedAre, Keeps
<1> QED BY <1>2, <1>3 DEF UnhashedFixed

(* A call that goes on.                                                    *)
LEMMA ContinueUnhashed ==
    ASSUME Sound, NEW base, UnhashedAre(base), NEW s \in Sessions, NEW c, Continue(s, c),
           Hashed(c.upgrade), Hashed(c.record),
           \A i \in DOMAIN c.writes : Keeps(c.writes[i], base[c.key])
    PROVE  \A t \in Sessions :
             /\ call'[t] # NoCall =>
                  /\ Hashed(call'[t].upgrade) /\ Hashed(call'[t].record)
                  /\ \A i \in DOMAIN call'[t].writes :
                        Keeps(call'[t].writes[i], base[call'[t].key])
             /\ late'[t] # NoCall => Hashed(late'[t].record)
BY DEF Sound, UnhashedAre, Continue

LEMMA SessionUnhashed ==
    ASSUME Sound, NEW base, UnhashedAre(base), NEW s \in Sessions, SessionStep(s)
    PROVE  UnhashedAre(base)'
<1>1. UNCHANGED listing
  BY SessionLeavesDriver DEF driverVars
<1>2. ASSUME \A k \in RowIds :
               rows'[k] # rows[k] => rows'[k] # NoRow /\ Keeps(rows'[k], base[k])
      PROVE  \A k \in RowIds :
               /\ listing'[k] # NoRow => rows'[k] # NoRow
               /\ Keeps(rows'[k], base[k]) /\ Keeps(listing'[k], base[k])
  BY <1>1, <1>2 DEF UnhashedAre
<1>3. CASE ConvergeWrite(s)
  <2> DEFINE c == call[s]
             rest == [c EXCEPT !.writes = Tail(@)]
  <2>1. /\ c \in Begun /\ c.writes # << >> /\ Continue(s, rest)
        /\ rows' = [rows EXCEPT ![c.key] = Head(c.writes)]
        /\ Hashed(c.upgrade) /\ Hashed(c.record)
        /\ \A i \in DOMAIN c.writes : Keeps(c.writes[i], base[c.key])
    BY <1>3 DEF ConvergeWrite, Sound, InFlight, UnhashedAre
  <2>2. /\ Keeps(Head(c.writes), base[c.key]) /\ Head(c.writes) # NoRow
        /\ \A i \in DOMAIN Tail(c.writes) : Keeps(Tail(c.writes)[i], base[c.key])
    BY <2>1, NextWrite, NoRowAssumption, FreshIsStored
  <2>3. /\ rest.key = c.key /\ Hashed(rest.upgrade) /\ Hashed(rest.record)
        /\ \A i \in DOMAIN rest.writes : Keeps(rest.writes[i], base[rest.key])
    BY <2>1, <2>2 DEF Begun
  <2> HIDE DEF rest
  <2>4. \A k \in RowIds :
          rows'[k] # rows[k] => rows'[k] # NoRow /\ Keeps(rows'[k], base[k])
    BY <2>1, <2>2 DEF Sound
  <2> QED BY <1>2, <2>1, <2>3, <2>4, ContinueUnhashed DEF UnhashedAre
<1>4. ASSUME NEW k \in RowIds, NEW m \in BOOLEAN, BeginCall(s, k, m)
      PROVE  UnhashedAre(base)'
  <2>1. PICK c \in Begun :
           /\ c.key = k
           /\ c.writes = CandidateWrites(handle[s], previous[s], rows[k], CodeVersion)
           /\ Hashed(c.upgrade) /\ Hashed(c.record) /\ Continue(s, c)
    BY <1>4, BeginSound DEF Hashed
  <2>2. rows' = rows /\ rows[k] \in StoredOrNone /\ handle[s] \in {OldKey, NewKey}
    BY <1>4 DEF BeginCall, Sound, SessionKeys
  <2>3. \A i \in DOMAIN c.writes : Keeps(c.writes[i], base[c.key])
    <3>1. \A i \in DOMAIN c.writes : c.writes[i].hash = NoHash =>
            rows[k] \in Stored /\ rows[k].hash = NoHash /\ c.writes[i].data = rows[k].data
      BY <2>1, <2>2, ReadWrites
    <3>2. rows[k] \in Stored => rows[k] # NoRow
      BY NoRowAssumption, FreshIsStored
    <3> QED BY <2>1, <3>1, <3>2 DEF UnhashedAre, Keeps
  <2> QED BY <1>2, <2>1, <2>2, <2>3, ContinueUnhashed DEF UnhashedAre
<1>5. CASE MutateWrites(s)
  <2>1. /\ call[s].record \in Fresh /\ Hashed(call[s].record)
        /\ rows' = rows \/ rows' = [rows EXCEPT ![call[s].key] = call[s].record]
    BY <1>5 DEF MutateWrites, Sound, InFlight, Begun, FreshOrNone, UnhashedAre
  <2>2. \A k \in RowIds :
          rows'[k] # rows[k] => rows'[k] # NoRow /\ Keeps(rows'[k], base[k])
    BY <2>1, NoRowAssumption, FreshIsStored DEF Sound, Hashed, Keeps
  <2> QED BY <1>2, <1>5, <2>2 DEF MutateWrites, Sound, UnhashedAre
<1>6. CASE LateSaved(s)
  <2>1. /\ late[s].record \in Fresh /\ Hashed(late[s].record)
        /\ rows' = [rows EXCEPT ![late[s].key] = late[s].record]
    BY <1>6 DEF LateSaved, Sound, UnhashedAre
  <2>2. \A k \in RowIds :
          rows'[k] # rows[k] => rows'[k] # NoRow /\ Keeps(rows'[k], base[k])
    BY <2>1, NoRowAssumption, FreshIsStored DEF Sound, Hashed, Keeps
  <2> QED BY <1>2, <1>6, <2>2 DEF LateSaved, Sound, UnhashedAre
<1>7. CASE AbandonCall(s)
  BY <1>1, <1>7 DEF AbandonCall, Sound, UnhashedAre
<1>8. CASE LateFailed(s)
  BY <1>1, <1>8 DEF LateFailed, Sound, UnhashedAre
<1>9. CASE AdoptRotation(s) \/ FinishSession(s) \/ Lock(s) \/ Unlock(s)
  <2>1. UNCHANGED << rows, call, late >>
    BY <1>9 DEF AdoptRotation, FinishSession, Lock, Unlock
  <2> QED BY <1>1, <2>1 DEF UnhashedAre
<1> QED
  BY <1>3, <1>4, <1>5, <1>6, <1>7, <1>8, <1>9 DEF SessionStep, CallStep

LEMMA DriverUnhashed ==
    ASSUME Sound, NEW base, UnhashedAre(base),
           BeginRotation \/ DriverDies \/ DriverStep \/ \E k \in RowIds : MigrateFails(k)
    PROVE  UnhashedAre(base)'
<1>1. UNCHANGED sessionVars
  BY DEF BeginRotation, DriverDies, DriverStep, ResumeRotation, ListRows, ListForVerify, Verify,
         Retire, ListBatch, VerifyPage, MigrateRow, MigrateBatchRow, MigrateFails, Handled
<1>2. ASSUME NEW k \in RowIds
      PROVE  /\ Keeps(rows'[k], base[k])
             /\ rows[k] # NoRow => rows'[k] # NoRow
  <2>1. CASE rows'[k] # rows[k]
    <3>1. MustMigrate(listing[k]) /\ rows'[k] = Migrated(listing[k])
      BY <2>1, DriverWrites
    <3>2. /\ listing[k] \in Stored /\ Migrated(listing[k]) \in Stored
          /\ Migrated(listing[k]).data = listing[k].data
          /\ Migrated(listing[k]).hash = NoHash => listing[k].hash = NoHash
      BY <3>1, MigratedIsStored DEF Sound
    <3>3. NoRow \notin Stored
      BY NoRowAssumption, FreshIsStored
    <3> QED BY <3>1, <3>2, <3>3 DEF UnhashedAre, Keeps
  <2>2. CASE rows'[k] = rows[k]
    BY <2>2 DEF UnhashedAre
  <2> QED BY <2>1, <2>2
<1>3. ASSUME NEW k \in RowIds
      PROVE  listing'[k] = NoRow \/ listing'[k] = rows[k] \/ listing'[k] = listing[k]
  <2>1. CASE BeginRotation \/ DriverDies \/ ResumeRotation \/ ListRows \/ ListForVerify
             \/ Verify \/ Retire \/ VerifyPage
    BY <2>1 DEF BeginRotation, DriverDies, ResumeRotation, ListRows, ListForVerify, Verify,
                Retire, VerifyPage, NothingListed
  <2>2. CASE ListBatch
    BY <2>2 DEF ListBatch
  <2>3. ASSUME NEW j \in RowIds, MigrateRow(j) \/ MigrateBatchRow(j) \/ MigrateFails(j)
        PROVE  listing' = [listing EXCEPT ![j] = NoRow]
    BY <2>3 DEF MigrateRow, MigrateBatchRow, MigrateFails, Handled
  <2> QED BY <2>1, <2>2, <2>3 DEF DriverStep, Sound
<1>4. ASSUME NEW k \in RowIds
      PROVE  /\ listing'[k] # NoRow => rows'[k] # NoRow
             /\ Keeps(listing'[k], base[k])
  BY <1>2, <1>3 DEF UnhashedAre, Keeps
<1> QED BY <1>1, <1>2, <1>4 DEF UnhashedAre, sessionVars

(* Rows and writes without a hash keep the content the rotation found.     *)
THEOREM UnhashedKeepContent == Spec => []UnhashedFixed
<1>1. Init => UnhashedFixed
  BY InitUnhashed
<1>2. Sound /\ UnhashedFixed /\ [Next]_vars => UnhashedFixed'
  <2> SUFFICES ASSUME Sound, UnhashedFixed, [Next]_vars PROVE UnhashedFixed'
    OBVIOUS
  <2>1. PICK base \in [RowIds -> Data] : UnhashedAre(base)
    BY DEF UnhashedFixed
  <2>2. CASE Next
    <3>1. UnhashedAre(base)'
      BY <2>1, <2>2, SessionUnhashed, DriverUnhashed DEF Next
    <3> QED BY <3>1 DEF UnhashedFixed
  <2>3. CASE UNCHANGED vars
    <3>1. UnhashedAre(base)'
      BY <2>1, <2>3 DEF vars, sessionVars, driverVars, UnhashedAre
    <3> QED BY <3>1 DEF UnhashedFixed
  <2> QED BY <2>2, <2>3
<1> QED BY <1>1, <1>2, RowsAreSound, PTL DEF Spec

(* A batch never overwrites what a session wrote after the batch listed    *)
(* the row (migrateRotationBatch, saveIfMatch), also where the listed hash *)
(* is null and the conditional write compares nothing.                     *)
THEOREM BatchKeeps == Spec => BatchKeepsWrites
<1>1. Sound /\ UnhashedFixed /\ [Next]_vars =>
        [engine = "batch" =>
         \A k \in RowIds :
            rows'[k] # rows[k] /\ rows'[k].epoch = NewEpoch
            => rows[k] # NoRow /\ rows'[k].data = rows[k].data]_rows
  <2> SUFFICES ASSUME Sound, UnhashedFixed, Next, engine = "batch", NEW k \in RowIds,
                      rows'[k] # rows[k], rows'[k].epoch = NewEpoch
               PROVE  rows[k] # NoRow /\ rows'[k].data = rows[k].data
    BY DEF vars
  <2>1. PICK base \in [RowIds -> Data] : UnhashedAre(base)
    BY DEF UnhashedFixed
  <2>2. ~ \E s \in Sessions : SessionStep(s)
    BY SessionWrites DEF Fresh
  <2>3. /\ MigrateRow(k) \/ MigrateBatchRow(k)
        /\ MustMigrate(listing[k]) /\ rows'[k] = Migrated(listing[k])
    BY <2>2, DriverWrites DEF Next
  <2>4. HashOf(rows[k]) = HashOf(listing[k])
    BY <2>3 DEF MigrateRow, MigrateBatchRow, Matches
  <2>5. listing[k] \in Stored /\ rows'[k].data = listing[k].data
    BY <2>3, MigratedIsStored DEF Sound
  <2>6. listing[k] # NoRow /\ rows[k] # NoRow /\ rows[k] \in Stored
    BY <2>1, <2>5, NoRowAssumption, FreshIsStored DEF UnhashedAre, Sound, StoredOrNone
  <2>7. CASE listing[k].hash = NoHash
    BY <2>1, <2>4, <2>5, <2>6, <2>7 DEF HashOf, UnhashedAre, Keeps
  <2>8. CASE listing[k].hash # NoHash
    BY <2>4, <2>5, <2>6, <2>8 DEF HashOf, Stored, Honest, ContentHashOf
  <2> QED BY <2>6, <2>7, <2>8
<1> QED BY <1>1, RowsAreSound, UnhashedKeepContent, PTL DEF Spec, BatchKeepsWrites
=============================================================================
