--------------------------- MODULE RowStoreProofs ---------------------------
(***************************************************************************)
(* Proofs about RowStore for every set of tabs, calls, contents, keys and  *)
(* transforms: its type invariant; for a store with the lock whose rows    *)
(* are in the current format, that it implements AtomicRow; and for every  *)
(* store what its rows, caches and calls hold.                             *)
(***************************************************************************)
EXTENDS RowStore, RowCodecProofs, FiniteSetTheorems

(* A call that is about to put, or has put, holds a whole record. *)
RecordReady == \A c \in Calls : pc[c] \in {"askPut", "gotPut"} => record[c] \in Row
TypeInv == TypeOK /\ RecordReady

-----------------------------------------------------------------------------
(* What the codec returns.                                                 *)

(* The writes of a read are rows (decodeWithCandidates persists only what  *)
(* migrateLegacyAAD and encodeBlob return).                                *)
LEMMA CandidateWritesType ==
    ASSUME NEW cur \in KeyOrNone, NEW prev \in KeyOrNone, NEW r \in RowOrNone,
           NEW v \in Versions, cur \in Keys \/ ~IsBlob(r)
    PROVE  CandidateWrites(cur, prev, r, v) \in Seq(Row)
<1> DEFINE c == CanonicalForm(r)
           e == EncodeBlob(cur, NoEpoch, r.data, v, r.hash # NoHash)
<1>1. \/ CandidateWrites(cur, prev, r, v) = << >>
      \/ CandidateWrites(cur, prev, r, v) = << c >> /\ c \in Row
      \/ CandidateWrites(cur, prev, r, v) = << e >> /\ e \in Row
      \/ CandidateWrites(cur, prev, r, v) = << c, e >> /\ c \in Row /\ e \in Row
  BY CandidateWritesShape
<1> HIDE DEF c, e
<1> QED BY <1>1, EmptySeq, ShortSeqs

(* What the schema, and a transform of what a call is given, return are    *)
(* contents again.                                                         *)
LEMMA ParsedType == \A d \in Data : Parse(d) \in Data /\ AsLoaded(d) \in Data
BY RowStoreAssumption DEF AsLoaded

LEMMA NextDataType ==
    ASSUME NEW c \in Calls, entry[c] \in Entry
    PROVE  Given(c) \in Data /\ NextData(c) \in Data /\ Parse(NextData(c)) \in Data
<1>1. Given(c) \in Data
  BY ParsedType DEF Given, Entry
<1> QED BY <1>1, ParsedType, RowStoreAssumption DEF NextData

(* A parsed content is one of the readings of a row that says the same.    *)
LEMMA GivenReading ==
    ASSUME NEW c \in Calls, entry[c] \in Entry, NEW d, SameParsed(entry[c].data, d)
    PROVE  Given(c) \in Readings(d)
BY DEF Given, Readings, SameParsed, Entry

(* A loaded content says what its row says. *)
LEMMA LoadedSame == \A d \in Data : SameParsed(AsLoaded(d), d) /\ SameParsed(d, AsLoaded(d))
BY RowStoreAssumption DEF AsLoaded, SameParsed

-----------------------------------------------------------------------------
(* Type correctness.                                                       *)

LEMMA InitType == Init => TypeInv
<1> SUFFICES ASSUME Init PROVE TypeInv
  OBVIOUS
<1>1. NothingRead \in Entry
  BY CodecAssumption DEF NothingRead, Entry, HashOrNone
<1>2. NoRow \in RowOrNone /\ << >> \in Seq(Row)
  BY EmptySeq DEF RowOrNone
<1>3. SessionKeys \subseteq KeyOrNone /\ PreviousKeys \subseteq KeyOrNone /\ NoKey \in KeyOrNone
  BY RowStoreAssumption DEF KeyOrNone
<1>4. TypeOK
  BY <1>1, <1>2, <1>3, RowStoreAssumption DEF Init, TypeOK, Phases
<1>5. RecordReady
  BY DEF Init, RecordReady
<1> QED BY <1>4, <1>5 DEF TypeInv

LEMMA LoadType ==
    ASSUME TypeInv, NEW c \in Calls, Load(c)
    PROVE  TypeInv'
<1> USE DEF TypeInv, TypeOK, RecordReady, callVars, sessionVars
<1>0. TabOf[c] \in Tabs /\ AfterLoad(c) \in {"done", "transform"}
  BY RowStoreAssumption DEF AfterLoad
<1>1. ASSUME StartLoad(c), cache' = cache, previous' = previous, record' = record
      PROVE  /\ pc' \in [Calls -> Phases]
             /\ entry' \in [Calls -> Entry]
             /\ fallback' \in [Calls -> KeyOrNone]
             /\ RecordReady'
  <2>1. CASE pc' = [pc EXCEPT ![c] = "askHash"] /\ UNCHANGED fallback
             /\ cache[TabOf[c]] # NoEntry
             /\ entry' = [entry EXCEPT ![c] = cache[TabOf[c]]]
    BY <1>0, <1>1, <2>1 DEF Phases, OnTheWire
  <2>2. CASE pc' = [pc EXCEPT ![c] = "askRow"] /\ UNCHANGED entry
             /\ fallback' = [fallback EXCEPT ![c] = previous[TabOf[c]]]
    BY <1>0, <1>1, <2>2 DEF Phases, OnTheWire
  <2> QED BY <1>1, <2>1, <2>2 DEF StartLoad
<1>2. CASE BeginLoad(c)
  BY <1>0, <1>1, <1>2 DEF BeginLoad
<1>3. CASE BeginLocked(c)
  BY <1>3 DEF BeginLocked, Phases, Terminal
<1>4. CASE ServeHash(c)
  BY <1>4 DEF ServeHash, Phases, OnTheWire
<1>5. CASE ServeRow(c)
  BY <1>5 DEF ServeRow, Phases, OnTheWire
<1>6. CASE CacheHit(c)
  BY <1>0, <1>6 DEF CacheHit, Phases, Terminal
<1>7. CASE CacheMiss(c)
  BY <1>0, <1>7 DEF CacheMiss, Phases, OnTheWire
<1>8. CASE Decode(c)
  <2>1. held[c] \in Keys \/ ~IsBlob(fetched[c])
    BY <1>8 DEF Decode, Alive, KeyOrNone
  <2>2. CandidateWrites(held[c], fallback[c], fetched[c], CodeVersion) \in Seq(Row)
    BY <2>1, CandidateWritesType, RowStoreAssumption
  <2> QED BY <1>8, <2>2 DEF Decode, Phases, OnTheWire, Terminal
<1>9. CASE ConvergeWrite(c)
  <2>1. Head(writes[c]) \in Row /\ Tail(writes[c]) \in Seq(Row)
    BY <1>9, HeadTailProperties DEF ConvergeWrite
  <2> QED BY <1>9, <2>1 DEF ConvergeWrite, RowOrNone
<1>10. CASE FinishLoad(c)
  <2> DEFINE loaded == [data |-> AsLoaded(DataOf(fetched[c])), hash |-> HashOf(fetched[c])]
             upgrade == EncodeBlob(held[c], NoEpoch, AsLoaded(DataOf(fetched[c])),
                                   CodeVersion, ContentHash)
  <2>1. AsLoaded(DataOf(fetched[c])) \in Data /\ loaded \in Entry
    BY RowFields, ParsedType DEF Entry
  <2>2. ASSUME Alive(c) PROVE upgrade \in Row
    BY <2>1, <2>2, EncodeBlobType, RowStoreAssumption DEF Alive, KeyOrNone
  <2>3. lazy' \in [Calls -> RowOrNone]
    BY <1>10, <2>2 DEF FinishLoad, Upgrade, RowOrNone
  <2>4. cache' \in [Tabs -> Entry \cup {NoEntry}] /\ entry' \in [Calls -> Entry]
    BY <1>0, <1>10, <2>1 DEF FinishLoad
  <2> QED BY <1>0, <1>10, <2>3, <2>4 DEF FinishLoad, Phases, Terminal
<1> QED
  BY <1>2, <1>3, <1>4, <1>5, <1>6, <1>7, <1>8, <1>9, <1>10 DEF Load

LEMMA WriteType ==
    ASSUME TypeInv, NEW c \in Calls, Write(c)
    PROVE  TypeInv'
<1> USE DEF TypeInv, TypeOK, RecordReady, callVars, sessionVars
<1>0. TabOf[c] \in Tabs
  BY RowStoreAssumption
<1>1. CASE BeginSet(c)
  BY <1>0, <1>1 DEF BeginSet, Phases
<1>2. CASE SkipWrite(c)
  BY <1>2 DEF SkipWrite, Phases, Terminal
<1>3. CASE Encode(c)
  <2>1. Parse(NextData(c)) \in Data /\ held[c] \in Keys
    BY <1>3, NextDataType DEF Encode, Alive, KeyOrNone
  <2>2. NextRecord(c) \in Row
    BY <2>1, EncodeBlobType, RowStoreAssumption DEF NextRecord
  <2> QED BY <1>3, <2>2 DEF Encode, Phases, OnTheWire, RowOrNone
<1>4. CASE ServePut(c)
  <2>1. row' \in RowOrNone
    BY <1>4 DEF ServePut
  <2>2. answer' \in [Calls -> {"none", "ok", "conflict"}]
    BY <1>4 DEF ServePut
  <2>3. pc' \in [Calls -> Phases] /\ RecordReady'
    BY <1>4 DEF ServePut, Phases, OnTheWire
  <2> QED BY <1>4, <2>1, <2>2, <2>3 DEF ServePut
<1>5. CASE PutDone(c)
  <2>1. record[c].data \in Data /\ record[c].hash \in HashOrNone
    BY <1>5 DEF PutDone, Row
  <2>2. Kind[c] = "set" => NextRecord(c).hash \in HashOrNone
    <3>1. CASE ContentHash /\ Kind[c] = "set"
      <4>1. held[c] \in Keys /\ Parse(NextData(c)) \in Data
        BY <1>5, <3>1, NextDataType DEF PutDone, Alive, KeyOrNone
      <4>2. NextRecord(c) \in Row
        BY <4>1, EncodeBlobType, RowStoreAssumption DEF NextRecord
      <4> QED BY <4>2 DEF Row
    <3>2. CASE ~ContentHash
      BY <3>2 DEF NextRecord, EncodeBlob, HashOrNone
    <3> QED BY <3>1, <3>2
  <2>3. Written(c) \in Entry
    BY <2>1, <2>2, NextDataType DEF Written, Entry
  <2> QED BY <1>0, <1>5, <2>3 DEF PutDone, Phases, Terminal
<1>6. CASE RetryPut(c)
  <2>1. CASE /\ cache[TabOf[c]] # NoEntry
             /\ pc' = [pc EXCEPT ![c] = "askHash"] /\ UNCHANGED fallback
             /\ entry' = [entry EXCEPT ![c] = cache[TabOf[c]]]
    BY <1>0, <1>6, <2>1 DEF RetryPut, Phases, OnTheWire
  <2>2. CASE /\ pc' = [pc EXCEPT ![c] = "askRow"] /\ UNCHANGED entry
             /\ fallback' = [fallback EXCEPT ![c] = previous[TabOf[c]]]
    BY <1>0, <1>6, <2>2 DEF RetryPut, Phases, OnTheWire
  <2> QED BY <1>6, <2>1, <2>2 DEF RetryPut, StartLoad
<1>7. CASE GiveUp(c)
  BY <1>7 DEF GiveUp, Phases, Terminal
<1> QED
  BY <1>1, <1>2, <1>3, <1>4, <1>5, <1>6, <1>7 DEF Write

LEMMA NextType == TypeInv /\ [Next]_vars => TypeInv'
<1> SUFFICES ASSUME TypeInv, [Next]_vars PROVE TypeInv'
  OBVIOUS
<1>1. ASSUME NEW c \in Calls, Step(c) PROVE TypeInv'
  BY <1>1, LoadType, WriteType DEF Step
<1>2. ASSUME NEW c \in Calls, LazySave(c) \/ LazyFail(c) \/ NetworkError(c)
      PROVE  TypeInv'
  BY <1>2 DEF TypeInv, TypeOK, RecordReady, LazySave, LazyFail, NetworkError,
              callVars, sessionVars, Phases, Terminal, OnTheWire, RowOrNone
<1>3. ASSUME NEW t \in Tabs, Lock(t) PROVE TypeInv'
  <2>1. Destroyed \in KeyOrNone /\ NoKey \in KeyOrNone
    BY CodecAssumption DEF Destroyed, KeyOrNone
  <2> QED BY <1>3, <2>1 DEF TypeInv, TypeOK, RecordReady, Lock
<1>4. ASSUME NEW t \in Tabs, Unlock(t) PROVE TypeInv'
  <2>1. SessionKeys \subseteq KeyOrNone /\ PreviousKeys \subseteq KeyOrNone
    BY RowStoreAssumption DEF KeyOrNone
  <2> QED BY <1>4, <2>1 DEF TypeInv, TypeOK, RecordReady, Unlock, callVars
<1>5. CASE UNCHANGED vars
  BY <1>5 DEF TypeInv, TypeOK, RecordReady, vars, callVars
<1> QED BY <1>1, <1>2, <1>3, <1>4, <1>5 DEF Next

(* Every reachable state is well typed (the shape of the row, the caches   *)
(* and the calls of store.ts in flight).                                   *)
THEOREM TypeCorrect == Spec => []TypeOK
<1>1. Spec => []TypeInv
  BY InitType, NextType, PTL DEF Spec
<1>2. TypeInv => TypeOK
  BY DEF TypeInv
<1> QED BY <1>1, <1>2, PTL

-----------------------------------------------------------------------------
(* The atomicity of a locked store.                                        *)

(* The store has the lock, the rows it starts from are current, and no     *)
(* rotation is under way.                                                  *)
LockedAndCurrent ==
    /\ OptimisticLock
    /\ \A r \in InitialRows : SoundRow(r)
    /\ PreviousKeys = {NoKey}

(* Everything the invariant says of one call. *)
CallSound(c) == NothingToConvert(c) /\ ReadSound(c) /\ WriteSound(c)

(* The part of the state that belongs to call c. *)
Of(c) == << pc[c], held[c], fallback[c], entry[c], fetched[c], writes[c],
            record[c], answer[c], lazy[c] >>

(* A call a step does not touch stays sound, if the row is unchanged or    *)
(* has a hash afterwards.                                                  *)
LEMMA UntouchedCall ==
    ASSUME NEW c \in Calls, CallSound(c), Of(c)' = Of(c),
           row' = row \/ HashOf(row') # NoHash
    PROVE  CallSound(c)'
<1>1. /\ pc'[c] = pc[c] /\ fallback'[c] = fallback[c] /\ entry'[c] = entry[c]
      /\ fetched'[c] = fetched[c] /\ writes'[c] = writes[c] /\ record'[c] = record[c]
      /\ answer'[c] = answer[c] /\ lazy'[c] = lazy[c]
  BY DEF Of
<1>2. NothingToConvert(c)'
  BY <1>1 DEF CallSound, NothingToConvert
<1>3. ReadSound(c)'
  BY <1>1 DEF CallSound, ReadSound, StillUnhashed
<1>4. WriteSound(c)'
  BY <1>1 DEF CallSound, WriteSound, NextData, Given
<1> QED BY <1>2, <1>3, <1>4 DEF CallSound

(* Rows that need no conversion are read without a write and without a     *)
(* background upgrade (decodeWithCandidates with one candidate).           *)
LEMMA NoConversion ==
    ASSUME NEW r \in RowOrNone, SoundRow(r), NEW k \in KeyOrNone
    PROVE  /\ CandidateWrites(k, NoKey, r, CodeVersion) = << >>
           /\ ~Upgraded(k, NoKey, r, CodeVersion)
<1>1. ~UsesLegacyAAD(k, r, CodeVersion)
  BY DEF UsesLegacyAAD, Decodes, DecodesAs, SoundRow, IsBlob
<1>2. CandidateWrites(k, NoKey, r, CodeVersion) = << >>
  BY <1>1 DEF CandidateWrites, PreviousWins, FallbackWrites
<1>3. ~Upgraded(k, NoKey, r, CodeVersion)
  BY RowStoreAssumption DEF Upgraded, PreviousWins, SoundRow, IsBlob, Versions
<1> QED BY <1>2, <1>3

LEMMA InitSound == ASSUME LockedAndCurrent, Init PROVE IInv
<1>1. \A c \in Calls : NothingToConvert(c) /\ ReadSound(c) /\ WriteSound(c)
  BY DEF Init, NothingToConvert, ReadSound, WriteSound, SoundRow, BindsData, NothingRead
<1>2. \A t \in Tabs : previous[t] = NoKey /\ cache[t] = NoEntry
  BY DEF LockedAndCurrent, Init
<1>3. SoundRow(row)
  BY DEF LockedAndCurrent, Init
<1> QED BY <1>1, <1>2, <1>3 DEF IInv

(* The load half of a call keeps the invariant. *)
LEMMA LoadSound ==
    ASSUME LockedAndCurrent, TypeInv, IInv, NEW c \in Calls, Load(c)
    PROVE  IInv'
<1>0. /\ TabOf[c] \in Tabs
      /\ previous[TabOf[c]] = NoKey
      /\ cache[TabOf[c]] # NoEntry =>
            BindsData(cache[TabOf[c]].hash, cache[TabOf[c]].data)
      /\ AfterLoad(c) \in {"done", "transform"}
      /\ AfterLoad(c) = "transform" => Kind[c] # "get"
  BY RowStoreAssumption DEF IInv, AfterLoad
<1>1. \A d \in Calls : CallSound(d)
  BY DEF IInv, CallSound
<1>2. ASSUME row' = row, previous' = previous, cache' = cache, CallSound(c)',
             \A d \in Calls \ {c} : Of(d)' = Of(d)
      PROVE  IInv'
  BY <1>1, <1>2, UntouchedCall DEF IInv, CallSound
<1>3. CASE BeginLoad(c)
  <2>1. CallSound(c)'
    BY <1>0, <1>1, <1>3 DEF BeginLoad, StartLoad, TypeInv, TypeOK, CallSound,
       NothingToConvert, ReadSound, WriteSound, BindsData
  <2>2. \A d \in Calls \ {c} : Of(d)' = Of(d)
    BY <1>3 DEF BeginLoad, StartLoad, Of, TypeInv, TypeOK
  <2> QED BY <1>2, <1>3, <2>1, <2>2 DEF BeginLoad, sessionVars
<1>4. CASE BeginLocked(c)
  <2>1. CallSound(c)'
    BY <1>1, <1>4 DEF BeginLocked, TypeInv, TypeOK, CallSound,
       NothingToConvert, ReadSound, WriteSound, BindsData
  <2>2. \A d \in Calls \ {c} : Of(d)' = Of(d)
    BY <1>4 DEF BeginLocked, Of, TypeInv, TypeOK
  <2> QED BY <1>2, <1>4, <2>1, <2>2 DEF BeginLocked, sessionVars
<1>5. CASE ServeHash(c) \/ ServeRow(c)
  <2>1. CallSound(c)'
    <3>1. fetched'[c] = row /\ SoundRow(row)' /\ SameParsed(DataOf(row), DataOf(row))'
      BY <1>5 DEF IInv, ServeHash, ServeRow, TypeInv, TypeOK, SameParsed, SoundRow, IsBlob
    <3>2. NothingToConvert(c)'
      BY <1>1, <1>5 DEF ServeHash, ServeRow, TypeInv, TypeOK, CallSound, NothingToConvert
    <3>3. ReadSound(c)'
      BY <1>1, <1>5, <3>1 DEF ServeHash, ServeRow, TypeInv, TypeOK, CallSound, ReadSound,
         StillUnhashed, BindsData
    <3>4. WriteSound(c)'
      BY <1>1, <1>5 DEF ServeHash, ServeRow, TypeInv, TypeOK, CallSound, WriteSound
    <3> QED BY <3>2, <3>3, <3>4 DEF CallSound
  <2>2. \A d \in Calls \ {c} : Of(d)' = Of(d)
    BY <1>5 DEF ServeHash, ServeRow, Of, TypeInv, TypeOK
  <2> QED BY <1>2, <1>5, <2>1, <2>2 DEF ServeHash, ServeRow, sessionVars
<1>6. CASE CacheHit(c)
  <2>1. /\ SoundRow(fetched[c]) /\ BindsData(entry[c].hash, entry[c].data)
        /\ HashOf(fetched[c]) # NoHash /\ HashOf(fetched[c]) = entry[c].hash
    BY <1>1, <1>6 DEF CallSound, ReadSound, CacheHit, Confirms
  <2>2. SameParsed(entry[c].data, DataOf(fetched[c]))
    BY <2>1 DEF SoundRow, HashOf, DataOf, BindsData, SameParsed
  <2>3. /\ pc'[c] = AfterLoad(c) /\ row' = row
        /\ fetched'[c] = fetched[c] /\ entry'[c] = entry[c] /\ record'[c] = record[c]
        /\ answer'[c] = answer[c] /\ writes'[c] = writes[c] /\ lazy'[c] = lazy[c]
        /\ fallback'[c] = fallback[c]
    BY <1>6 DEF CacheHit, TypeInv, TypeOK
  <2>4. NothingToConvert(c)'
    BY <1>1, <2>3 DEF CallSound, NothingToConvert
  <2>5. ReadSound(c)'
    BY <1>0, <2>1, <2>2, <2>3 DEF ReadSound, StillUnhashed
  <2>6. WriteSound(c)'
    BY <1>0, <1>1, <1>6, <2>3 DEF CallSound, WriteSound, CacheHit
  <2>7. CallSound(c)'
    BY <2>4, <2>5, <2>6 DEF CallSound
  <2>8. \A d \in Calls \ {c} : Of(d)' = Of(d)
    BY <1>6 DEF CacheHit, Of, TypeInv, TypeOK
  <2> QED BY <1>2, <1>6, <2>7, <2>8 DEF CacheHit, sessionVars
<1>7. CASE CacheMiss(c)
  <2>1. CallSound(c)'
    BY <1>0, <1>1, <1>7 DEF CacheMiss, TypeInv, TypeOK, CallSound,
       NothingToConvert, ReadSound, WriteSound, BindsData
  <2>2. \A d \in Calls \ {c} : Of(d)' = Of(d)
    BY <1>7 DEF CacheMiss, Of, TypeInv, TypeOK
  <2> QED BY <1>2, <1>7, <2>1, <2>2 DEF CacheMiss, sessionVars
<1>8. CASE Decode(c)
  <2>1. fallback[c] = NoKey /\ SoundRow(fetched[c])
    BY <1>1 DEF CallSound, NothingToConvert, ReadSound
  <2>2. CandidateWrites(held[c], fallback[c], fetched[c], CodeVersion) = << >>
    BY <2>1, NoConversion DEF TypeInv, TypeOK
  <2>3. CallSound(c)'
    BY <1>1, <1>8, <2>2 DEF Decode, TypeInv, TypeOK, CallSound,
       NothingToConvert, ReadSound, WriteSound, StillUnhashed
  <2>4. \A d \in Calls \ {c} : Of(d)' = Of(d)
    BY <1>8 DEF Decode, Of, TypeInv, TypeOK
  <2> QED BY <1>2, <1>8, <2>3, <2>4 DEF Decode, sessionVars
<1>9. CASE ConvergeWrite(c)
  BY <1>1, <1>9 DEF ConvergeWrite, CallSound, NothingToConvert
<1>10. CASE FinishLoad(c)
  <2> DEFINE loaded == [data |-> AsLoaded(DataOf(fetched[c])), hash |-> HashOf(fetched[c])]
  <2>0. SameParsed(loaded.data, DataOf(fetched[c])) /\ SameParsed(DataOf(fetched[c]), loaded.data)
    BY RowFields, LoadedSame DEF TypeInv, TypeOK
  <2>1. fallback[c] = NoKey /\ SoundRow(fetched[c]) /\ lazy[c] = NoRow
    BY <1>1 DEF CallSound, NothingToConvert, ReadSound
  <2>2. lazy' = lazy
    BY <1>10, <2>1, NoConversion DEF FinishLoad, Upgrade, TypeInv, TypeOK
  <2>3. BindsData(loaded.hash, loaded.data)
    BY <2>0, <2>1 DEF SoundRow, BindsData, HashOf, DataOf, SameParsed
  <2>4. CallSound(c)'
    <3>1. NothingToConvert(c)' /\ WriteSound(c)'
      BY <1>0, <1>1, <1>10, <2>2 DEF FinishLoad, TypeInv, TypeOK, CallSound,
         NothingToConvert, WriteSound
    <3>2. entry'[c] = loaded /\ fetched'[c] = fetched[c] /\ pc'[c] = AfterLoad(c)
      BY <1>10 DEF FinishLoad, TypeInv, TypeOK
    <3>3. StillUnhashed(c, DataOf(fetched[c]))'
      BY <1>1, <1>10 DEF FinishLoad, CallSound, ReadSound, StillUnhashed
    <3>4. ReadSound(c)'
      BY <1>0, <2>0, <2>1, <2>3, <3>2, <3>3 DEF ReadSound, StillUnhashed, SameParsed
    <3> QED BY <3>1, <3>4 DEF CallSound
  <2>5. \A d \in Calls \ {c} : Of(d)' = Of(d)
    BY <1>10, <2>2 DEF FinishLoad, Of, TypeInv, TypeOK
  <2>6. \A t \in Tabs : cache'[t] # NoEntry => BindsData(cache'[t].hash, cache'[t].data)
    BY <1>0, <1>10, <2>3 DEF FinishLoad, TypeInv, TypeOK, IInv
  <2>7. row' = row /\ previous' = previous
    BY <1>10 DEF FinishLoad, sessionVars
  <2>8. \A d \in Calls : CallSound(d)'
    BY <1>1, <2>4, <2>5, <2>7, UntouchedCall
  <2> QED BY <2>6, <2>7, <2>8 DEF IInv, CallSound
<1> QED
  BY <1>3, <1>4, <1>5, <1>6, <1>7, <1>8, <1>9, <1>10 DEF Load

(* The transform and the put of a call keep the invariant.  A put that the *)
(* storage accepts is the one step that needs it: the hash it compared     *)
(* says that the row still has the content the transform was applied to.   *)
LEMMA WriteSoundStep ==
    ASSUME LockedAndCurrent, TypeInv, IInv, NEW c \in Calls, Write(c)
    PROVE  IInv'
<1>0. /\ TabOf[c] \in Tabs
      /\ previous[TabOf[c]] = NoKey
      /\ cache[TabOf[c]] # NoEntry =>
            BindsData(cache[TabOf[c]].hash, cache[TabOf[c]].data)
      /\ OptimisticLock /\ ContentHash
  BY RowStoreAssumption DEF IInv, LockedAndCurrent
<1>1. \A d \in Calls : CallSound(d)
  BY DEF IInv, CallSound
<1>2. ASSUME row' = row, previous' = previous, cache' = cache, CallSound(c)',
             \A d \in Calls \ {c} : Of(d)' = Of(d)
      PROVE  IInv'
  BY <1>1, <1>2, UntouchedCall DEF IInv, CallSound
<1>3. CASE BeginSet(c)
  BY <1>0, <1>3, RowStoreAssumption DEF BeginSet
<1>4. CASE SkipWrite(c)
  BY <1>0, <1>4 DEF SkipWrite, SkipsWrite
<1>5. CASE Encode(c)
  <2>1. record'[c] = NextRecord(c) /\ held[c] \in Keys /\ Parse(NextData(c)) \in Data
    BY <1>5, NextDataType DEF Encode, TypeInv, TypeOK, Alive, KeyOrNone
  <2>2. NextRecord(c) \in Row /\ NextRecord(c) # NoRow
    <3>1. NextRecord(c) \in Row
      BY <2>1, EncodeBlobType, RowStoreAssumption DEF NextRecord
    <3> QED BY <3>1, NoRowAssumption
  <2>3. /\ NextRecord(c).aad = "canonical" /\ NextRecord(c).ver = CodeVersion
        /\ NextRecord(c).data = Parse(NextData(c))
        /\ NextRecord(c).hash = ContentHashOf(held[c], CodeVersion, Parse(NextData(c)))
    BY <1>0 DEF NextRecord, EncodeBlob
  <2>4. NextRecord(c).hash # NoHash /\ NextRecord(c).hash.data = Parse(NextData(c))
    BY <2>1, <2>3, NoRowAssumption, RowStoreAssumption DEF ContentHashOf, Hash
  <2>5. SoundRow(NextRecord(c))
    BY <2>2, <2>3, <2>4 DEF SoundRow, IsBlob
  <2>6. pc[c] = "transform" /\ pc'[c] = "askPut" /\ entry'[c] = entry[c]
        /\ fetched'[c] = fetched[c] /\ answer'[c] = answer[c] /\ row' = row
        /\ writes'[c] = writes[c] /\ fallback'[c] = fallback[c] /\ lazy'[c] = lazy[c]
    BY <1>5 DEF Encode, TypeInv, TypeOK
  <2>7. CallSound(c)'
    <3>1. NothingToConvert(c)'
      BY <1>1, <2>6 DEF CallSound, NothingToConvert
    <3>2. ReadSound(c)'
      BY <1>1, <2>6 DEF CallSound, ReadSound, StillUnhashed
    <3>3. NextData(c)' = NextData(c)
      BY <2>6 DEF NextData, Given
    <3>4. WriteSound(c)'
      BY <1>1, <2>1, <2>2, <2>3, <2>4, <2>5, <2>6, <3>3 DEF CallSound, WriteSound
    <3> QED BY <3>1, <3>2, <3>4 DEF CallSound
  <2>8. \A d \in Calls \ {c} : Of(d)' = Of(d)
    BY <1>5 DEF Encode, Of, TypeInv, TypeOK
  <2> QED BY <1>2, <1>5, <2>7, <2>8 DEF Encode, sessionVars
<1>6. CASE ServePut(c)
  <2>1. /\ record[c] # NoRow /\ SoundRow(record[c]) /\ record[c].hash # NoHash
        /\ record[c].aad = "canonical"
    BY <1>1, <1>6 DEF ServePut, CallSound, WriteSound
  <2>2. row' = row \/ row' = record[c]
    BY <1>6 DEF ServePut
  <2>3. SoundRow(row') /\ (row' = row \/ HashOf(row') # NoHash)
    BY <2>1, <2>2 DEF IInv, HashOf
  <2>4. CallSound(c)'
    BY <1>1, <1>6 DEF ServePut, TypeInv, TypeOK, CallSound, NothingToConvert,
       ReadSound, WriteSound, NextData, Given
  <2>5. \A d \in Calls \ {c} : Of(d)' = Of(d)
    BY <1>6 DEF ServePut, Of, TypeInv, TypeOK
  <2>6. \A d \in Calls : CallSound(d)'
    BY <1>1, <2>3, <2>4, <2>5, UntouchedCall
  <2> QED BY <1>6, <2>3, <2>6 DEF ServePut, IInv, CallSound, sessionVars
<1>7. CASE PutDone(c)
  <2> DEFINE written == [data |-> NextData(c), hash |-> record[c].hash]
  <2>0. Kind[c] # "set" /\ Written(c) = written
    BY <1>0, RowStoreAssumption DEF Written
  <2>1. /\ record[c] # NoRow /\ SoundRow(record[c])
        /\ record[c].data = Parse(NextData(c)) /\ NextData(c) \in Data
    BY <1>1, <1>7, NextDataType DEF PutDone, CallSound, WriteSound, TypeInv, TypeOK
  <2>2. BindsData(written.hash, written.data)
    BY <2>1, RowStoreAssumption DEF BindsData, SoundRow, SameParsed
  <2>3. \A t \in Tabs : cache'[t] # NoEntry => BindsData(cache'[t].hash, cache'[t].data)
    BY <1>0, <1>7, <2>0, <2>2 DEF PutDone, TypeInv, TypeOK, IInv
  <2>4. CallSound(c)'
    <3>1. Kind[c] # "get"
      BY <1>1, <1>7 DEF PutDone, CallSound, WriteSound
    <3> QED BY <1>1, <1>7, <3>1 DEF PutDone, TypeInv, TypeOK, CallSound, NothingToConvert,
               ReadSound, WriteSound
  <2>5. \A d \in Calls \ {c} : Of(d)' = Of(d)
    BY <1>7 DEF PutDone, Of, TypeInv, TypeOK
  <2>6. row' = row /\ previous' = previous
    BY <1>7 DEF PutDone, sessionVars
  <2>7. \A d \in Calls : CallSound(d)'
    BY <1>1, <2>4, <2>5, <2>6, UntouchedCall
  <2> QED BY <2>3, <2>6, <2>7 DEF IInv, CallSound
<1>8. CASE RetryPut(c)
  <2>1. CallSound(c)'
    BY <1>0, <1>1, <1>8 DEF RetryPut, StartLoad, TypeInv, TypeOK, CallSound,
       NothingToConvert, ReadSound, WriteSound, BindsData
  <2>2. \A d \in Calls \ {c} : Of(d)' = Of(d)
    BY <1>8 DEF RetryPut, StartLoad, Of, TypeInv, TypeOK
  <2> QED BY <1>2, <1>8, <2>1, <2>2 DEF RetryPut, sessionVars
<1>9. CASE GiveUp(c)
  <2>1. CallSound(c)'
    BY <1>1, <1>9 DEF GiveUp, TypeInv, TypeOK, CallSound,
       NothingToConvert, ReadSound, WriteSound
  <2>2. \A d \in Calls \ {c} : Of(d)' = Of(d)
    BY <1>9 DEF GiveUp, Of, TypeInv, TypeOK
  <2> QED BY <1>2, <1>9, <2>1, <2>2 DEF GiveUp, sessionVars
<1> QED
  BY <1>3, <1>4, <1>5, <1>6, <1>7, <1>8, <1>9 DEF Write

LEMMA NextSound ==
    ASSUME LockedAndCurrent, TypeInv, IInv, [Next]_vars
    PROVE  IInv'
<1>1. \A d \in Calls : CallSound(d)
  BY DEF IInv, CallSound
<1>2. ASSUME NEW c \in Calls, Step(c) PROVE IInv'
  BY <1>2, LoadSound, WriteSoundStep DEF Step
<1>3. ASSUME NEW c \in Calls, LazySave(c) \/ LazyFail(c) PROVE IInv'
  BY <1>1, <1>3 DEF LazySave, LazyFail, CallSound, NothingToConvert
<1>4. ASSUME NEW c \in Calls, NetworkError(c) PROVE IInv'
  <2>1. CallSound(c)'
    BY <1>1, <1>4 DEF NetworkError, TypeInv, TypeOK, CallSound, NothingToConvert,
       ReadSound, WriteSound, Terminal
  <2>2. \A d \in Calls \ {c} : Of(d)' = Of(d)
    BY <1>4 DEF NetworkError, Of, TypeInv, TypeOK
  <2> QED BY <1>1, <1>4, <2>1, <2>2, UntouchedCall DEF NetworkError, sessionVars, IInv, CallSound
<1>5. ASSUME NEW t \in Tabs, Lock(t) PROVE IInv'
  <2>1. \A d \in Calls : CallSound(d)'
    BY <1>1, <1>5 DEF Lock, TypeInv, TypeOK, CallSound, NothingToConvert,
       ReadSound, WriteSound, StillUnhashed, NextData, Given
  <2>2. row' = row /\ previous' \in [Tabs -> {NoKey}]
    BY <1>5 DEF Lock, TypeInv, TypeOK, IInv
  <2>3. \A u \in Tabs : cache'[u] # NoEntry => BindsData(cache'[u].hash, cache'[u].data)
    BY <1>5 DEF Lock, TypeInv, TypeOK, IInv
  <2> QED BY <2>1, <2>2, <2>3 DEF IInv, CallSound
<1>6. ASSUME NEW t \in Tabs, Unlock(t) PROVE IInv'
  <2>2. ASSUME NEW d \in Calls PROVE CallSound(d)'
    BY <1>1, <1>6, <2>2, UntouchedCall DEF Unlock, Of, callVars
  <2>3. row' = row /\ cache' = cache /\ \A u \in Tabs : previous'[u] = NoKey
    BY <1>6 DEF Unlock, LockedAndCurrent, IInv, TypeInv, TypeOK
  <2> QED BY <2>2, <2>3 DEF IInv, CallSound, BindsData, SoundRow
<1>7. CASE UNCHANGED vars
  <2>1. ASSUME NEW d \in Calls PROVE CallSound(d)'
    BY <1>1, <1>7, <2>1, UntouchedCall DEF vars, Of, callVars
  <2> QED BY <1>7, <2>1 DEF vars, IInv, CallSound, BindsData, SoundRow
<1> QED BY <1>2, <1>3, <1>4, <1>5, <1>6, <1>7 DEF Next

(* The inductive invariant of a locked store, for every set of tabs, calls *)
(* and transforms (mutate, loadRevalidated, loadRow, saveRowIfMatch).      *)
THEOREM LockedInvariant ==
    ASSUME LockedAndCurrent
    PROVE  Spec => [](TypeInv /\ IInv)
<1>1. Init => TypeInv /\ IInv
  BY InitType, InitSound
<1>2. TypeInv /\ IInv /\ [Next]_vars => (TypeInv /\ IInv)'
  BY NextType, NextSound
<1> QED BY <1>1, <1>2, PTL DEF Spec

(* An accepted putIfMatch is one atomic application of the transform to    *)
(* the content of the row; no other step changes the content.              *)
LEMMA StepCommits ==
    ASSUME LockedAndCurrent, TypeInv, IInv, [Next]_vars
    PROVE  [Atomic!Next]_(Atomic!vars)
<1> DEFINE Same == DataOf(row)' = DataOf(row) /\ Committed' = Committed
<1>1. \A d \in Calls : CallSound(d)
  BY DEF IInv, CallSound
<1>2. ASSUME Same PROVE [Atomic!Next]_(Atomic!vars)
  BY <1>2 DEF Atomic!vars
<1>3. ASSUME row' = row, answer' = answer PROVE Same
  BY <1>3 DEF Committed
<1>4. ASSUME NEW c \in Calls, ServePut(c) PROVE [Atomic!Next]_(Atomic!vars)
  <2>1. CASE answer' = [answer EXCEPT ![c] = "conflict"] /\ row' = row
    <3>1. answer[c] # "ok"
      BY <1>1, <1>4 DEF ServePut, CallSound, WriteSound
    <3>2. Committed' = Committed
      BY <2>1, <3>1 DEF Committed, TypeInv, TypeOK
    <3> QED BY <1>2, <2>1, <3>2
  <2>2. CASE /\ Matches(row, entry[c].hash) /\ row' = record[c]
             /\ answer' = [answer EXCEPT ![c] = "ok"]
    <3>1. /\ answer[c] # "ok" /\ record[c] # NoRow /\ record[c].aad = "canonical"
          /\ record[c].data = Parse(NextData(c))
      BY <1>1, <1>4 DEF ServePut, CallSound, WriteSound
    <3>2. SameParsed(entry[c].data, DataOf(row))
      <4>1. ReadSound(c) /\ SoundRow(row) /\ pc[c] = "askPut"
        BY <1>1, <1>4 DEF ServePut, CallSound, IInv
      <4>2. /\ BindsData(entry[c].hash, entry[c].data) /\ StillUnhashed(c, entry[c].data)
            /\ entry[c].hash = HashOf(fetched[c])
        BY <4>1 DEF ReadSound
      <4> QED BY <2>2, <4>1, <4>2 DEF Matches, StillUnhashed, BindsData, SoundRow, HashOf,
                 DataOf, SameParsed
    <3>3. DataOf(row)' = Parse(Fn(c, Given(c))) /\ Given(c) \in Readings(DataOf(row))
      BY <2>2, <3>1, <3>2, GivenReading DEF DataOf, IsBlob, NextData, TypeInv, TypeOK
    <3>4. c \notin Committed /\ Committed' = Committed \cup {c}
      BY <2>2, <3>1 DEF Committed, TypeInv, TypeOK
    <3> QED BY <3>3, <3>4 DEF Atomic!Next, Atomic!Commit
  <2> QED BY <1>4, <2>1, <2>2 DEF ServePut, LockedAndCurrent
<1>5. ASSUME NEW c \in Calls, Step(c), ~ServePut(c) PROVE Same
  <2>1. CASE Load(c) /\ ~ConvergeWrite(c)
    BY <1>3, <2>1 DEF Load, BeginLoad, BeginLocked, ServeHash, ServeRow,
       CacheHit, CacheMiss, Confirms, Decode, FinishLoad
  <2>2. CASE ConvergeWrite(c)
    BY <1>1, <2>2 DEF ConvergeWrite, CallSound, NothingToConvert
  <2>3. CASE Write(c)
    BY <1>3, <1>5, <2>3 DEF Write, BeginSet, SkipWrite, Encode, PutDone, RetryPut, GiveUp
  <2> QED BY <1>5, <2>1, <2>2, <2>3 DEF Step
<1>6. ASSUME NEW c \in Calls, LazySave(c) \/ LazyFail(c) \/ NetworkError(c) PROVE Same
  BY <1>1, <1>3, <1>6 DEF LazySave, LazyFail, NetworkError, CallSound, NothingToConvert
<1>7. ASSUME NEW t \in Tabs, Lock(t) \/ Unlock(t) PROVE Same
  BY <1>3, <1>7 DEF Lock, Unlock, callVars
<1>8. CASE UNCHANGED vars
  BY <1>2, <1>3, <1>8 DEF vars, callVars
<1> QED BY <1>2, <1>4, <1>5, <1>6, <1>7, <1>8 DEF Next

(* A store with the lock whose rows are in the current format implements   *)
(* an atomic row: no acknowledged mutate() is lost or applied twice.       *)
THEOREM LockedIsAtomic ==
    ASSUME LockedAndCurrent
    PROVE  Spec => Linearizable
<1>1. Init => Atomic!Init
  BY DEF Init, Atomic!Init, Committed
<1>2. TypeInv /\ IInv /\ [Next]_vars => [Atomic!Next]_(Atomic!vars)
  BY StepCommits
<1> QED BY <1>1, <1>2, LockedInvariant, PTL DEF Spec, Linearizable, Atomic!Spec

-----------------------------------------------------------------------------
(* What a conflict costs.                                                  *)

Others(c) == Committed \ {c}

(* Every attempt a call has used up is paid for by the commit of another   *)
(* call; so is the attempt under way, as soon as the row no longer has the *)
(* hash the attempt read.                                                  *)
AttemptsPaid(c) ==
    /\ pc[c] \in {"askHash", "gotHash", "askRow", "decode", "converge", "transform", "askPut"}
          => Cardinality(Others(c)) >= tries[c] - 1
    /\ pc[c] \in {"gotHash", "decode", "converge", "transform", "askPut"}
          /\ HashOf(row) # HashOf(fetched[c]) => Cardinality(Others(c)) >= tries[c]
    /\ pc[c] = "gotPut" /\ answer[c] = "conflict" => Cardinality(Others(c)) >= tries[c]
    /\ pc[c] = "conflict" => Cardinality(Others(c)) >= MaxAttempts[c]

Paid == IsFiniteSet(Committed) /\ \A c \in Calls : AttemptsPaid(c)

LEMMA OthersCount ==
    ASSUME IsFiniteSet(Committed), NEW c \in Calls
    PROVE  Cardinality(Others(c)) \in Nat
BY FS_CardinalityType, FS_Subset DEF Others

(* The row and the commits unchanged: the calls a step leaves alone are    *)
(* paid for as before.                                                     *)
LEMMA SamePaid ==
    ASSUME Paid, row' = row, Committed' = Committed, NEW c \in Calls,
           \A d \in Calls \ {c} : Of(d)' = Of(d) /\ tries'[d] = tries[d],
           AttemptsPaid(c)'
    PROVE  Paid'
<1>1. ASSUME NEW d \in Calls \ {c} PROVE AttemptsPaid(d)'
  <2>1. /\ pc'[d] = pc[d] /\ fetched'[d] = fetched[d] /\ answer'[d] = answer[d]
        /\ tries'[d] = tries[d]
    BY <1>1 DEF Of
  <2>2. AttemptsPaid(d) /\ Others(d)' = Others(d)
    BY <1>1 DEF Paid, Others
  <2> QED BY <2>1, <2>2 DEF AttemptsPaid
<1> QED BY <1>1 DEF Paid

(* One more commit pays one more attempt of every other call. *)
LEMMA CommitPays ==
    ASSUME TypeInv, Paid, NEW c \in Calls, c \notin Committed, Committed' = Committed \cup {c},
           \A d \in Calls \ {c} : Of(d)' = Of(d) /\ tries'[d] = tries[d],
           pc'[c] = "gotPut", answer'[c] = "ok"
    PROVE  Paid'
<1>1. IsFiniteSet(Committed')
  BY FS_AddElement DEF Paid
<1>2. ASSUME NEW d \in Calls \ {c} PROVE AttemptsPaid(d)'
  <2>1. /\ pc'[d] = pc[d] /\ fetched'[d] = fetched[d] /\ answer'[d] = answer[d]
        /\ tries'[d] = tries[d] /\ tries[d] \in Nat /\ MaxAttempts[d] \in Nat
    BY <1>2, RowStoreAssumption DEF Of, TypeInv, TypeOK
  <2>2. Others(d)' = Others(d) \cup {c} /\ c \notin Others(d)
    BY <1>2 DEF Others
  <2>3. IsFiniteSet(Others(d))
    BY FS_Subset DEF Others, Paid
  <2>4. Cardinality(Others(d)') = Cardinality(Others(d)) + 1
    BY <2>2, <2>3, FS_AddElement
  <2>5. Cardinality(Others(d)) \in Nat /\ AttemptsPaid(d)
    BY <1>2, OthersCount DEF Paid
  <2> QED BY <2>1, <2>4, <2>5 DEF AttemptsPaid
<1>3. AttemptsPaid(c)'
  BY DEF AttemptsPaid
<1> QED BY <1>1, <1>2, <1>3 DEF Paid

LEMMA StepPaid ==
    ASSUME LockedAndCurrent, TypeInv, IInv, Paid, NEW c \in Calls, Step(c)
    PROVE  Paid'
<1>0. /\ AttemptsPaid(c) /\ tries[c] \in Nat /\ Cardinality(Others(c)) \in Nat
      /\ CallSound(c) /\ MaxAttempts[c] \in Nat /\ OptimisticLock
      /\ AfterLoad(c) \in {"done", "transform"}
  BY OthersCount, RowStoreAssumption
  DEF Paid, TypeInv, TypeOK, IInv, CallSound, LockedAndCurrent, AfterLoad
<1>1. ASSUME row' = row, answer' = answer,
             \A d \in Calls \ {c} : Of(d)' = Of(d) /\ tries'[d] = tries[d],
             Others(c)' = Others(c) => AttemptsPaid(c)'
      PROVE  Paid'
  <2>1. Committed' = Committed
    BY <1>1 DEF Committed
  <2> QED BY <1>1, <2>1, SamePaid DEF Others
<1> USE DEF TypeInv, TypeOK
<1>2. CASE BeginLoad(c)
  <2>1. \A d \in Calls \ {c} : Of(d)' = Of(d) /\ tries'[d] = tries[d]
    BY <1>2 DEF BeginLoad, StartLoad, Of
  <2>2. /\ row' = row /\ answer' = answer /\ tries'[c] = 1
        /\ pc'[c] \in {"askHash", "askRow"}
    BY <1>2 DEF BeginLoad, StartLoad
  <2>3. Others(c)' = Others(c) => AttemptsPaid(c)'
    BY <1>0, <2>2 DEF AttemptsPaid
  <2> QED BY <1>1, <2>1, <2>2, <2>3
<1>3. CASE RetryPut(c)
  <2>1. \A d \in Calls \ {c} : Of(d)' = Of(d) /\ tries'[d] = tries[d]
    BY <1>3 DEF RetryPut, StartLoad, Of
  <2>2. /\ row' = row /\ answer' = answer /\ tries'[c] = tries[c] + 1
        /\ pc'[c] \in {"askHash", "askRow"} /\ pc[c] = "gotPut" /\ answer[c] = "conflict"
    BY <1>3 DEF RetryPut, StartLoad
  <2>3. Others(c)' = Others(c) => AttemptsPaid(c)'
    BY <1>0, <2>2 DEF AttemptsPaid
  <2> QED BY <1>1, <2>1, <2>2, <2>3
<1>4. CASE ServeHash(c) \/ ServeRow(c)
  <2>1. \A d \in Calls \ {c} : Of(d)' = Of(d) /\ tries'[d] = tries[d]
    BY <1>4 DEF ServeHash, ServeRow, Of
  <2>2. /\ row' = row /\ answer' = answer /\ tries' = tries /\ fetched'[c] = row
        /\ pc[c] \in {"askHash", "askRow"} /\ pc'[c] \in {"gotHash", "decode"}
    BY <1>4 DEF ServeHash, ServeRow
  <2>3. Others(c)' = Others(c) => AttemptsPaid(c)'
    BY <1>0, <2>2 DEF AttemptsPaid
  <2> QED BY <1>1, <2>1, <2>2, <2>3
<1>5. CASE CacheHit(c) \/ CacheMiss(c) \/ Decode(c) \/ FinishLoad(c) \/ Encode(c)
  <2>1. \A d \in Calls \ {c} : Of(d)' = Of(d) /\ tries'[d] = tries[d]
    BY <1>5 DEF CacheHit, CacheMiss, Decode, FinishLoad, Encode, Of
  <2>2. /\ row' = row /\ answer' = answer /\ tries' = tries /\ fetched' = fetched
        /\ pc[c] \in {"gotHash", "decode", "converge", "transform"}
        /\ pc'[c] \in {"askRow", "converge", "transform", "askPut", "done", "error"}
    BY <1>0, <1>5 DEF CacheHit, CacheMiss, Decode, FinishLoad, Encode
  <2>3. Others(c)' = Others(c) => AttemptsPaid(c)'
    BY <1>0, <2>2 DEF AttemptsPaid
  <2> QED BY <1>1, <2>1, <2>2, <2>3
<1>6. CASE BeginLocked(c) \/ BeginSet(c) \/ SkipWrite(c) \/ PutDone(c)
  <2>1. \A d \in Calls \ {c} : Of(d)' = Of(d) /\ tries'[d] = tries[d]
    BY <1>6 DEF BeginLocked, BeginSet, SkipWrite, PutDone, Of
  <2>2. row' = row /\ answer' = answer /\ pc'[c] \in {"done", "error"}
    BY <1>0, <1>6, RowStoreAssumption DEF BeginLocked, BeginSet, SkipWrite, PutDone
  <2>3. Others(c)' = Others(c) => AttemptsPaid(c)'
    BY <2>2 DEF AttemptsPaid
  <2> QED BY <1>1, <2>1, <2>2, <2>3
<1>7. CASE ConvergeWrite(c)
  BY <1>0, <1>7 DEF ConvergeWrite, CallSound, NothingToConvert
<1>8. CASE GiveUp(c)
  <2>1. \A d \in Calls \ {c} : Of(d)' = Of(d) /\ tries'[d] = tries[d]
    BY <1>8 DEF GiveUp, Of
  <2>2. /\ row' = row /\ answer' = answer /\ tries' = tries /\ pc'[c] = "conflict"
        /\ pc[c] = "gotPut" /\ answer[c] = "conflict" /\ tries[c] >= MaxAttempts[c]
    BY <1>8 DEF GiveUp
  <2>3. Others(c)' = Others(c) => AttemptsPaid(c)'
    BY <1>0, <2>2 DEF AttemptsPaid
  <2> QED BY <1>1, <2>1, <2>2, <2>3
<1>9. CASE ServePut(c)
  <2>1. \A d \in Calls \ {c} : Of(d)' = Of(d) /\ tries'[d] = tries[d]
    BY <1>9 DEF ServePut, Of
  <2>2. /\ pc[c] = "askPut" /\ pc'[c] = "gotPut" /\ tries' = tries /\ fetched' = fetched
        /\ answer[c] # "ok"
    BY <1>0, <1>9 DEF ServePut, CallSound, WriteSound
  <2>3. CASE Matches(row, entry[c].hash) /\ answer' = [answer EXCEPT ![c] = "ok"]
    <3>1. c \notin Committed /\ Committed' = Committed \cup {c} /\ answer'[c] = "ok"
      BY <2>2, <2>3 DEF Committed
    <3> QED BY <2>1, <2>2, <3>1, CommitPays
  <2>4. CASE /\ ~Matches(row, entry[c].hash) /\ row' = row
             /\ answer' = [answer EXCEPT ![c] = "conflict"]
    <3>1. Committed' = Committed
      BY <2>2, <2>4 DEF Committed
    <3>2. entry[c].hash = HashOf(fetched[c])
      BY <1>0, <2>2 DEF CallSound, ReadSound
    <3>3. HashOf(row) # HashOf(fetched[c])
      BY <2>4, <3>2 DEF Matches
    <3>4. Cardinality(Others(c)) >= tries[c]
      BY <1>0, <2>2, <3>3 DEF AttemptsPaid
    <3>5. Others(c)' = Others(c)
      BY <3>1 DEF Others
    <3>6. AttemptsPaid(c)'
      BY <2>2, <3>4, <3>5 DEF AttemptsPaid
    <3> QED BY <2>1, <2>4, <3>1, <3>6, SamePaid
  <2> QED BY <1>0, <1>9, <2>3, <2>4 DEF ServePut
<1> QED
  BY <1>2, <1>3, <1>4, <1>5, <1>6, <1>7, <1>8, <1>9 DEF Step, Load, Write

LEMMA NextPaid ==
    ASSUME LockedAndCurrent, TypeInv, IInv, Paid, [Next]_vars
    PROVE  Paid'
<1>1. ASSUME NEW c \in Calls, Step(c) PROVE Paid'
  BY <1>1, StepPaid
<1>2. ASSUME NEW c \in Calls, LazySave(c) \/ LazyFail(c) PROVE Paid'
  BY <1>2 DEF LazySave, LazyFail, IInv, NothingToConvert
<1>3. ASSUME NEW c \in Calls, NetworkError(c) PROVE Paid'
  <2>1. \A d \in Calls \ {c} : Of(d)' = Of(d) /\ tries'[d] = tries[d]
    BY <1>3 DEF NetworkError, Of, TypeInv, TypeOK
  <2>2. row' = row /\ answer' = answer /\ pc'[c] = "error"
    BY <1>3 DEF NetworkError, TypeInv, TypeOK
  <2>3. AttemptsPaid(c)' /\ Committed' = Committed
    BY <2>2 DEF AttemptsPaid, Committed
  <2> QED BY <2>1, <2>2, <2>3, SamePaid
<1>4. ASSUME NEW t \in Tabs, Lock(t) PROVE Paid'
  BY <1>4 DEF Lock, Paid, AttemptsPaid, Others, Committed
<1>5. ASSUME NEW t \in Tabs, Unlock(t) PROVE Paid'
  BY <1>5 DEF Unlock, callVars, Paid, AttemptsPaid, Others, Committed
<1>6. ASSUME UNCHANGED vars PROVE Paid'
  BY <1>6 DEF vars, callVars, Paid, AttemptsPaid, Others, Committed
<1> QED BY <1>1, <1>2, <1>3, <1>4, <1>5, <1>6 DEF Next

(* mutate() gives up only when other calls really committed, one of them   *)
(* during each attempt it was allowed: no read of its own cache, however   *)
(* stale, makes it burn an attempt for nothing.                            *)
THEOREM ConflictsAreReal ==
    ASSUME LockedAndCurrent
    PROVE  Spec => []NoSpuriousConflict
<1>1. Init => Paid
  <2> SUFFICES ASSUME Init PROVE Paid
    OBVIOUS
  <2>1. Committed = {} /\ IsFiniteSet({})
    BY FS_EmptySet DEF Init, Committed
  <2> QED BY <2>1 DEF Init, Paid, AttemptsPaid
<1>2. (TypeInv /\ IInv) /\ Paid /\ [Next]_vars => Paid'
  BY NextPaid
<1>3. Paid => NoSpuriousConflict
  BY DEF Paid, AttemptsPaid, Others, NoSpuriousConflict
<1> QED BY <1>1, <1>2, <1>3, LockedInvariant, PTL DEF Spec

-----------------------------------------------------------------------------
(* Any store, with or without the lock, that locks, rotates and converts:   *)
(* which keys its rows are written under, and what its hashes, caches and   *)
(* conversions say of their content.                                        *)

(* The keys a session can hand to a call, one of them the zeroed key of a  *)
(* destroyed closure handle.                                               *)
KeysInUse ==
    SessionKeys \cup (PreviousKeys \ {NoKey})
        \cup (IF HandleKind = "closure" THEN {ZeroKey} ELSE {})

KeysHeld ==
    /\ \A t \in Tabs : handle[t] \in KeysInUse \cup {NoKey}
                       /\ previous[t] \in KeysInUse \cup {NoKey}
    /\ \A c \in Calls : held[c] \in KeysInUse \cup {NoKey}
                        /\ fallback[c] \in KeysInUse \cup {NoKey}

(* A get() never reaches the second half of a mutate(). *)
WritersWrite ==
    \A c \in Calls : pc[c] \in {"transform", "askPut", "gotPut"} => Kind[c] # "get"

(* Every row that is stored, was answered to a read in progress, or waits  *)
(* to be stored belongs to S.                                              *)
RowsOfCall(c, S) ==
    /\ pc[c] \in {"gotHash", "decode", "converge"} => fetched[c] \in S
    /\ writes[c] \in Seq(S)
    /\ pc[c] \in {"askPut", "gotPut"} => record[c] \in S
    /\ lazy[c] \in S \cup {NoRow}
RowsIn(S) == row \in S /\ \A c \in Calls : RowsOfCall(c, S)

(* What the store makes of a row of S belongs to S: its canonical form,    *)
(* its content encoded again, as it is or parsed, and what the schema      *)
(* makes of what a transform returns.                                      *)
ClosedUnderCodec(S) ==
    /\ \A r \in S : r \in Row /\ r.aad = "legacy" => CanonicalForm(r) \in S
    /\ \A r \in S, k \in KeysInUse, h \in BOOLEAN :
          IsBlob(r) => \A d \in {r.data, Parse(r.data)} :
                          EncodeBlob(k, NoEpoch, d, CodeVersion, h) \in S
    /\ \A c \in Calls, k \in KeysInUse, d \in Data :
          Kind[c] # "get" =>
             EncodeBlob(k, NoEpoch, Parse(Fn(c, d)), CodeVersion, ContentHash) \in S

Base == TypeInv /\ KeysHeld /\ WritersWrite

-----------------------------------------------------------------------------
(* The keys and the phases.                                                *)

LEMMA KeysInUseType == KeysInUse \subseteq Keys /\ NoKey \notin KeysInUse
BY CodecAssumption, RowStoreAssumption DEF KeysInUse

LEMMA InitBase == Init => Base
<1> SUFFICES ASSUME Init PROVE Base
  OBVIOUS
<1>1. SessionKeys \subseteq KeysInUse /\ PreviousKeys \subseteq KeysInUse \cup {NoKey}
  BY DEF KeysInUse
<1>2. KeysHeld /\ WritersWrite
  BY <1>1 DEF Init, KeysHeld, WritersWrite
<1> QED BY <1>2, InitType DEF Base

LEMMA StepKeys ==
    ASSUME Base, NEW c \in Calls, Step(c)
    PROVE  KeysHeld' /\ WritersWrite'
<1> USE DEF Base
<1>0. /\ TabOf[c] \in Tabs
      /\ handle[TabOf[c]] \in KeysInUse \cup {NoKey}
      /\ previous[TabOf[c]] \in KeysInUse \cup {NoKey}
      /\ AfterLoad(c) \in {"done", "transform"}
      /\ AfterLoad(c) = "transform" => Kind[c] # "get"
  BY RowStoreAssumption DEF KeysHeld, AfterLoad
<1> USE DEF TypeInv, TypeOK
<1>1. ASSUME UNCHANGED << handle, previous, held, fallback >> PROVE KeysHeld'
  BY <1>1 DEF KeysHeld
<1>2. CASE BeginLoad(c)
  <2>1. WritersWrite'
    BY <1>2 DEF BeginLoad, StartLoad, WritersWrite
  <2>2. handle' = handle /\ previous' = previous
    BY <1>2 DEF BeginLoad, sessionVars
  <2>3. \A d \in Calls : held'[d] \in KeysInUse \cup {NoKey}
    BY <1>0, <1>2 DEF BeginLoad, KeysHeld
  <2>4. \A d \in Calls : fallback'[d] \in KeysInUse \cup {NoKey}
    BY <1>0, <1>2 DEF BeginLoad, StartLoad, KeysHeld
  <2> QED BY <2>1, <2>2, <2>3, <2>4 DEF KeysHeld
<1>3. CASE BeginLocked(c)
  BY <1>1, <1>3 DEF BeginLocked, WritersWrite, sessionVars
<1>4. CASE ServeHash(c) \/ ServeRow(c)
  BY <1>1, <1>4 DEF ServeHash, ServeRow, WritersWrite, sessionVars
<1>5. CASE CacheHit(c)
  BY <1>0, <1>1, <1>5 DEF CacheHit, WritersWrite, sessionVars
<1>6. CASE CacheMiss(c)
  <2>1. WritersWrite'
    BY <1>6 DEF CacheMiss, WritersWrite
  <2>2. handle' = handle /\ previous' = previous /\ held' = held
    BY <1>6 DEF CacheMiss, sessionVars
  <2>3. \A d \in Calls : fallback'[d] \in KeysInUse \cup {NoKey}
    BY <1>0, <1>6 DEF CacheMiss, KeysHeld
  <2> QED BY <2>1, <2>2, <2>3 DEF KeysHeld
<1>7. CASE Decode(c)
  BY <1>1, <1>7 DEF Decode, WritersWrite, sessionVars
<1>8. CASE ConvergeWrite(c)
  BY <1>1, <1>8 DEF ConvergeWrite, WritersWrite, sessionVars
<1>9. CASE FinishLoad(c)
  BY <1>0, <1>1, <1>9 DEF FinishLoad, WritersWrite, sessionVars
<1>10. CASE BeginSet(c)
  BY <1>0, <1>10 DEF BeginSet, KeysHeld, WritersWrite, sessionVars
<1>11. CASE SkipWrite(c) \/ PutDone(c) \/ GiveUp(c)
  BY <1>1, <1>11 DEF SkipWrite, PutDone, GiveUp, WritersWrite, sessionVars
<1>12. CASE Encode(c) \/ ServePut(c)
  BY <1>1, <1>12 DEF Encode, ServePut, WritersWrite, sessionVars
<1>13. CASE RetryPut(c)
  BY <1>0, <1>13 DEF RetryPut, StartLoad, KeysHeld, WritersWrite, sessionVars
<1> QED
  BY <1>2, <1>3, <1>4, <1>5, <1>6, <1>7, <1>8, <1>9, <1>10, <1>11, <1>12, <1>13
  DEF Step, Load, Write

LEMMA NextBase == Base /\ [Next]_vars => Base'
<1> SUFFICES ASSUME Base, [Next]_vars PROVE Base'
  OBVIOUS
<1>0. TypeInv'
  BY NextType DEF Base
<1>1. ASSUME NEW c \in Calls, Step(c) PROVE KeysHeld' /\ WritersWrite'
  BY <1>1, StepKeys
<1>2. ASSUME NEW c \in Calls, LazySave(c) \/ LazyFail(c) \/ NetworkError(c)
      PROVE  KeysHeld' /\ WritersWrite'
  BY <1>2 DEF LazySave, LazyFail, NetworkError, Base, TypeInv, TypeOK, KeysHeld,
              WritersWrite, sessionVars
<1>3. ASSUME NEW t \in Tabs, Lock(t) PROVE KeysHeld' /\ WritersWrite'
  <2>1. Destroyed \in KeysInUse \cup {NoKey}
    BY RowStoreAssumption DEF Destroyed, KeysInUse
  <2>2. \A u \in Tabs : handle'[u] \in KeysInUse \cup {NoKey}
                        /\ previous'[u] \in KeysInUse \cup {NoKey}
    BY <1>3 DEF Lock, Base, TypeInv, TypeOK, KeysHeld
  <2>3. \A c \in Calls : held'[c] \in KeysInUse \cup {NoKey}
                         /\ fallback'[c] \in KeysInUse \cup {NoKey}
    BY <1>3, <2>1 DEF Lock, Base, KeysHeld
  <2>4. WritersWrite'
    BY <1>3 DEF Lock, Base, WritersWrite
  <2> QED BY <2>2, <2>3, <2>4 DEF KeysHeld
<1>4. ASSUME NEW t \in Tabs, Unlock(t) PROVE KeysHeld' /\ WritersWrite'
  <2>1. SessionKeys \subseteq KeysInUse /\ PreviousKeys \subseteq KeysInUse \cup {NoKey}
    BY DEF KeysInUse
  <2>2. UNCHANGED << held, fallback, pc >>
    BY <1>4 DEF Unlock, callVars
  <2>3. \A u \in Tabs : handle'[u] \in KeysInUse \cup {NoKey}
                        /\ previous'[u] \in KeysInUse \cup {NoKey}
    BY <1>4, <2>1 DEF Unlock, Base, TypeInv, TypeOK, KeysHeld
  <2> QED BY <2>2, <2>3 DEF Base, KeysHeld, WritersWrite
<1>5. ASSUME UNCHANGED vars PROVE KeysHeld' /\ WritersWrite'
  <2>1. UNCHANGED << handle, previous, held, fallback, pc >>
    BY <1>5 DEF vars, callVars, sessionVars
  <2> QED BY <2>1 DEF Base, KeysHeld, WritersWrite
<1>6. KeysHeld' /\ WritersWrite'
  BY <1>1, <1>2, <1>3, <1>4, <1>5 DEF Next
<1> QED BY <1>0, <1>6 DEF Base

-----------------------------------------------------------------------------
(* What the store makes of the rows of a closed set.                       *)

LEMMA WritesIn ==
    ASSUME NEW S \in SUBSET RowOrNone, ClosedUnderCodec(S), NEW r \in S,
           NEW cur \in KeysInUse \cup {NoKey}, NEW prev \in KeysInUse \cup {NoKey},
           cur # NoKey \/ ~IsBlob(r)
    PROVE  CandidateWrites(cur, prev, r, CodeVersion) \in Seq(S)
<1> DEFINE w == CandidateWrites(cur, prev, r, CodeVersion)
           c == CanonicalForm(r)
           e == EncodeBlob(cur, NoEpoch, r.data, CodeVersion, r.hash # NoHash)
<1>1. \/ w = << >>
      \/ w = << c >> /\ r \in Row /\ r.aad = "legacy"
      \/ /\ r \in Row /\ cur \in Keys /\ PreviousWins(cur, prev, r, CodeVersion)
         /\ w = << e >> \/ (w = << c, e >> /\ r.aad = "legacy")
  BY CandidateWritesShape, KeysInUseType, RowStoreAssumption
<1>2. ASSUME r \in Row, r.aad = "legacy" PROVE c \in S
  BY <1>2 DEF ClosedUnderCodec
<1>3. ASSUME cur \in Keys, PreviousWins(cur, prev, r, CodeVersion) PROVE e \in S
  <2>1. IsBlob(r)
    BY <1>3 DEF PreviousWins, CurrentWins, FallbackDecodes, Decodes, DecodesAs
  <2>2. cur \in KeysInUse /\ (r.hash # NoHash) \in BOOLEAN
    BY <1>3, CodecAssumption
  <2> QED BY <2>1, <2>2 DEF ClosedUnderCodec
<1> HIDE DEF w, c, e
<1>4. CASE w = << >>
  BY <1>4, EmptySeq DEF w
<1>5. CASE w = << c >> /\ r \in Row /\ r.aad = "legacy"
  BY <1>2, <1>5, ShortSeqs DEF w
<1>6. CASE /\ r \in Row /\ cur \in Keys /\ PreviousWins(cur, prev, r, CodeVersion)
           /\ w = << e >> \/ (w = << c, e >> /\ r.aad = "legacy")
  BY <1>2, <1>3, <1>6, ShortSeqs DEF w
<1> QED BY <1>1, <1>4, <1>5, <1>6

(* A call a step leaves alone keeps its rows. *)
LEMMA UntouchedRows ==
    ASSUME NEW S, NEW c \in Calls, RowsOfCall(c, S), Of(c)' = Of(c)
    PROVE  RowsOfCall(c, S)'
BY DEF RowsOfCall, Of

LEMMA StepRows ==
    ASSUME NEW S \in SUBSET RowOrNone, ClosedUnderCodec(S), Base, RowsIn(S),
           NEW c \in Calls, Step(c)
    PROVE  RowsIn(S)'
<1>0. RowsOfCall(c, S) /\ row \in S
  BY DEF RowsIn
<1>1. ASSUME RowsOfCall(c, S)', row' \in S, \A d \in Calls \ {c} : Of(d)' = Of(d)
      PROVE  RowsIn(S)'
  BY <1>1, UntouchedRows DEF RowsIn
<1> USE DEF Base, TypeInv, TypeOK
<1>2. CASE BeginLoad(c) \/ RetryPut(c)
  <2>1. \A d \in Calls \ {c} : Of(d)' = Of(d)
    BY <1>2 DEF BeginLoad, RetryPut, StartLoad, Of
  <2>2. RowsOfCall(c, S)' /\ row' \in S
    BY <1>0, <1>2 DEF BeginLoad, RetryPut, StartLoad, RowsOfCall
  <2> QED BY <1>1, <2>1, <2>2
<1>3. CASE BeginLocked(c) \/ BeginSet(c) \/ CacheHit(c) \/ CacheMiss(c) \/ SkipWrite(c)
            \/ GiveUp(c) \/ PutDone(c)
  <2>1. \A d \in Calls \ {c} : Of(d)' = Of(d)
    BY <1>3 DEF BeginLocked, BeginSet, CacheHit, CacheMiss, SkipWrite, GiveUp, PutDone, Of
  <2>2. RowsOfCall(c, S)' /\ row' \in S
    BY <1>0, <1>3 DEF BeginLocked, BeginSet, CacheHit, CacheMiss, SkipWrite, GiveUp,
       PutDone, AfterLoad, RowsOfCall
  <2> QED BY <1>1, <2>1, <2>2
<1>4. CASE ServeHash(c) \/ ServeRow(c)
  <2>1. \A d \in Calls \ {c} : Of(d)' = Of(d)
    BY <1>4 DEF ServeHash, ServeRow, Of
  <2>2. RowsOfCall(c, S)' /\ row' \in S
    BY <1>0, <1>4 DEF ServeHash, ServeRow, RowsOfCall
  <2> QED BY <1>1, <2>1, <2>2
<1>5. CASE Decode(c)
  <2>1. \A d \in Calls \ {c} : Of(d)' = Of(d)
    BY <1>5 DEF Decode, Of
  <2>2. /\ fetched[c] \in S /\ (held[c] # NoKey \/ ~IsBlob(fetched[c]))
        /\ held[c] \in KeysInUse \cup {NoKey} /\ fallback[c] \in KeysInUse \cup {NoKey}
    BY <1>0, <1>5 DEF Decode, Alive, RowsOfCall, KeysHeld
  <2>3. CandidateWrites(held[c], fallback[c], fetched[c], CodeVersion) \in Seq(S)
    BY <2>2, WritesIn
  <2>4. RowsOfCall(c, S)' /\ row' \in S
    BY <1>0, <1>5, <2>2, <2>3 DEF Decode, RowsOfCall
  <2> QED BY <1>1, <2>1, <2>4
<1>6. CASE ConvergeWrite(c)
  <2>1. \A d \in Calls \ {c} : Of(d)' = Of(d)
    BY <1>6 DEF ConvergeWrite, Of
  <2>2. Head(writes[c]) \in S /\ Tail(writes[c]) \in Seq(S)
    BY <1>0, <1>6, HeadTailProperties DEF ConvergeWrite, RowsOfCall
  <2>3. RowsOfCall(c, S)' /\ row' \in S
    BY <1>0, <1>6, <2>2 DEF ConvergeWrite, RowsOfCall
  <2> QED BY <1>1, <2>1, <2>3
<1>7. CASE FinishLoad(c)
  <2>1. \A d \in Calls \ {c} : Of(d)' = Of(d)
    BY <1>7 DEF FinishLoad, Of
  <2>2. lazy'[c] \in S \cup {NoRow}
    <3>1. CASE Alive(c) /\ Upgraded(held[c], fallback[c], fetched[c], CodeVersion)
      <4>1. fetched[c] \in S /\ IsBlob(fetched[c]) /\ held[c] \in KeysInUse
        BY <1>0, <1>7, <3>1 DEF FinishLoad, Upgraded, Alive, KeysHeld, RowsOfCall
      <4>2. Upgrade(c) \in S
        BY <4>1, RowStoreAssumption DEF Upgrade, AsLoaded, DataOf, ClosedUnderCodec
      <4> QED BY <1>7, <3>1, <4>2 DEF FinishLoad
    <3>2. CASE ~(Alive(c) /\ Upgraded(held[c], fallback[c], fetched[c], CodeVersion))
      BY <1>0, <1>7, <3>2 DEF FinishLoad, RowsOfCall
    <3> QED BY <3>1, <3>2
  <2>3. RowsOfCall(c, S)' /\ row' \in S
    BY <1>0, <1>7, <2>2 DEF FinishLoad, AfterLoad, RowsOfCall
  <2> QED BY <1>1, <2>1, <2>3
<1>8. CASE Encode(c)
  <2>1. \A d \in Calls \ {c} : Of(d)' = Of(d)
    BY <1>8 DEF Encode, Of
  <2>2. held[c] \in KeysInUse /\ Given(c) \in Data /\ Kind[c] # "get"
    BY <1>8, NextDataType DEF Encode, Alive, KeysHeld, WritersWrite
  <2>3. NextRecord(c) \in S
    BY <2>2 DEF NextRecord, NextData, ClosedUnderCodec
  <2>4. RowsOfCall(c, S)' /\ row' \in S
    BY <1>0, <1>8, <2>3 DEF Encode, RowsOfCall
  <2> QED BY <1>1, <2>1, <2>4
<1>9. CASE ServePut(c)
  <2>1. \A d \in Calls \ {c} : Of(d)' = Of(d)
    BY <1>9 DEF ServePut, Of
  <2>2. RowsOfCall(c, S)' /\ row' \in S
    BY <1>0, <1>9 DEF ServePut, RowsOfCall
  <2> QED BY <1>1, <2>1, <2>2
<1> QED
  BY <1>2, <1>3, <1>4, <1>5, <1>6, <1>7, <1>8, <1>9 DEF Step, Load, Write

(* The rows of the store never leave a closed set (every path of loadRow,  *)
(* persistMigrated, the lazy upgrade, set and mutate that stores a row).   *)
LEMMA NextRows ==
    ASSUME NEW S \in SUBSET RowOrNone, ClosedUnderCodec(S), Base, RowsIn(S), [Next]_vars
    PROVE  RowsIn(S)'
<1>1. ASSUME NEW c \in Calls, Step(c) PROVE RowsIn(S)'
  BY <1>1, StepRows
<1>2. ASSUME NEW c \in Calls, LazySave(c) \/ LazyFail(c) \/ NetworkError(c)
      PROVE  RowsIn(S)'
  <2> USE DEF Base, TypeInv, TypeOK
  <2>0. RowsOfCall(c, S) /\ row \in S
    BY DEF RowsIn
  <2>1. \A d \in Calls \ {c} : Of(d)' = Of(d)
    BY <1>2 DEF LazySave, LazyFail, NetworkError, Of
  <2>2. RowsOfCall(c, S)' /\ row' \in S
    BY <1>2, <2>0 DEF LazySave, LazyFail, NetworkError, RowsOfCall
  <2> QED BY <2>1, <2>2, UntouchedRows DEF RowsIn
<1>3. ASSUME NEW t \in Tabs, Lock(t) PROVE RowsIn(S)'
  BY <1>3 DEF Lock, RowsIn, RowsOfCall
<1>4. ASSUME NEW t \in Tabs, Unlock(t) PROVE RowsIn(S)'
  BY <1>4 DEF Unlock, RowsIn, RowsOfCall, callVars
<1>5. CASE UNCHANGED vars
  BY <1>5 DEF vars, callVars, RowsIn, RowsOfCall
<1> QED BY <1>1, <1>2, <1>3, <1>4, <1>5 DEF Next

LEMMA InitRows == ASSUME NEW S, InitialRows \subseteq S, Init PROVE RowsIn(S)
BY EmptySeq DEF Init, RowsIn, RowsOfCall

-----------------------------------------------------------------------------
(* Which keys the stored rows are written under.                           *)

RowsUnder(K) == {r \in RowOrNone : IsBlob(r) => r.dek \in K}

LEMMA RowsUnderClosed ==
    ASSUME NEW K \in SUBSET Keys, KeysInUse \subseteq K
    PROVE  ClosedUnderCodec(RowsUnder(K))
<1>1. ASSUME NEW r \in RowsUnder(K), r \in Row, r.aad = "legacy"
      PROVE  CanonicalForm(r) \in RowsUnder(K)
  <2>1. IsBlob(r) /\ r.dek \in K
    BY <1>1, NoRowAssumption DEF RowsUnder, IsBlob
  <2>2. CanonicalForm(r) \in Row /\ CanonicalForm(r).dek = r.dek
    BY <1>1 DEF CanonicalForm, Row
  <2> QED BY <2>1, <2>2 DEF RowsUnder, RowOrNone
<1>2. ASSUME NEW k \in KeysInUse, NEW d \in Data, NEW h \in BOOLEAN
      PROVE  EncodeBlob(k, NoEpoch, d, CodeVersion, h) \in RowsUnder(K)
  <2>1. EncodeBlob(k, NoEpoch, d, CodeVersion, h) \in Row
    BY EncodeBlobType, KeysInUseType, RowStoreAssumption
  <2>2. EncodeBlob(k, NoEpoch, d, CodeVersion, h).dek = k
    BY DEF EncodeBlob
  <2> QED BY <2>1, <2>2 DEF RowsUnder, RowOrNone
<1>3. \A r \in RowsUnder(K) : IsBlob(r) => r.data \in Data /\ Parse(r.data) \in Data
  BY ParsedType DEF RowsUnder, RowOrNone, Row, IsBlob
<1>4. \A c \in Calls, d \in Data : Parse(Fn(c, d)) \in Data
  BY ParsedType, RowStoreAssumption
<1> QED BY <1>1, <1>2, <1>3, <1>4, RowStoreAssumption DEF ClosedUnderCodec

(* The keys the account's rows may be found under. *)
AccountKeys == SessionKeys \cup (PreviousKeys \ {NoKey})

(* In a session of worker handles every row can be opened with a key of    *)
(* the account, whatever lock, rotation or conversion happens between the  *)
(* steps of a call: a destroyed handle encodes nothing.                    *)
THEOREM RowsStayReadable ==
    ASSUME HandleKind = "worker",
           \A r \in InitialRows : IsBlob(r) => r.dek \in AccountKeys
    PROVE  Spec => []RowReadable
<1> DEFINE S == RowsUnder(AccountKeys)
<1>1. AccountKeys = KeysInUse /\ AccountKeys \subseteq Keys
  BY KeysInUseType DEF AccountKeys, KeysInUse
<1>2. ClosedUnderCodec(S) /\ S \in SUBSET RowOrNone
  BY <1>1, RowsUnderClosed DEF RowsUnder
<1>3. InitialRows \subseteq S
  BY RowStoreAssumption DEF RowsUnder
<1>4. RowsIn(S) => RowReadable
  BY DEF RowsIn, RowsUnder, RowReadable, AccountKeys
<1> HIDE DEF S
<1>5. Init => Base /\ RowsIn(S)
  BY <1>3, InitBase, InitRows
<1>6. Base /\ RowsIn(S) /\ [Next]_vars => (Base /\ RowsIn(S))'
  BY <1>2, NextBase, NextRows
<1> QED BY <1>4, <1>5, <1>6, PTL DEF Spec

(* With closure handles there is one exception: a row written under the    *)
(* zeroed key of a handle that lock() destroyed under the call (the        *)
(* violation the run lock_zero_key shows), and no other.                   *)
ReadableOrZeroed ==
    IsBlob(row) => row.dek \in AccountKeys \cup {ZeroKey}

THEOREM OnlyZeroedUnreadable ==
    ASSUME \A r \in InitialRows : IsBlob(r) => r.dek \in AccountKeys
    PROVE  Spec => []ReadableOrZeroed
<1> DEFINE K == AccountKeys \cup {ZeroKey}
           S == RowsUnder(K)
<1>1. KeysInUse \subseteq K /\ K \in SUBSET Keys
  BY KeysInUseType, CodecAssumption, RowStoreAssumption DEF AccountKeys, KeysInUse
<1>2. ClosedUnderCodec(S) /\ S \in SUBSET RowOrNone
  BY <1>1, RowsUnderClosed DEF RowsUnder
<1>3. InitialRows \subseteq S
  BY RowStoreAssumption DEF RowsUnder
<1>4. RowsIn(S) => ReadableOrZeroed
  BY DEF RowsIn, RowsUnder, ReadableOrZeroed
<1> HIDE DEF S
<1>5. Init => Base /\ RowsIn(S)
  BY <1>3, InitBase, InitRows
<1>6. Base /\ RowsIn(S) /\ [Next]_vars => (Base /\ RowsIn(S))'
  BY <1>2, NextBase, NextRows
<1> QED BY <1>4, <1>5, <1>6, PTL DEF Spec

-----------------------------------------------------------------------------
(* What a conversion does to the content.                                  *)

RowsSaying(d) == {r \in RowOrNone : SameParsed(DataOf(r), d)}

LEMMA RowsSayingClosed ==
    ASSUME NEW d \in Data, \A c \in Calls : Kind[c] = "get"
    PROVE  ClosedUnderCodec(RowsSaying(d))
<1>1. ASSUME NEW r \in RowsSaying(d), r \in Row, r.aad = "legacy"
      PROVE  CanonicalForm(r) \in RowsSaying(d)
  <2>1. IsBlob(r) /\ SameParsed(r.data, d)
    BY <1>1, NoRowAssumption DEF RowsSaying, IsBlob, DataOf
  <2>2. /\ CanonicalForm(r) \in Row /\ CanonicalForm(r).data = r.data
        /\ CanonicalForm(r).aad = "canonical"
    BY <1>1 DEF CanonicalForm, Row
  <2> QED BY <2>1, <2>2, NoRowAssumption DEF RowsSaying, RowOrNone, DataOf, IsBlob
<1>2. ASSUME NEW r \in RowsSaying(d), IsBlob(r), NEW k \in KeysInUse, NEW h \in BOOLEAN,
             NEW e \in {r.data, Parse(r.data)}
      PROVE  EncodeBlob(k, NoEpoch, e, CodeVersion, h) \in RowsSaying(d)
  <2>0. r.data \in Data
    BY <1>2 DEF RowsSaying, RowOrNone, Row, IsBlob
  <2>1. SameParsed(e, d) /\ e \in Data
    BY <1>2, <2>0, RowStoreAssumption DEF RowsSaying, DataOf, SameParsed
  <2>2. EncodeBlob(k, NoEpoch, e, CodeVersion, h) \in Row
    BY <2>1, EncodeBlobType, KeysInUseType, RowStoreAssumption
  <2>3. /\ EncodeBlob(k, NoEpoch, e, CodeVersion, h).data = e
        /\ EncodeBlob(k, NoEpoch, e, CodeVersion, h).aad = "canonical"
    BY DEF EncodeBlob
  <2> QED BY <2>1, <2>2, <2>3, NoRowAssumption DEF RowsSaying, RowOrNone, DataOf, IsBlob
<1> QED BY <1>1, <1>2 DEF ClosedUnderCodec

(* At every instant all the rows on their way say what the row says. *)
OneContent == Base /\ RowsIn(RowsSaying(DataOf(row)))

LEMMA NextOneContent ==
    ASSUME \A c \in Calls : Kind[c] = "get", OneContent, [Next]_vars
    PROVE  OneContent' /\ Parse(DataOf(row')) = Parse(DataOf(row))
<1>1. PICK d \in Data : d = DataOf(row)
  BY RowFields DEF OneContent, Base, TypeInv, TypeOK
<1> DEFINE S == RowsSaying(d)
<1>2. Base /\ RowsIn(S)
  BY <1>1 DEF OneContent
<1>3. ClosedUnderCodec(S) /\ S \in SUBSET RowOrNone
  BY RowsSayingClosed DEF RowsSaying
<1> HIDE DEF S
<1>4. Base' /\ RowsIn(S)'
  BY <1>2, <1>3, NextBase, NextRows
<1>5. row' \in S
  BY <1>4 DEF RowsIn
<1>6. Parse(DataOf(row')) = Parse(d)
  BY <1>5 DEF S, RowsSaying, SameParsed
<1>7. S = RowsSaying(DataOf(row'))
  BY <1>6 DEF S, RowsSaying, SameParsed
<1>8. RowsIn(RowsSaying(DataOf(row)))'
  <2>1. RowsIn(S)' <=> /\ row' \in S
                       /\ \A c \in Calls : RowsOfCall(c, S)'
    BY DEF RowsIn
  <2> QED BY <1>4, <1>7 DEF RowsIn, RowsOfCall
<1> QED BY <1>1, <1>4, <1>6, <1>8 DEF OneContent

(* However many get() calls convert a row at once, in whatever order their *)
(* writes and background upgrades land, the schema makes the same of it.   *)
THEOREM ReadsOnlyConvert ==
    ASSUME \A c \in Calls : Kind[c] = "get"
    PROVE  Spec => ReadsPreserveData
<1>1. Init => OneContent
  <2> SUFFICES ASSUME Init PROVE OneContent
    OBVIOUS
  <2>1. row \in RowsSaying(DataOf(row))
    BY RowStoreAssumption DEF Init, RowsSaying, SameParsed
  <2> QED BY <2>1, InitBase, EmptySeq DEF Init, OneContent, RowsIn, RowsOfCall
<1>2. OneContent /\ [Next]_vars => OneContent' /\ [Parse(DataOf(row')) = Parse(DataOf(row))]_row
  BY NextOneContent
<1> QED BY <1>1, <1>2, PTL DEF Spec, ReadsPreserveData

-----------------------------------------------------------------------------
(* What a hash says of the content, for every store.                       *)

(* The hash column of the rows the account starts with is the hash of      *)
(* their content.                                                          *)
HonestRows == {r \in RowOrNone : HashOf(r) # NoHash => HashOf(r).data = DataOf(r)}

(* Canonical blobs: what a call is about to store. *)
CanonicalRecord(r) == r \in Row /\ r.aad = "canonical"

CopySound(c) ==
    /\ BindsData(entry[c].hash, entry[c].data)
    /\ pc[c] \in {"transform", "askPut"} \/ (pc[c] = "done" /\ Kind[c] = "get") =>
          (Kind[c] # "set" => /\ SameParsed(entry[c].data, DataOf(fetched[c]))
                              /\ entry[c].hash = HashOf(fetched[c])
                              /\ fetched[c] \in HonestRows)
    /\ pc[c] \in {"askPut", "gotPut"} =>
          CanonicalRecord(record[c]) /\ record[c].data = Parse(NextData(c))
    /\ Kind[c] = "mutate" /\ pc[c] = "done" /\ answer[c] = "none" =>
          \E d \in Readings(DataOf(fetched[c])) : Parse(Fn(c, d)) = DataOf(fetched[c])

CachesSound == \A t \in Tabs : cache[t] # NoEntry => BindsData(cache[t].hash, cache[t].data)
CopiesSound == \A c \in Calls : CopySound(c)

ContentInv == Base /\ RowsIn(HonestRows) /\ CachesSound /\ CopiesSound

(* The hash a record is encoded with is the hash of its content. *)
LEMMA EncodedHash ==
    ASSUME NEW k \in Keys, NEW d \in Data, NEW h \in BOOLEAN
    PROVE  LET e == EncodeBlob(k, NoEpoch, d, CodeVersion, h)
           IN  /\ e \in Row /\ e.aad = "canonical" /\ e.data = d
               /\ e.hash = NoHash \/ (e.hash # NoHash /\ e.hash.data = d)
<1>1. EncodeBlob(k, NoEpoch, d, CodeVersion, h) \in Row
  BY EncodeBlobType, RowStoreAssumption
<1> QED BY <1>1 DEF EncodeBlob, ContentHashOf

LEMMA HonestClosed == ClosedUnderCodec(HonestRows)
<1>1. ASSUME NEW r \in HonestRows, r \in Row, r.aad = "legacy"
      PROVE  CanonicalForm(r) \in HonestRows
  <2>1. IsBlob(r) /\ (r.hash # NoHash => r.hash.data = r.data)
    BY <1>1, NoRowAssumption DEF HonestRows, IsBlob, DataOf, HashOf
  <2>2. /\ CanonicalForm(r) \in Row /\ CanonicalForm(r).data = r.data
        /\ CanonicalForm(r).aad = "canonical" /\ CanonicalForm(r).hash = r.hash
    BY <1>1 DEF CanonicalForm, Row
  <2> QED BY <2>1, <2>2, NoRowAssumption DEF HonestRows, RowOrNone, DataOf, HashOf, IsBlob
<1>2. ASSUME NEW k \in KeysInUse, NEW d \in Data, NEW h \in BOOLEAN
      PROVE  EncodeBlob(k, NoEpoch, d, CodeVersion, h) \in HonestRows
  <2> DEFINE e == EncodeBlob(k, NoEpoch, d, CodeVersion, h)
  <2>1. /\ e \in Row /\ e.aad = "canonical" /\ e.data = d
        /\ e.hash = NoHash \/ (e.hash # NoHash /\ e.hash.data = d)
    BY EncodedHash, KeysInUseType
  <2> HIDE DEF e
  <2>2. e # NoRow /\ HashOf(e) = e.hash /\ DataOf(e) = e.data
    BY <2>1, NoRowAssumption DEF HashOf, DataOf, IsBlob
  <2>3. e \in HonestRows
    BY <2>1, <2>2 DEF HonestRows, RowOrNone
  <2> QED BY <2>3 DEF e
<1>3. \A r \in HonestRows : IsBlob(r) => r.data \in Data /\ Parse(r.data) \in Data
  BY ParsedType DEF HonestRows, RowOrNone, Row, IsBlob
<1>4. \A c \in Calls, d \in Data : Parse(Fn(c, d)) \in Data
  BY ParsedType, RowStoreAssumption
<1> QED BY <1>1, <1>2, <1>3, <1>4, RowStoreAssumption DEF ClosedUnderCodec

LEMMA UntouchedCopy ==
    ASSUME NEW c \in Calls, CopySound(c), Of(c)' = Of(c)
    PROVE  CopySound(c)'
BY DEF CopySound, Of, NextData, Given

LEMMA StepCopies ==
    ASSUME ContentInv, NEW c \in Calls, Step(c)
    PROVE  CachesSound' /\ CopiesSound'
<1>0. /\ TabOf[c] \in Tabs
      /\ CopySound(c) /\ RowsOfCall(c, HonestRows)
      /\ cache[TabOf[c]] # NoEntry =>
            BindsData(cache[TabOf[c]].hash, cache[TabOf[c]].data)
      /\ AfterLoad(c) \in {"done", "transform"}
      /\ AfterLoad(c) = "done" => Kind[c] = "get"
      /\ Kind[c] \in {"get", "set", "mutate"}
  BY RowStoreAssumption DEF ContentInv, CachesSound, CopiesSound, RowsIn, AfterLoad
<1>1. ASSUME CopySound(c)', \A d \in Calls \ {c} : Of(d)' = Of(d) PROVE CopiesSound'
  BY <1>1, UntouchedCopy DEF ContentInv, CopiesSound
<1>2. ASSUME cache' = cache PROVE CachesSound'
  BY <1>2 DEF ContentInv, CachesSound
<1>3. ASSUME NEW e, BindsData(e.hash, e.data), cache' = [cache EXCEPT ![TabOf[c]] = e]
      PROVE  CachesSound'
  BY <1>0, <1>3 DEF ContentInv, CachesSound, Base, TypeInv, TypeOK
<1>4. ASSUME NEW r \in HonestRows
      PROVE  BindsData(HashOf(r), DataOf(r)) /\ (HashOf(r) # NoHash => HashOf(r).data = DataOf(r))
  BY <1>4 DEF HonestRows, BindsData, SameParsed
<1> USE DEF ContentInv, Base, TypeInv, TypeOK
<1>5. CASE BeginLoad(c) \/ RetryPut(c)
  <2>1. \A d \in Calls \ {c} : Of(d)' = Of(d)
    BY <1>5 DEF BeginLoad, RetryPut, StartLoad, Of
  <2>2. pc'[c] \in {"askHash", "askRow"} /\ cache' = cache
    BY <1>5 DEF BeginLoad, RetryPut, StartLoad
  <2>3. BindsData(entry'[c].hash, entry'[c].data)
    BY <1>0, <1>5 DEF BeginLoad, RetryPut, StartLoad, CopySound
  <2>4. CopySound(c)'
    BY <2>2, <2>3 DEF CopySound
  <2> QED BY <1>1, <1>2, <2>1, <2>2, <2>4
<1>6. CASE BeginLocked(c) \/ BeginSet(c) \/ CacheMiss(c) \/ GiveUp(c)
  <2>1. \A d \in Calls \ {c} : Of(d)' = Of(d)
    BY <1>6 DEF BeginLocked, BeginSet, CacheMiss, GiveUp, Of
  <2>2. CopySound(c)' /\ cache' = cache
    BY <1>0, <1>6 DEF BeginLocked, BeginSet, CacheMiss, GiveUp, CopySound
  <2> QED BY <1>1, <1>2, <2>1, <2>2
<1>7. CASE ServeHash(c) \/ ServeRow(c) \/ Decode(c) \/ ConvergeWrite(c)
  <2>1. \A d \in Calls \ {c} : Of(d)' = Of(d)
    BY <1>7 DEF ServeHash, ServeRow, Decode, ConvergeWrite, Of
  <2>2. CopySound(c)' /\ cache' = cache
    BY <1>0, <1>7 DEF ServeHash, ServeRow, Decode, ConvergeWrite, CopySound
  <2> QED BY <1>1, <1>2, <2>1, <2>2
<1>8. CASE CacheHit(c)
  <2>1. \A d \in Calls \ {c} : Of(d)' = Of(d)
    BY <1>8 DEF CacheHit, Of
  <2>2. /\ SameParsed(entry[c].data, DataOf(fetched[c]))
        /\ entry[c].hash = HashOf(fetched[c]) /\ fetched[c] \in HonestRows
    <3>1. /\ HashOf(fetched[c]) # NoHash /\ HashOf(fetched[c]) = entry[c].hash
          /\ fetched[c] \in HonestRows
      BY <1>0, <1>8 DEF CacheHit, Confirms, RowsOfCall
    <3> QED BY <1>0, <1>4, <3>1 DEF BindsData, CopySound, SameParsed
  <2>3. /\ pc'[c] = AfterLoad(c) /\ entry' = entry /\ fetched' = fetched
        /\ answer' = answer /\ cache' = cache
    BY <1>8 DEF CacheHit
  <2>4. CopySound(c)'
    BY <1>0, <2>2, <2>3 DEF CopySound
  <2> QED BY <1>1, <1>2, <2>1, <2>3, <2>4
<1>9. CASE FinishLoad(c)
  <2> DEFINE loaded == [data |-> AsLoaded(DataOf(fetched[c])), hash |-> HashOf(fetched[c])]
  <2>1. \A d \in Calls \ {c} : Of(d)' = Of(d)
    BY <1>9 DEF FinishLoad, Of
  <2>2. /\ SameParsed(loaded.data, DataOf(fetched[c])) /\ loaded.hash = HashOf(fetched[c])
        /\ fetched[c] \in HonestRows
    BY <1>0, <1>9, RowFields, LoadedSame DEF FinishLoad, RowsOfCall
  <2>3. BindsData(loaded.hash, loaded.data)
    BY <1>0, <1>4, <1>9, <2>2 DEF FinishLoad, RowsOfCall, BindsData, SameParsed
  <2>4. /\ pc'[c] = AfterLoad(c) /\ entry'[c] = loaded /\ fetched' = fetched
        /\ cache' = cache \/ cache' = [cache EXCEPT ![TabOf[c]] = loaded]
    BY <1>9 DEF FinishLoad
  <2> HIDE DEF loaded
  <2>5. CopySound(c)'
    BY <1>0, <2>2, <2>3, <2>4 DEF CopySound
  <2> QED BY <1>1, <1>2, <1>3, <2>1, <2>3, <2>4, <2>5
<1>10. CASE SkipWrite(c)
  <2>1. \A d \in Calls \ {c} : Of(d)' = Of(d)
    BY <1>10 DEF SkipWrite, Of
  <2>2. held[c] \in Keys /\ Parse(NextData(c)) \in Data /\ ContentHash \in BOOLEAN
    BY <1>10, NextDataType, RowStoreAssumption DEF SkipWrite, Alive, KeyOrNone
  <2>3. NextRecord(c).hash = NoHash
        \/ (NextRecord(c).hash # NoHash /\ NextRecord(c).hash.data = Parse(NextData(c)))
    BY <2>2, EncodedHash DEF NextRecord
  <2>4. /\ pc[c] = "transform" /\ Kind[c] = "mutate"
        /\ entry[c].hash # NoHash /\ NextRecord(c).hash = entry[c].hash
    BY <1>10 DEF SkipWrite, SkipsWrite
  <2>5. Given(c) \in Readings(DataOf(fetched[c])) /\ Parse(Fn(c, Given(c))) = DataOf(fetched[c])
    <3>1. /\ SameParsed(entry[c].data, DataOf(fetched[c]))
          /\ entry[c].hash = HashOf(fetched[c]) /\ fetched[c] \in HonestRows
      BY <1>0, <2>4 DEF CopySound
    <3>2. Parse(NextData(c)) = DataOf(fetched[c])
      BY <1>4, <2>3, <2>4, <3>1
    <3>3. Given(c) \in Readings(DataOf(fetched[c]))
      BY <3>1, GivenReading
    <3> QED BY <3>2, <3>3 DEF NextData
  <2>6. /\ pc'[c] = "done" /\ entry' = entry /\ fetched' = fetched
        /\ answer' = answer /\ cache' = cache
    BY <1>10 DEF SkipWrite
  <2>7. CopySound(c)'
    BY <1>0, <2>4, <2>5, <2>6 DEF CopySound
  <2> QED BY <1>1, <1>2, <2>1, <2>6, <2>7
<1>11. CASE Encode(c)
  <2>1. \A d \in Calls \ {c} : Of(d)' = Of(d)
    BY <1>11 DEF Encode, Of
  <2>2. held[c] \in Keys /\ Parse(NextData(c)) \in Data /\ ContentHash \in BOOLEAN
    BY <1>11, NextDataType, RowStoreAssumption DEF Encode, Alive, KeyOrNone
  <2>3. CanonicalRecord(NextRecord(c)) /\ NextRecord(c).data = Parse(NextData(c))
    BY <2>2, EncodedHash DEF NextRecord, CanonicalRecord
  <2>4. /\ pc[c] = "transform" /\ pc'[c] = "askPut" /\ entry' = entry /\ fetched' = fetched
        /\ record'[c] = NextRecord(c) /\ cache' = cache
    BY <1>11 DEF Encode
  <2>5. CopySound(c)'
    BY <1>0, <2>3, <2>4 DEF CopySound, NextData, Given
  <2> QED BY <1>1, <1>2, <2>1, <2>4, <2>5
<1>12. CASE ServePut(c)
  <2>1. \A d \in Calls \ {c} : Of(d)' = Of(d)
    BY <1>12 DEF ServePut, Of
  <2>2. CopySound(c)' /\ cache' = cache
    BY <1>0, <1>12 DEF ServePut, CopySound, NextData, Given
  <2> QED BY <1>1, <1>2, <2>1, <2>2
<1>13. CASE PutDone(c)
  <2>1. \A d \in Calls \ {c} : Of(d)' = Of(d)
    BY <1>13 DEF PutDone, Of
  <2>2. /\ record[c] \in HonestRows /\ CanonicalRecord(record[c])
        /\ record[c].data = Parse(NextData(c)) /\ Kind[c] # "get" /\ answer[c] = "ok"
        /\ NextData(c) \in Data
    BY <1>0, <1>13, NextDataType DEF PutDone, RowsOfCall, CopySound, WritersWrite
  <2>3. BindsData(record[c].hash, NextData(c))
    BY <1>4, <2>2, NoRowAssumption, RowStoreAssumption
    DEF CanonicalRecord, HashOf, DataOf, IsBlob, BindsData, SameParsed
  <2>4. ASSUME Kind[c] = "set" PROVE BindsData(NextRecord(c).hash, record[c].data)
    <3>1. CASE ContentHash
      <4>1. held[c] \in Keys /\ Parse(NextData(c)) \in Data
        BY <1>13, <2>4, <3>1, NextDataType DEF PutDone, Alive, KeyOrNone
      <4>2. NextRecord(c).hash = NoHash \/ NextRecord(c).hash.data = Parse(NextData(c))
        BY <4>1, EncodedHash, RowStoreAssumption DEF NextRecord
      <4> QED BY <2>2, <4>2 DEF BindsData, SameParsed
    <3>2. CASE ~ContentHash
      BY <3>2 DEF NextRecord, EncodeBlob, BindsData
    <3> QED BY <3>1, <3>2
  <2>5. BindsData(Written(c).hash, Written(c).data)
    BY <2>3, <2>4 DEF Written
  <2>6. /\ pc'[c] = "done" /\ entry' = entry /\ answer' = answer
        /\ cache' = [cache EXCEPT ![TabOf[c]] = Written(c)]
    BY <1>13 DEF PutDone
  <2>7. CopySound(c)'
    BY <1>0, <2>2, <2>6 DEF CopySound
  <2> QED BY <1>1, <1>3, <2>1, <2>5, <2>6, <2>7
<1> QED
  BY <1>5, <1>6, <1>7, <1>8, <1>9, <1>10, <1>11, <1>12, <1>13 DEF Step, Load, Write

LEMMA NextContent == ContentInv /\ [Next]_vars => ContentInv'
<1> SUFFICES ASSUME ContentInv, [Next]_vars PROVE ContentInv'
  OBVIOUS
<1>0. Base' /\ RowsIn(HonestRows)'
  BY NextBase, NextRows, HonestClosed DEF ContentInv, HonestRows
<1>1. ASSUME NEW c \in Calls, Step(c) PROVE CachesSound' /\ CopiesSound'
  BY <1>1, StepCopies
<1>2. ASSUME NEW c \in Calls, LazySave(c) \/ LazyFail(c) \/ NetworkError(c)
      PROVE  CachesSound' /\ CopiesSound'
  <2> USE DEF ContentInv, Base, TypeInv, TypeOK
  <2>1. \A d \in Calls \ {c} : Of(d)' = Of(d)
    BY <1>2 DEF LazySave, LazyFail, NetworkError, Of
  <2>2. CopySound(c)' /\ cache' = cache
    BY <1>2 DEF LazySave, LazyFail, NetworkError, CopiesSound, CopySound, Terminal,
       NextData, Given
  <2> QED BY <2>1, <2>2, UntouchedCopy DEF CachesSound, CopiesSound
<1>3. ASSUME NEW t \in Tabs, Lock(t) PROVE CachesSound' /\ CopiesSound'
  <2>1. CachesSound'
    BY <1>3 DEF Lock, ContentInv, Base, TypeInv, TypeOK, CachesSound
  <2>2. CopiesSound'
    BY <1>3 DEF Lock, ContentInv, CopiesSound, CopySound, NextData, Given
  <2> QED BY <2>1, <2>2
<1>4. ASSUME NEW t \in Tabs, Unlock(t) PROVE CachesSound' /\ CopiesSound'
  BY <1>4 DEF Unlock, callVars, ContentInv, CachesSound, CopiesSound, CopySound, NextData, Given
<1>5. ASSUME UNCHANGED vars PROVE CachesSound' /\ CopiesSound'
  BY <1>5 DEF vars, callVars, ContentInv, CachesSound, CopiesSound, CopySound, NextData, Given
<1>6. CachesSound' /\ CopiesSound'
  BY <1>1, <1>2, <1>3, <1>4, <1>5 DEF Next
<1> QED BY <1>0, <1>6 DEF ContentInv

THEOREM ContentInvariant ==
    ASSUME InitialRows \subseteq HonestRows
    PROVE  Spec => []ContentInv
<1>1. Init => ContentInv
  <2> SUFFICES ASSUME Init PROVE ContentInv
    OBVIOUS
  <2>1. CachesSound
    BY DEF Init, CachesSound
  <2>2. CopiesSound
    BY DEF Init, CopiesSound, CopySound, NothingRead, BindsData
  <2> QED BY <2>1, <2>2, InitBase, InitRows DEF ContentInv
<1> QED BY <1>1, NextContent, PTL DEF Spec

(* Revalidation by hash never serves a copy of other content: in any store *)
(* and for any schema, whatever was converted, rotated or locked           *)
(* meanwhile, the schema makes of a cached entry that the server's hash    *)
(* confirms what it makes of the row.                                      *)
THEOREM CacheIsHonest ==
    ASSUME InitialRows \subseteq HonestRows
    PROVE  Spec => []CacheNeverMasks
<1>1. ContentInv => CacheNeverMasks
  BY DEF ContentInv, CachesSound, RowsIn, HonestRows, CacheNeverMasks, BindsData, SameParsed
<1> QED BY <1>1, ContentInvariant, PTL

(* Every load of any store gives its caller a reading of the content the   *)
(* row had at one instant, from the cache or not (loadRevalidated,         *)
(* loadRow): for a perUser store exactly what the schema makes of it.      *)
THEOREM LoadsAreSnapshots ==
    ASSUME InitialRows \subseteq HonestRows
    PROVE  Spec => []LoadIsSnapshot
<1>1. ContentInv => LoadIsSnapshot
  BY GivenReading DEF ContentInv, CopiesSound, CopySound, LoadIsSnapshot, Base, TypeInv, TypeOK
<1> QED BY <1>1, ContentInvariant, PTL

(* mutate() leaves a write out only when it would have put back the        *)
(* content the row had.                                                    *)
THEOREM OnlyNoOpsAreSkipped ==
    ASSUME InitialRows \subseteq HonestRows
    PROVE  Spec => []SkipsOnlyNoOps
<1>1. ContentInv => SkipsOnlyNoOps
  BY DEF ContentInv, CopiesSound, CopySound, SkipsOnlyNoOps
<1> QED BY <1>1, ContentInvariant, PTL
=============================================================================
