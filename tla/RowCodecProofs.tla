--------------------------- MODULE RowCodecProofs ---------------------------
(***************************************************************************)
(* Lemmas about the codec, for every set of contents, keys and epochs: the *)
(* types of what it returns, and the exact writes a read makes.            *)
(***************************************************************************)
EXTENDS RowCodec, SequenceTheorems, TLAPS

(* encodeBlob yields a row. *)
LEMMA EncodeBlobType ==
    ASSUME NEW k \in Keys, NEW e \in Epochs \cup {NoEpoch}, NEW d \in Data,
           NEW v \in Versions, NEW h \in BOOLEAN
    PROVE  EncodeBlob(k, e, d, v, h) \in Row
BY DEF EncodeBlob, Row, HashOrNone, Hash, ContentHashOf

(* A stored row has a content and a hash column. *)
LEMMA RowFields ==
    ASSUME NEW r \in RowOrNone
    PROVE  DataOf(r) \in Data /\ HashOf(r) \in HashOrNone
BY CodecAssumption, NoRowAssumption
   DEF RowOrNone, Row, DataOf, HashOf, IsBlob, HashOrNone

(* A row that is not readable as it stands is a row with a blob. *)
LEMMA UnreadableIsRow ==
    ASSUME NEW r \in RowOrNone, NEW k, NEW v, ~Decodes(k, r, v)
    PROVE  r \in Row /\ IsBlob(r)
BY DEF Decodes, DecodesAs, IsBlob, RowOrNone

(* migrateLegacyAAD writes the same row under the canonical AAD, and only  *)
(* a legacy row that the key opens.                                        *)
LEMMA FallbackWritesShape ==
    ASSUME NEW r \in RowOrNone, NEW k, NEW v
    PROVE  \/ FallbackWrites(k, r, v) = << >>
           \/ /\ FallbackWrites(k, r, v) = << CanonicalForm(r) >>
              /\ CanonicalForm(r) \in Row
              /\ r \in Row /\ IsBlob(r) /\ r.dek = k /\ r.aad = "legacy" /\ r.ver <= v
<1>1. CASE UsesLegacyAAD(k, r, v)
  <2>1. r \in Row /\ IsBlob(r)
    BY <1>1, UnreadableIsRow DEF UsesLegacyAAD
  <2>2. r.dek = k /\ r.aad = "legacy" /\ r.ver <= v
    BY <1>1, <2>1 DEF UsesLegacyAAD, DecodesAs
  <2>3. CanonicalForm(r) \in Row
    BY <2>1 DEF CanonicalForm, Row
  <2> QED BY <1>1, <2>1, <2>2, <2>3 DEF FallbackWrites
<1>2. CASE ~UsesLegacyAAD(k, r, v)
  BY <1>2 DEF FallbackWrites
<1> QED BY <1>1, <1>2

(* Sequences of one or two elements. *)
LEMMA ShortSeqs ==
    ASSUME NEW S, NEW a \in S, NEW b \in S
    PROVE  << >> \in Seq(S) /\ << a >> \in Seq(S) /\ << a, b >> \in Seq(S)
BY EmptySeq

(* They are put together. *)
LEMMA ConcatSingles ==
    ASSUME NEW a, NEW b
    PROVE  << >> \o << b >> = << b >> /\ << a >> \o << b >> = << a, b >>
<1>1. << a >> \in Seq({a, b}) /\ << b >> \in Seq({a, b}) /\ << a, b >> \in Seq({a, b})
  OBVIOUS
<1>2. Len(<< a >>) = 1 /\ Len(<< b >>) = 1 /\ Len(<< a, b >>) = 2
  OBVIOUS
<1>3. << a >> \o << b >> \in Seq({a, b}) /\ Len(<< a >> \o << b >>) = 2
  BY <1>1, <1>2, ConcatProperties
<1>4. (<< a >> \o << b >>)[1] = a /\ (<< a >> \o << b >>)[2] = b
  <2>1. \A i \in 1 .. 2 : (<< a >> \o << b >>)[i] =
                        IF i <= 1 THEN << a >>[i] ELSE << b >>[i - 1]
    BY <1>1, <1>2, ConcatProperties
  <2> QED BY <2>1
<1>5. << a >> \o << b >> = << a, b >>
  <2> DEFINE t == << a >> \o << b >>
             u == << a, b >>
  <2>1. \A i \in 1 .. Len(t) : t[i] = u[i]
    BY <1>3, <1>4
  <2>2. t \in Seq({a, b}) /\ u \in Seq({a, b}) /\ Len(t) = Len(u)
    BY <1>1, <1>2, <1>3
  <2> HIDE DEF t, u
  <2>3. t = u
    BY <2>1, <2>2, SeqEqual
  <2> QED BY <2>3 DEF t, u
<1> QED BY <1>1, <1>5, ConcatEmptySeq

(* The writes of a read with candidates (decodeWithCandidates), in order:  *)
(* at most a row made canonical, then at most one encoded again under the  *)
(* current key.                                                            *)
LEMMA CandidateWritesShape ==
    ASSUME NEW r \in RowOrNone, NEW cur, NEW prev, NEW v \in Versions,
           cur \in Keys \/ ~IsBlob(r)
    PROVE  LET w == CandidateWrites(cur, prev, r, v)
               c == CanonicalForm(r)
               e == EncodeBlob(cur, NoEpoch, r.data, v, r.hash # NoHash)
               legacy(k) == c \in Row /\ r.dek = k /\ r.aad = "legacy" /\ r.ver <= v
           IN  \/ w = << >>
               \/ w = << c >> /\ r \in Row /\ legacy(cur)
               \/ /\ r \in Row /\ cur \in Keys /\ e \in Row
                  /\ PreviousWins(cur, prev, r, v)
                  /\ w = << e >> \/ (w = << c, e >> /\ legacy(prev))
<1> DEFINE c == CanonicalForm(r)
           e == EncodeBlob(cur, NoEpoch, r.data, v, r.hash # NoHash)
<1>1. CASE CurrentWins(cur, r, v)
  BY <1>1, FallbackWritesShape DEF CandidateWrites
<1>2. CASE ~CurrentWins(cur, r, v) /\ PreviousWins(cur, prev, r, v)
  <2>1. r \in Row /\ IsBlob(r) /\ cur \in Keys
    BY <1>2, UnreadableIsRow DEF CurrentWins, FallbackDecodes
  <2>2. r.data \in Data
    BY <2>1 DEF Row
  <2>3. e \in Row
    BY <2>1, <2>2, EncodeBlobType
  <2>4. CandidateWrites(cur, prev, r, v) = FallbackWrites(prev, r, v) \o << e >>
    BY <1>2 DEF CandidateWrites
  <2>5. << >> \o << e >> = << e >> /\ << c >> \o << e >> = << c, e >>
    BY ConcatSingles
  <2> QED BY <1>2, <2>1, <2>3, <2>4, <2>5, FallbackWritesShape
<1>3. CASE ~CurrentWins(cur, r, v) /\ ~PreviousWins(cur, prev, r, v)
  BY <1>3 DEF CandidateWrites
<1> QED BY <1>1, <1>2, <1>3
=============================================================================
