----------------------------- MODULE Genres_proofs -----------------------------
(***************************************************************************)
(* Where a book's genres come from, for any library and any batch. What    *)
(* makes it inductive: a book shows Calibre's tags exactly when the last   *)
(* sync read some, and one that was paid for since shows what the AI gave. *)
(* The types bound a call by the batch, which is a fact about counting the *)
(* books before each book.                                                 *)
(***************************************************************************)
EXTENDS Genres, FiniteSetTheorems, WellFoundedInduction, TLAPS

\* A finite set of numbers has a largest: one with fewest above it, and a larger one would have fewer.
LEMMA HasLargest ==
    ASSUME NEW S \in SUBSET Nat, IsFiniteSet(S), S # {}
    PROVE  \E m \in S : \A x \in S : x <= m
<1> DEFINE Above(b) == {x \in S : x > b}
           T == {Above(b) : b \in S}
<1>1. T \subseteq SUBSET S /\ T # {}
  OBVIOUS
<1>2. IsWellFoundedOn(StrictSubsetOrdering(S), SUBSET S)
  BY FS_StrictSubsetOrderingWellFounded, FS_FiniteSubsetsOfFinite
<1>3. PICK A \in T : \A B \in T : <<B, A>> \notin StrictSubsetOrdering(S)
  <2> HIDE DEF T
  <2> QED
    BY <1>1, <1>2, WFMin
<1>4. PICK m \in S : A = Above(m)
  OBVIOUS
<1>5. ASSUME NEW x \in S, ~(x <= m)
      PROVE  FALSE
  <2>1. x > m /\ x \in Above(m) /\ x \notin Above(x)
    BY <1>5
  <2>2. ASSUME NEW y \in Above(x)
        PROVE  y \in Above(m)
    <3>1. y \in S /\ y > x
      OBVIOUS
    <3>2. x \in Nat /\ y \in Nat /\ m \in Nat
      BY <3>1
    <3>3. QED
      BY <2>1, <3>1, <3>2
  <2>3. Above(x) \in T /\ Above(x) # Above(m)
    BY <2>1
  <2>4. <<Above(x), A>> \in StrictSubsetOrdering(S)
    BY <2>2, <2>3, <1>1, <1>4 DEF StrictSubsetOrdering
  <2>5. QED
    BY <1>3, <2>3, <2>4
<1>6. QED
  BY <1>5

IInv ==
    /\ TypeOK
    /\ \A b \in Books : b \in seen <=> source[b] = "calibre"
    /\ \A b \in paid : source[b] = "ai"

\* A call asks about Batch books at most: before the last of them there are fewer than Batch.
LEMMA BatchFits == Cardinality(MissingGenres) <= Batch /\ MissingGenres \subseteq Books
<1> DEFINE M == MissingGenres
<1>1. M \subseteq Missing /\ Missing \subseteq Books
  BY DEF MissingGenres, Missing
<1>2. Missing \subseteq Nat /\ IsFiniteSet(Missing) /\ Batch \in Nat
  BY <1>1, GenresAssumption, FS_Subset
<1>3. IsFiniteSet(M) /\ Cardinality(M) \in Nat
  BY <1>1, <1>2, FS_Subset, FS_CardinalityType
<1>4. ASSUME M # {}
      PROVE  Cardinality(M) <= Batch
  <2>1. PICK m \in M : \A x \in M : x <= m
    <3> HIDE DEF M
    <3> QED
      BY <1>1, <1>2, <1>3, <1>4, HasLargest
  <2> DEFINE Before == {c \in Missing : c < m}
  <2>2. Cardinality(Before) < Batch
    BY <2>1 DEF MissingGenres
  <2>3. M \ {m} \subseteq Before /\ Before \subseteq Missing
    BY <1>1, <1>2, <2>1
  <2>4. Cardinality(M \ {m}) = Cardinality(M) - 1
    BY <1>3, <2>1, FS_RemoveElement
  <2>5. IsFiniteSet(Before) /\ Cardinality(Before) \in Nat
    BY <1>2, <2>3, FS_Subset, FS_CardinalityType
  <2>6. Cardinality(M \ {m}) <= Cardinality(Before)
    BY <2>3, <2>5, FS_Subset
  <2> HIDE DEF M, Before
  <2>7. QED
    BY <1>2, <1>3, <2>2, <2>4, <2>5, <2>6
<1>5. ASSUME M = {}
      PROVE  Cardinality(M) <= Batch
  BY <1>2, <1>5, FS_EmptySet
<1>6. QED
  BY <1>1, <1>4, <1>5
LEMMA InitIInv == Init => IInv
<1> SUFFICES ASSUME Init PROVE IInv
  OBVIOUS
<1>1. cancelled \in BOOLEAN /\ room \in BOOLEAN
  BY Zenon DEF Init
<1>2. Cardinality(picked) <= Batch
  <2>1. picked = {}
    BY DEF Init
  <2>2. Cardinality({}) <= Batch
    BY GenresAssumption, FS_EmptySet
  <2>3. QED
    BY <2>1, <2>2
<1>3. \A b \in Books : source[b] # "calibre"
  BY DEF Init
<1>4. source \in [Books -> {"", "ai", "calibre"}]
  BY DEF Init
<1>5. /\ tagged = {} /\ changes = 0 /\ seen = {} /\ paid = {} /\ at = "off"
      /\ picked = {} /\ left = {} /\ answered = {}
  BY DEF Init
<1>6. 0 \in 0..MaxTagged
  BY GenresAssumption
<1>7. TypeOK
  BY <1>1, <1>2, <1>4, <1>5, <1>6 DEF TypeOK
<1>8. QED
  BY <1>3, <1>5, <1>7 DEF IInv

\* A step that changes no book's genres keeps the invariant.
LEMMA OthersKeep ==
    ASSUME IInv, UNCHANGED <<source, seen, paid>>, TypeOK'
    PROVE  IInv'
  BY DEF IInv

\* Calibre's tags change; nothing of the library does yet.
LEMMA TagKeeps ==
    ASSUME IInv, NEW b \in Books, Tag(b)
    PROVE  IInv'
<1>1. changes \in 0..MaxTagged /\ changes < MaxTagged /\ changes' = changes + 1 /\ MaxTagged \in Nat
  BY GenresAssumption DEF IInv, TypeOK, Tag
<1>2. changes' \in 0..MaxTagged
  BY <1>1
<1>3. tagged' \subseteq Books
  BY DEF IInv, TypeOK, Tag
<1>4. TypeOK'
  BY <1>2, <1>3 DEF IInv, TypeOK, Tag
<1>5. QED
  BY <1>4, OthersKeep DEF Tag

\* A sync files the tags it read, and leaves what the AI gave where it read none.
LEMMA SyncKeeps ==
    ASSUME IInv, NEW b \in Books, UpsertCalibreBook(b)
    PROVE  IInv'
<1>1. TypeOK'
  BY DEF IInv, TypeOK, UpsertCalibreBook, Source, FromTags
<1>2. QED
  BY <1>1 DEF IInv, TypeOK, UpsertCalibreBook, Source, FromTags

\* An answer saved late does not touch the books whose tags were read meanwhile.
LEMMA AnswerKeeps ==
    ASSUME IInv, NEW b \in Books, SetAIGenres(b)
    PROVE  IInv'
<1>1. TypeOK'
  BY DEF IInv, TypeOK, SetAIGenres, MayMark, unmoved
<1>2. QED
  BY <1>1 DEF IInv, TypeOK, SetAIGenres, MayMark, unmoved

\* A run that ends leaves the books as they are.
LEMMA EndKeeps ==
    ASSUME IInv, End
    PROVE  IInv'
<1>1. Cardinality({}) <= Batch
  BY GenresAssumption, FS_EmptySet
<1>2. cancelled' \in BOOLEAN
  BY Zenon DEF End
<1>3. TypeOK'
  BY <1>1, <1>2 DEF IInv, TypeOK, End, unmoved
<1>4. QED
  BY <1>3, OthersKeep DEF End, unmoved

\* Each step keeps the invariant, the run's and those of Calibre and the sync.
LEMMA NextIInv ==
    ASSUME IInv, [Next]_vars
    PROVE  IInv'
<1>1. CASE UNCHANGED vars
  BY <1>1 DEF IInv, TypeOK, vars
<1>2. CASE Spend \/ WindowFrees
  <2>1. room' \in BOOLEAN
    BY <1>2, Zenon DEF Spend, WindowFrees
  <2>2. QED
    BY <1>2, <2>1, OthersKeep DEF Spend, WindowFrees, IInv, TypeOK
<1>3. CASE Start \/ Stop
  <2>1. cancelled' \in BOOLEAN
    BY <1>3, Zenon DEF Start, Stop
  <2>2. QED
    BY <1>3, <2>1, OthersKeep DEF Start, Stop, unmoved, IInv, TypeOK
<1>4. ASSUME NEW ok \in BOOLEAN, Pick(ok)
      PROVE  IInv'
  <2>1. CASE End
    BY <2>1, EndKeeps
  <2>2. CASE ~End
    <3>1. picked' = MissingGenres /\ left' = MissingGenres /\ answered' = {} /\ at' = "budget"
          /\ UNCHANGED <<unmoved, source, paid, cancelled>>
      BY <1>4, <2>2 DEF Pick
    <3>2. TypeOK'
      BY <3>1, BatchFits DEF IInv, TypeOK, unmoved
    <3>3. QED
      BY <3>1, <3>2, OthersKeep DEF unmoved
  <2>3. QED
    BY <2>1, <2>2
<1>5. CASE WaitForBudget
  BY <1>5, EndKeeps, OthersKeep DEF WaitForBudget, unmoved, IInv, TypeOK
<1>6. ASSUME NEW some \in SUBSET picked, ParseGenres(some)
      PROVE  IInv'
  BY <1>6, OthersKeep DEF ParseGenres, unmoved, IInv, TypeOK
<1>7. CASE Restart \/ AskFails \/ SaveFails
  BY <1>7, EndKeeps DEF Restart, AskFails, SaveFails
<1>8. QED
  BY <1>1, <1>2, <1>3, <1>4, <1>5, <1>6, <1>7, TagKeeps, SyncKeeps, AnswerKeeps DEF Next, Run

THEOREM GenresInvariant == Spec => []IInv
  BY InitIInv, NextIInv, PTL DEF Spec

\* A book whose tags the sync has read shows these, whatever the AI answers and whenever it
\* does (facets.go: "never over ones from Calibre's tags"), and what the AI was asked about
\* is kept by every sync until Calibre had tags for it (calibrebooks.go: "without any,
\* genres the AI filled in stay"); and a call is for Batch books at most.
THEOREM GenresAreKept == Spec => []GenresKept
<1>1. IInv => GenresKept
  BY DEF IInv, TypeOK, GenresKept, TagsWin, AnswersStay
<1>2. QED
  BY <1>1, GenresInvariant, PTL
=============================================================================
