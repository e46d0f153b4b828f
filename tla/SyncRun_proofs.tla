--------------------------- MODULE SyncRun_proofs ---------------------------
(***************************************************************************)
(* Theorems about SyncRun, for every value of its constants.               *)
(***************************************************************************)
EXTENDS SyncRun, FiniteSetTheorems, TLAPS

-----------------------------------------------------------------------------
(* Ranks.  `created` and Newer order the listed reviews strictly.          *)

\* Dates and numbers of reviews are naturals.
LEMMA Orders ==
  ASSUME TypeOK
  PROVE  /\ \A r \in Reviews : r \in Nat /\ created[r] \in Nat
         /\ listed \subseteq Reviews
BY SyncAssumption DEF TypeOK, Dates

\* Of two reviews one is newer, and newer is transitive.
LEMMA NewerTotal ==
  ASSUME TypeOK
  PROVE  /\ \A x, y \in Reviews : x = y \/ Newer(x, y) \/ Newer(y, x)
         /\ \A x, y, z \in Reviews : Newer(x, y) /\ Newer(y, z) => Newer(x, z)
         /\ \A x \in Reviews : ~Newer(x, x)
BY Orders DEF Newer

\* The reviews before r in a finite list L.
LEMMA RankType ==
  ASSUME NEW L, IsFiniteSet(L), NEW r
  PROVE  /\ IsFiniteSet({x \in L : Newer(x, r)})
         /\ Rank(r, L) \in Nat
<1>1. {x \in L : Newer(x, r)} \in SUBSET L
  OBVIOUS
<1>2. IsFiniteSet({x \in L : Newer(x, r)})
  BY <1>1, FS_Subset
<1>3. Cardinality({x \in L : Newer(x, r)}) \in Nat
  BY <1>2, FS_CardinalityType
<1> QED BY <1>2, <1>3 DEF Rank

\* A newer review of a list has a smaller rank.
LEMMA RankStrict ==
  ASSUME TypeOK, NEW L \in SUBSET Reviews, IsFiniteSet(L),
         NEW x \in L, NEW y \in L, Newer(x, y)
  PROVE  Rank(x, L) < Rank(y, L)
<1> DEFINE A == {z \in L : Newer(z, x)}
           B == {z \in L : Newer(z, y)}
<1>1. A \in SUBSET B /\ x \in B /\ x \notin A
  BY NewerTotal
<1>2. IsFiniteSet(A) /\ IsFiniteSet(B) /\ Rank(x, L) \in Nat /\ Rank(y, L) \in Nat
  BY RankType
<1>3. Cardinality(A) <= Cardinality(B) /\ (Cardinality(B) = Cardinality(A) => B = A)
  BY <1>1, <1>2, FS_Subset
<1>4. Cardinality(A) # Cardinality(B)
  BY <1>1, <1>3
<1> QED BY <1>2, <1>3, <1>4 DEF Rank

\* A review that is on a page of the first k is newer than one that is not.
LEMMA RankOrders ==
  ASSUME TypeOK, NEW L \in SUBSET Reviews, IsFiniteSet(L),
         NEW x \in L, NEW y \in L, Rank(x, L) < Rank(y, L)
  PROVE  Newer(x, y)
<1>1. x = y \/ Newer(x, y) \/ Newer(y, x)
  BY NewerTotal
<1>2. Rank(x, L) \in Nat /\ Rank(y, L) \in Nat
  BY RankType
<1>3. ASSUME Newer(y, x) PROVE FALSE
  BY <1>2, <1>3, RankStrict
<1> QED BY <1>1, <1>2, <1>3

\* The ranks of the reviews of a list are the numbers below its length.
LEMMA RankOnto ==
  ASSUME TypeOK, NEW L \in SUBSET Reviews, IsFiniteSet(L)
  PROVE  /\ \A x \in L : Rank(x, L) < Cardinality(L)
         /\ \A k \in Nat : k < Cardinality(L) => \E x \in L : Rank(x, L) = k
<1> DEFINE n == Cardinality(L)
           f == [x \in L |-> Rank(x, L)]
           I == {f[x] : x \in L}
<1>1. n \in Nat
  BY FS_CardinalityType
<1>2. ASSUME NEW x \in L PROVE Rank(x, L) \in Nat /\ Rank(x, L) < n
  <2> DEFINE A == {z \in L : Newer(z, x)}
  <2>1. A \in SUBSET L /\ x \notin A
    BY NewerTotal
  <2>2. Cardinality(A) <= n /\ (Cardinality(L) = Cardinality(A) => L = A)
    BY <2>1, FS_Subset
  <2>3. Cardinality(A) # n
    BY <2>1, <2>2
  <2>4. Rank(x, L) \in Nat
    BY RankType
  <2> QED BY <1>1, <2>2, <2>3, <2>4 DEF Rank
<1>3. f \in Bijection(L, I)
  <2>1. f \in [L -> I] /\ \A t \in I : \E x \in L : f[x] = t
    OBVIOUS
  <2>2. ASSUME NEW x \in L, NEW y \in L, f[x] = f[y] PROVE x = y
    <3>1. Rank(x, L) \in Nat /\ Rank(x, L) = Rank(y, L)
      BY <1>2, <2>2
    <3>2. ~Newer(x, y) /\ ~Newer(y, x)
      BY <3>1, RankStrict
    <3> QED BY <3>2, NewerTotal
  <2> QED BY <2>1, <2>2 DEF Bijection, Injection, Surjection, IsInjective
<1>4. Cardinality(I) = n
  BY <1>3, FS_Bijection DEF ExistsBijection
<1>5. IsFiniteSet(0 .. n - 1) /\ Cardinality(0 .. n - 1) = n
  <2>1. n - 1 \in Int /\ 0 \in Int
    BY <1>1
  <2> HIDE DEF n
  <2>2. /\ IsFiniteSet(0 .. n - 1)
        /\ Cardinality(0 .. n - 1) = IF 0 > n - 1 THEN 0 ELSE n - 1 - 0 + 1
    BY <2>1, FS_Interval
  <2> QED BY <1>1, <2>2
<1>6. I \in SUBSET (0 .. n - 1)
  BY <1>1, <1>2
<1>7. I = 0 .. n - 1
  BY <1>4, <1>5, <1>6, FS_Subset
<1>8. ASSUME NEW k \in Nat, k < n PROVE \E x \in L : Rank(x, L) = k
  <2>1. k \in 0 .. n - 1
    <3> HIDE DEF n
    <3> QED BY <1>1, <1>8
  <2>2. k \in I
    <3> HIDE DEF n, I
    <3> QED BY <1>7, <2>1
  <2> QED BY <2>2
<1> QED BY <1>2, <1>8

\* A finite page that is not empty has a last review.
LEMMA LastExists ==
  ASSUME TypeOK, NEW P \in SUBSET Reviews, IsFiniteSet(P), P # {}
  PROVE  /\ Last(P) \in P
         /\ \A x \in P : x = Last(P) \/ Newer(x, Last(P))
<1>1. Cardinality(P) \in Nat /\ Cardinality(P) # 0
  BY FS_CardinalityType, FS_EmptySet
<1>2. Cardinality(P) - 1 \in Nat /\ Cardinality(P) - 1 < Cardinality(P)
  BY <1>1
<1>3. PICK l \in P : Rank(l, P) = Cardinality(P) - 1
  BY <1>2, RankOnto
<1>4. ASSUME NEW x \in P, x # l PROVE Newer(x, l)
  <2>1. ASSUME Newer(l, x) PROVE FALSE
    <3>1. Rank(l, P) < Rank(x, P)
      BY <2>1, RankStrict
    <3>2. Rank(x, P) < Cardinality(P) /\ Rank(x, P) \in Nat
      BY RankOnto, RankType
    <3> QED BY <1>1, <1>3, <3>1, <3>2
  <2> QED BY <1>4, <2>1, NewerTotal
<1>5. \E r \in P : \A x \in P : x = r \/ Newer(x, r)
  BY <1>4
<1> QED BY <1>5 DEF Last

-----------------------------------------------------------------------------
(* Type correctness, with the shape of a run at each of its places.        *)

RunShape(p) ==
  /\ startedAt[p] <= now
  /\ watermark[p] # Never => watermark[p] <= startedAt[p]
  /\ cursor[p].last \in listed \cup {Never}
  /\ pc[p] \in {"idle", "started"} =>
       cursor[p] = Start /\ rows[p] = {} /\ watermark[p] = Never
  /\ pc[p] = "saving" => cursor[p] = End /\ rows[p] = {}

BaseInv == TypeOK /\ IsFiniteSet(listed) /\ \A p \in Runs : RunShape(p)

LEMMA BaseInit == Init => BaseInv
<1> SUFFICES ASSUME Init PROVE BaseInv
  OBVIOUS
<1>1. TypeOK
  <2>1. 0 \in Times /\ 0 \in Dates /\ 0 \in 0 .. MaxAnswers /\ 0 \in 0 .. MaxFaults
    BY SyncAssumption DEF Times, Dates
  <2>2. cursor \in [Runs -> [stage : {"unanswered", "answered", "end"},
                             skip : Nat, last : Reviews \cup {Never}]]
    BY DEF Init, Start
  <2>3. /\ created \in [Reviews -> Dates] /\ startedAt \in [Runs -> Times]
        /\ since \in [Runs -> Times]
    BY <2>1 DEF Init
  <2>4. pc \in [Runs -> {"idle", "started", "paging", "saving"}]
    BY DEF Init
  <2>5. /\ rows \in [Runs -> SUBSET listed] /\ fresh \in [Runs -> BOOLEAN]
        /\ watermark \in [Runs -> Times \cup {Never}]
    BY DEF Init
  <2> QED BY <2>1, <2>2, <2>3, <2>4, <2>5 DEF Init, TypeOK
<1>2. IsFiniteSet(listed)
  BY FS_EmptySet DEF Init
<1>3. ASSUME NEW p \in Runs PROVE RunShape(p)
  BY <1>3 DEF Init, RunShape, Start
<1> QED BY <1>1, <1>2, <1>3 DEF BaseInv

LEMMA MarketBase ==
  ASSUME BaseInv, Tick \/ \E r \in Reviews : ListReview(r) \/ AnswerReview(r)
  PROVE  BaseInv'
<1> USE DEF BaseInv
<1>1. CASE Tick
  <2>1. TypeOK'
    BY <1>1, SyncAssumption DEF Tick, TypeOK, Times, saved, run
  <2>2. \A p \in Runs : RunShape(p)'
    BY <1>1, SyncAssumption DEF Tick, TypeOK, Times, saved, run, RunShape
  <2> QED BY <1>1, <2>1, <2>2 DEF Tick
<1>2. ASSUME NEW r \in Reviews, ListReview(r) PROVE BaseInv'
  <2>1. TypeOK'
    BY <1>2, SyncAssumption DEF ListReview, TypeOK, Times, Dates, saved, run
  <2>2. IsFiniteSet(listed')
    BY <1>2, FS_AddElement DEF ListReview
  <2>3. \A p \in Runs : RunShape(p)'
    BY <1>2 DEF ListReview, saved, run, RunShape
  <2> QED BY <2>1, <2>2, <2>3
<1>3. ASSUME NEW r \in Reviews, AnswerReview(r) PROVE BaseInv'
  <2>1. TypeOK'
    BY <1>3, SyncAssumption DEF AnswerReview, TypeOK, saved, run
  <2>2. \A p \in Runs : RunShape(p)'
    BY <1>3 DEF AnswerReview, saved, run, RunShape
  <2> QED BY <1>3, <2>1, <2>2 DEF AnswerReview
<1> QED BY <1>1, <1>2, <1>3

\* The lists a run pages through are finite lists of listed reviews.
LEMMA Lists ==
  ASSUME BaseInv, NEW p \in Runs
  PROVE  /\ Window(p) \subseteq listed /\ Remaining(p) \subseteq listed
         /\ listed \subseteq Reviews
         /\ IsFiniteSet(Window(p)) /\ IsFiniteSet(Remaining(p))
<1>1. Window(p) \in SUBSET listed /\ Remaining(p) \in SUBSET listed
  BY DEF Window, Remaining
<1>2. IsFiniteSet(Window(p)) /\ IsFiniteSet(Remaining(p))
  BY <1>1, FS_Subset DEF BaseInv
<1> QED BY <1>1, <1>2, Orders DEF BaseInv

\* Unless the list ends with it, a page has a last review, and every review
\* after the page comes after that one.
LEMMA TokenPageLast ==
  ASSUME BaseInv, NEW p \in Runs, TokenPage(p) # Remaining(p)
  PROVE  /\ Last(TokenPage(p)) \in TokenPage(p)
         /\ \A x \in TokenPage(p), y \in Remaining(p) \ TokenPage(p) : Newer(x, y)
<1> DEFINE R == Remaining(p)
           P == TokenPage(p)
<1>1. /\ P \in SUBSET R /\ R \in SUBSET Reviews /\ IsFiniteSet(R)
      /\ P \in SUBSET Reviews
  BY Lists DEF TokenPage
<1>2. R # {}
  BY <1>1
<1>3. Cardinality(R) \in Nat /\ 0 < Cardinality(R)
  BY <1>1, <1>2, FS_CardinalityType, FS_EmptySet
<1>4. PICK z \in R : Rank(z, R) = 0
  BY <1>1, <1>3, RankOnto DEF BaseInv
<1>5. z \in P
  BY <1>4, SyncAssumption DEF TokenPage
<1>6. IsFiniteSet(P)
  BY <1>1, FS_Subset
<1>7. Last(P) \in P
  BY <1>1, <1>5, <1>6, LastExists DEF BaseInv
<1>8. ASSUME NEW x \in P, NEW y \in R \ P PROVE Newer(x, y)
  <2>1. Rank(x, R) < PageSize /\ ~(Rank(y, R) < PageSize)
    BY DEF TokenPage
  <2>2. Rank(x, R) \in Nat /\ Rank(y, R) \in Nat
    BY <1>1, RankType
  <2>3. Rank(x, R) < Rank(y, R)
    BY <2>1, <2>2, SyncAssumption
  <2> QED BY <1>1, <2>3, RankOrders DEF BaseInv
<1> QED BY <1>7, <1>8

\* What fetching a page does to the cursor.
LEMMA AfterPage ==
  ASSUME BaseInv, NEW p \in Runs
  PROVE  /\ AfterOffset(p) \in [stage : {"unanswered", "answered", "end"},
                                skip : Nat, last : Reviews \cup {Never}]
         /\ AfterToken(p) \in [stage : {"unanswered", "answered", "end"},
                               skip : Nat, last : Reviews \cup {Never}]
         /\ AfterOffset(p).last \in listed \cup {Never}
         /\ AfterToken(p).last \in listed \cup {Never}
<1> DEFINE Cursors == [stage : {"unanswered", "answered", "end"},
                       skip : Nat, last : Reviews \cup {Never}]
<1>1. cursor[p] \in Cursors /\ cursor[p].last \in listed \cup {Never}
  BY DEF BaseInv, TypeOK, RunShape
<1>2. End \in Cursors /\ End.last = Never
  BY DEF End
<1>3. /\ [Start EXCEPT !.stage = "answered"] \in Cursors
      /\ [Start EXCEPT !.stage = "answered"].last = Never
  BY DEF Start
<1>4. /\ [cursor[p] EXCEPT !.skip = @ + PageSize] \in Cursors
      /\ [cursor[p] EXCEPT !.skip = @ + PageSize].last = cursor[p].last
  BY <1>1, SyncAssumption
<1>5. AfterOffset(p) \in Cursors /\ AfterOffset(p).last \in listed \cup {Never}
  BY <1>1, <1>2, <1>3, <1>4 DEF AfterOffset
<1>6. ASSUME TokenPage(p) # Remaining(p)
      PROVE  /\ [cursor[p] EXCEPT !.last = Last(TokenPage(p))] \in Cursors
             /\ [cursor[p] EXCEPT !.last = Last(TokenPage(p))].last \in listed
  <2>1. Last(TokenPage(p)) \in listed /\ listed \subseteq Reviews
    BY <1>6, TokenPageLast, Lists DEF TokenPage
  <2> QED BY <1>1, <2>1
<1>7. AfterToken(p) \in Cursors /\ AfterToken(p).last \in listed \cup {Never}
  <2>1. CASE TokenPage(p) = Remaining(p)
    BY <1>2, <2>1 DEF AfterToken
  <2>2. CASE TokenPage(p) # Remaining(p)
    BY <1>2, <1>6, <2>2 DEF AfterToken
  <2> QED BY <2>1, <2>2
<1> QED BY <1>5, <1>7

\* A new watermark is no later than the start of the run.
LEMMA WatermarkBound ==
  ASSUME NEW w \in Times \cup {Never}, NEW d \in Dates, NEW b \in Times,
         w # Never => w <= b
  PROVE  MaxReviewTime(w, d, b) \in Times /\ MaxReviewTime(w, d, b) <= b
BY SyncAssumption DEF MaxReviewTime, Times, Dates, Later, Earlier

\* A run that ends leaves its process as it was before.
LEMMA FreeType ==
  ASSUME BaseInv, NEW p \in Runs, Free(p), UNCHANGED listed
  PROVE  /\ pc' \in [Runs -> {"idle", "started", "paging", "saving"}]
         /\ startedAt' \in [Runs -> Times] /\ since' \in [Runs -> Times]
         /\ cursor' \in [Runs -> [stage : {"unanswered", "answered", "end"},
                                  skip : Nat, last : Reviews \cup {Never}]]
         /\ rows' \in [Runs -> SUBSET listed']
         /\ watermark' \in [Runs -> Times \cup {Never}]
         /\ fresh' \in [Runs -> BOOLEAN]
<1>1. 0 \in Times /\ {} \in SUBSET listed
  BY SyncAssumption DEF Times
<1>2. Start \in [stage : {"unanswered", "answered", "end"},
                 skip : Nat, last : Reviews \cup {Never}]
  BY DEF Start
<1> QED BY <1>1, <1>2 DEF Free, BaseInv, TypeOK

LEMMA FreeShape ==
  ASSUME BaseInv, NEW p \in Runs, Free(p), UNCHANGED <<now, listed>>
  PROVE  \A q \in Runs : RunShape(q)'
<1> SUFFICES ASSUME NEW q \in Runs PROVE RunShape(q)'
  OBVIOUS
<1>1. RunShape(q) /\ now \in Nat
  BY SyncAssumption DEF BaseInv, TypeOK, Times
<1>2. CASE q = p
  BY <1>1, <1>2 DEF Free, BaseInv, TypeOK, RunShape, Start
<1>3. CASE q # p
  BY <1>1, <1>3 DEF Free, BaseInv, TypeOK, RunShape
<1> QED BY <1>2, <1>3

LEMMA StepBase ==
  ASSUME BaseInv, NEW p \in Runs, RunStep(p)
  PROVE  BaseInv'
<1> USE DEF BaseInv
<1>1. CASE TryAcquire(p)
  <2>1. TypeOK'
    BY <1>1 DEF TryAcquire, TypeOK, market, saved
  <2>2. ASSUME NEW q \in Runs PROVE RunShape(q)'
    <3>1. now \in Nat /\ RunShape(q)
      BY SyncAssumption DEF TypeOK, Times
    <3> QED BY <1>1, <2>2, <3>1 DEF TryAcquire, TypeOK, market, saved, RunShape
  <2> QED BY <1>1, <2>1, <2>2 DEF TryAcquire, market
<1>2. CASE GetSyncState(p)
  <2>1. WindowStart \in Times
    <3>1. 0 \in Times /\ Overlap \in Nat /\ MaxTime \in Nat
      BY SyncAssumption DEF Times
    <3>2. ASSUME NEW t \in Times PROVE t - Earlier(Overlap, t) \in Times
      BY <3>1, <3>2 DEF Earlier, Times
    <3>3. CASE lastSynced = Never
      BY <3>1, <3>3 DEF WindowStart
    <3>4. CASE lastSynced # Never
      <4>1. lastSynced \in Times
        BY <3>4 DEF TypeOK
      <4> QED BY <3>2, <3>4, <4>1, Zenon DEF WindowStart
    <3> QED BY <3>3, <3>4
  <2>2. TypeOK'
    BY <1>2, <2>1 DEF GetSyncState, TypeOK, market, saved
  <2>3. ASSUME NEW q \in Runs PROVE RunShape(q)'
    BY <1>2, <2>3 DEF GetSyncState, TypeOK, market, saved, RunShape
  <2> QED BY <1>2, <2>2, <2>3 DEF GetSyncState, market
<1>3. CASE FetchReviews(p)
  <2>1. /\ OffsetPage(p) \in SUBSET listed
        /\ {r \in TokenPage(p) : created[r] >= since[p]} \in SUBSET listed
    BY Lists DEF OffsetPage, TokenPage
  <2>2. PICK c \in [stage : {"unanswered", "answered", "end"},
                    skip : Nat, last : Reviews \cup {Never}], R \in SUBSET listed :
          /\ cursor' = [cursor EXCEPT ![p] = c] /\ c.last \in listed \cup {Never}
          /\ rows' = [rows EXCEPT ![p] = R]
    BY <1>3, <2>1, AfterPage DEF FetchReviews
  <2>3. TypeOK'
    BY <1>3, <2>2 DEF FetchReviews, TypeOK, market, saved
  <2>4. ASSUME NEW q \in Runs PROVE RunShape(q)'
    BY <1>3, <2>2, <2>4 DEF FetchReviews, TypeOK, market, saved, RunShape
  <2> QED BY <1>3, <2>3, <2>4 DEF FetchReviews, market
<1>4. CASE ImportOne(p)
  <2>1. PICK r \in rows[p] :
          /\ stored' = stored \cup {r}
          /\ unmarked' = (unmarked \/ r \notin stored)
          /\ fresh' = [fresh EXCEPT ![p] = @ \/ r \notin stored]
          /\ watermark' = [watermark EXCEPT ![p] =
                             MaxReviewTime(@, created[r], startedAt[p])]
          /\ rows' = [rows EXCEPT ![p] = @ \ {r}]
    BY <1>4 DEF ImportOne
  <2>2. r \in listed /\ created[r] \in Dates
    BY Orders DEF TypeOK
  <2>3. PICK w \in Times :
          watermark' = [watermark EXCEPT ![p] = w] /\ w <= startedAt[p]
    BY <2>1, <2>2, WatermarkBound DEF TypeOK, RunShape
  <2>4. fresh' \in [Runs -> BOOLEAN] /\ unmarked' \in BOOLEAN
    BY <2>1 DEF TypeOK
  <2>5. TypeOK'
    BY <1>4, <2>1, <2>2, <2>3, <2>4 DEF ImportOne, TypeOK, market
  <2>6. ASSUME NEW q \in Runs PROVE RunShape(q)'
    BY <1>4, <2>1, <2>3, <2>6 DEF ImportOne, TypeOK, market, RunShape
  <2> QED BY <1>4, <2>5, <2>6 DEF ImportOne, market
<1>5. CASE MarkExportDirty(p)
  <2>1. TypeOK'
    <3>1. unmarked' \in BOOLEAN
      BY <1>5, Zenon DEF MarkExportDirty, TypeOK
    <3>2. faults' \in 0 .. MaxFaults
      BY <1>5, SyncAssumption DEF MarkExportDirty, Lose, TypeOK
    <3> QED BY <1>5, <3>1, <3>2 DEF MarkExportDirty, TypeOK, market
  <2>2. ASSUME NEW q \in Runs PROVE RunShape(q)'
    BY <1>5, <2>2 DEF MarkExportDirty, TypeOK, market, RunShape
  <2> QED BY <1>5, <2>1, <2>2 DEF MarkExportDirty, market
<1>6. CASE SaveSyncState(p)
  <2>1. lastSynced' \in Times /\ lastSynced' <= now
    BY <1>6, SyncAssumption DEF SaveSyncState, TypeOK, RunShape, Times
  <2>2. TypeOK'
    BY <1>6, <2>1, FreeType DEF SaveSyncState, TypeOK, market
  <2>3. \A q \in Runs : RunShape(q)'
    BY <1>6, FreeShape DEF SaveSyncState, market
  <2> QED BY <1>6, <2>2, <2>3 DEF SaveSyncState, market
<1> QED BY <1>1, <1>2, <1>3, <1>4, <1>5, <1>6 DEF RunStep

LEMMA FailBase ==
  ASSUME BaseInv, NEW p \in Runs, RunFails(p)
  PROVE  BaseInv'
<1> USE DEF BaseInv
<1>1. faults' \in 0 .. MaxFaults
  BY SyncAssumption DEF RunFails, Lose, TypeOK
<1>2. TypeOK'
  BY <1>1, FreeType DEF RunFails, TypeOK, market, saved
<1>3. \A q \in Runs : RunShape(q)'
  BY FreeShape DEF RunFails, market
<1> QED BY <1>2, <1>3 DEF RunFails, market

LEMMA BaseStep == BaseInv /\ [Next]_vars => BaseInv'
<1> SUFFICES ASSUME BaseInv, [Next]_vars PROVE BaseInv'
  OBVIOUS
<1>1. CASE Next
  BY <1>1, MarketBase, StepBase, FailBase DEF Next
<1>2. CASE UNCHANGED vars
  BY <1>2 DEF vars, market, saved, run, BaseInv, TypeOK, RunShape
<1> QED BY <1>1, <1>2

-----------------------------------------------------------------------------
(* Windows.  A review that is not in the store was dated close to the      *)
(* start of every run in work (Late), or is on its page in hand, or is in  *)
(* its window and still to come (Due).                                     *)

Late(p, r) == created[r] + Overlap >= startedAt[p]

Due(p, r) ==
  IF kind = "wb"
  THEN \/ cursor[p].stage = "unanswered" /\ r \in answered
       \/ /\ cursor[p].stage = IF r \in answered THEN "answered" ELSE "unanswered"
          /\ Rank(r, Window(p)) >= cursor[p].skip
  ELSE cursor[p].stage # "end" /\ r \in Remaining(p)

Reached(p, r) ==
  Late(p, r) \/ (created[r] >= since[p] /\ (r \in rows[p] \/ Due(p, r)))

RunCovers(p) ==
  pc[p] \in {"paging", "saving"} => \A r \in listed \ stored : Reached(p, r)

\* No list of offsets has shifted.
Quiet == kind # "wb" \/ ~shifted

WindowInv ==
  Quiet => /\ \A r \in listed \ stored : InNextWindow(r)
           /\ \A p \in Runs : RunCovers(p)

WindowIInv == BaseInv /\ WindowInv

LEMMA OverlapBefore ==
  ASSUME NEW t \in Nat, NEW d \in Nat
  PROVE  d >= t - Earlier(Overlap, t) <=> d + Overlap >= t
BY SyncAssumption DEF Earlier

\* What the next window holds, before and after a step.
LEMMA NextWindow ==
  ASSUME TypeOK, NEW r \in Reviews
  PROVE  InNextWindow(r) <=> lastSynced = Never \/ created[r] + Overlap >= lastSynced
<1>1. created[r] \in Nat
  BY Orders
<1>2. CASE lastSynced = Never
  BY <1>1, <1>2 DEF InNextWindow, WindowStart
<1>3. CASE lastSynced # Never
  <2>1. lastSynced \in Nat
    BY <1>3 DEF TypeOK, Times
  <2> QED BY <1>1, <1>3, <2>1, OverlapBefore DEF InNextWindow, WindowStart
<1> QED BY <1>2, <1>3

LEMMA NextWindowAfter ==
  ASSUME TypeOK', NEW r \in Reviews
  PROVE  InNextWindow(r)' <=> lastSynced' = Never \/ created'[r] + Overlap >= lastSynced'
<1>1. created'[r] \in Nat
  BY SyncAssumption DEF TypeOK, Dates
<1>2. CASE lastSynced' = Never
  BY <1>1, <1>2 DEF InNextWindow, WindowStart
<1>3. CASE lastSynced' # Never
  <2>1. lastSynced' \in Nat
    BY <1>3 DEF TypeOK, Times
  <2> QED BY <1>1, <1>3, <2>1, OverlapBefore DEF InNextWindow, WindowStart
<1> QED BY <1>2, <1>3

\* A review still to come is still to come when others are listed.
LEMMA StillDue ==
  ASSUME BaseInv, BaseInv', NEW p \in Runs, NEW r \in listed, Due(p, r),
         UNCHANGED <<kind, answered>>,
         cursor'[p] = cursor[p], since'[p] = since[p],
         listed \subseteq listed', \A x \in listed : created'[x] = created[x]
  PROVE  Due(p, r)'
<1>1. ASSUME NEW x \in listed, NEW y \in listed PROVE Newer(x, y)' <=> Newer(x, y)
  BY DEF Newer
<1>2. CASE kind = "wb"
  <2>1. Window(p) \subseteq Window(p)'
    BY DEF Window
  <2> DEFINE A == {x \in Window(p) : Newer(x, r)}
             B == {x \in Window(p)' : Newer(x, r)'}
  <2>2. A \in SUBSET B
    BY <1>1, <2>1, Lists
  <2>3. B \in SUBSET listed'
    BY DEF Window
  <2>4. IsFiniteSet(B) /\ IsFiniteSet(A) /\ Cardinality(A) <= Cardinality(B)
    BY <2>2, <2>3, FS_Subset DEF BaseInv
  <2>5. Cardinality(A) \in Nat /\ Cardinality(B) \in Nat /\ cursor[p].skip \in Nat
    BY <2>4, FS_CardinalityType DEF BaseInv, TypeOK
  <2>6. Rank(r, Window(p)) >= cursor[p].skip => Rank(r, Window(p))' >= cursor[p].skip
    BY <2>4, <2>5 DEF Rank
  <2>7. r \in answered <=> r \in answered'
    OBVIOUS
  <2> QED BY <1>2, <2>6, <2>7 DEF Due
<1>3. CASE kind # "wb"
  <2>1. cursor[p].last \in listed \cup {Never}
    BY DEF BaseInv, RunShape
  <2>2. r \in Remaining(p) => r \in Remaining(p)'
    BY <1>1, <2>1 DEF Remaining
  <2> QED BY <1>3, <2>2 DEF Due
<1> QED BY <1>2, <1>3

LEMMA PageOfNumbers ==
  ASSUME NEW a \in Nat, NEW m \in Nat \ {0}
  PROVE  Cardinality(a .. a + m - 1) = m
<1>1. PICK b \in Int : b = a + m - 1
  OBVIOUS
<1>2. Cardinality(a .. b) = IF a > b THEN 0 ELSE b - a + 1
  BY FS_Interval
<1> QED BY <1>1, <1>2

\* A page of offsets that is not full is the end of its list.
LEMMA OffsetPageFull ==
  ASSUME BaseInv, NEW p \in Runs, NEW r \in Window(p),
         Rank(r, Window(p)) >= cursor[p].skip + PageSize
  PROVE  Cardinality(OffsetPage(p)) >= PageSize
<1> DEFINE W == Window(p)
           k == cursor[p].skip
           N == k .. k + PageSize - 1
           f == [x \in OffsetPage(p) |-> Rank(x, W)]
<1>1. W \in SUBSET Reviews /\ IsFiniteSet(W) /\ TypeOK
  BY Lists DEF BaseInv
<1>2. k \in Nat /\ PageSize \in Nat \ {0}
  BY SyncAssumption DEF BaseInv, TypeOK
<1>3. \A x \in W : Rank(x, W) \in Nat
  BY <1>1, RankType
<1>4. OffsetPage(p) \in SUBSET W /\ IsFiniteSet(OffsetPage(p))
  BY <1>1, FS_Subset DEF OffsetPage
<1>5. Cardinality(W) \in Nat /\ Rank(r, W) < Cardinality(W)
  BY <1>1, FS_CardinalityType, RankOnto
<1>6. ASSUME NEW n \in N PROVE \E x \in OffsetPage(p) : f[x] = n
  <2>1. n \in Nat /\ n < Cardinality(W)
    <3>1. Rank(r, W) \in Nat /\ Rank(r, W) >= k + PageSize
      BY <1>3
    <3> HIDE DEF k
    <3> QED BY <1>2, <1>5, <1>6, <3>1
  <2>2. PICK x \in W : Rank(x, W) = n
    BY <1>1, <2>1, RankOnto
  <2>3. x \in OffsetPage(p)
    BY <1>6, <2>2 DEF OffsetPage
  <2> QED BY <2>2, <2>3
<1>7. f \in Surjection(OffsetPage(p), N)
  <2>1. f \in [OffsetPage(p) -> N]
    BY DEF OffsetPage
  <2> QED BY <1>6, <2>1 DEF Surjection
<1>8. Cardinality(N) <= Cardinality(OffsetPage(p))
  BY <1>4, <1>7, FS_Surjection
<1>9. Cardinality(N) = PageSize
  BY <1>2, PageOfNumbers
<1>10. Cardinality(OffsetPage(p)) \in Nat
  BY <1>4, FS_CardinalityType
<1> QED BY <1>2, <1>8, <1>9, <1>10

\* A run that does not move keeps what it reaches.
LEMMA StillReached ==
  ASSUME BaseInv, BaseInv', NEW p \in Runs, NEW r \in listed, Reached(p, r),
         UNCHANGED <<kind, answered>>, startedAt'[p] = startedAt[p],
         cursor'[p] = cursor[p], since'[p] = since[p], rows'[p] = rows[p],
         listed \subseteq listed', \A x \in listed : created'[x] = created[x]
  PROVE  Reached(p, r)'
<1>1. Due(p, r) => Due(p, r)'
  BY StillDue
<1> QED BY <1>1 DEF Reached, Late

\* A step that moves no run and stores, lists and answers nothing.
LEMMA StillWindow ==
  ASSUME BaseInv, BaseInv', WindowInv,
         UNCHANGED <<kind, created, listed, answered, shifted, lastSynced>>,
         stored \subseteq stored',
         NEW p \in Runs,
         \A q \in Runs \ {p} :
           /\ pc'[q] = pc[q] /\ startedAt'[q] = startedAt[q]
           /\ cursor'[q] = cursor[q] /\ since'[q] = since[q] /\ rows'[q] = rows[q],
         Quiet => RunCovers(p)'
  PROVE  WindowInv'
<1> SUFFICES ASSUME Quiet
             PROVE  /\ \A r \in listed' \ stored' : InNextWindow(r)'
                    /\ \A q \in Runs : RunCovers(q)'
  BY DEF WindowInv, Quiet
<1>1. ASSUME NEW r \in listed' \ stored' PROVE InNextWindow(r)'
  <2>1. r \in listed \ stored /\ r \in Reviews /\ TypeOK /\ TypeOK'
    BY Orders DEF BaseInv
  <2>2. InNextWindow(r)
    BY <2>1 DEF WindowInv
  <2> QED BY <2>1, <2>2, NextWindow, NextWindowAfter
<1>2. ASSUME NEW q \in Runs PROVE RunCovers(q)'
  <2>1. CASE q = p
    BY <2>1
  <2>2. CASE q # p
    <3> SUFFICES ASSUME pc'[q] \in {"paging", "saving"}, NEW r \in listed' \ stored'
                 PROVE  Reached(q, r)'
      BY DEF RunCovers
    <3>1. r \in listed \ stored /\ pc[q] \in {"paging", "saving"}
      BY <2>2
    <3>2. Reached(q, r)
      BY <3>1 DEF WindowInv, RunCovers
    <3> QED BY <2>2, <3>1, <3>2, StillReached
  <2> QED BY <2>1, <2>2
<1> QED BY <1>1, <1>2

LEMMA WindowInit == Init => WindowInv
BY DEF Init, WindowInv, RunCovers

-----------------------------------------------------------------------------
(* The marketplace's steps.                                                *)

LEMMA TickWindow ==
  ASSUME WindowIInv, BaseInv', Tick
  PROVE  WindowInv'
<1> SUFFICES ASSUME Quiet
             PROVE  /\ \A r \in listed' \ stored' : InNextWindow(r)'
                    /\ \A q \in Runs : RunCovers(q)'
  BY DEF WindowInv, Quiet, Tick
<1>1. UNCHANGED <<kind, created, listed, answered, stored, lastSynced, pc,
                  startedAt, since, cursor, rows>>
  BY DEF Tick, saved, run
<1>2. ASSUME NEW r \in listed' \ stored' PROVE InNextWindow(r)'
  <2>1. r \in listed \ stored /\ r \in Reviews /\ TypeOK /\ TypeOK'
    BY <1>1, Orders DEF WindowIInv, BaseInv
  <2> QED BY <1>1, <2>1, NextWindow, NextWindowAfter DEF WindowIInv, WindowInv
<1>3. ASSUME NEW q \in Runs, pc'[q] \in {"paging", "saving"}, NEW r \in listed' \ stored'
      PROVE  Reached(q, r)'
  <2>1. Reached(q, r)
    BY <1>1, <1>3 DEF WindowIInv, WindowInv, RunCovers
  <2> QED BY <1>1, <2>1, StillReached DEF WindowIInv
<1> QED BY <1>2, <1>3 DEF RunCovers

\* A review is dated at most Delay before it is listed: no later than any
\* start of a run or watermark there is, give or take the overlap.
LEMMA ListWindow ==
  ASSUME WindowIInv, BaseInv', NEW n \in Reviews, ListReview(n)
  PROVE  WindowInv'
<1> SUFFICES ASSUME Quiet
             PROVE  /\ \A r \in listed' \ stored' : InNextWindow(r)'
                    /\ \A q \in Runs : RunCovers(q)'
  BY DEF WindowInv, Quiet, ListReview
<1>1. /\ UNCHANGED <<kind, answered, stored, lastSynced, pc, startedAt, since,
                     cursor, rows, now>>
      /\ n \notin listed /\ listed' = listed \cup {n}
  BY DEF ListReview, saved, run
<1>2. /\ created'[n] \in Nat /\ now <= created'[n] + Delay
      /\ \A x \in listed : created'[x] = created[x]
  BY <1>1, Orders, SyncAssumption DEF ListReview, WindowIInv, BaseInv, TypeOK, Dates
<1>3. ASSUME NEW t \in Nat, t <= now PROVE created'[n] + Overlap >= t
  BY <1>2, <1>3, SyncAssumption DEF WindowIInv, BaseInv, TypeOK, Times
<1>4. ASSUME NEW r \in listed' \ stored' PROVE InNextWindow(r)'
  <2>1. r \in Reviews /\ TypeOK /\ TypeOK'
    BY <1>1, Orders DEF WindowIInv, BaseInv
  <2>2. CASE r = n
    <3>1. lastSynced # Never => lastSynced \in Nat /\ lastSynced <= now
      BY <2>1 DEF TypeOK, Times
    <3> QED BY <1>1, <1>3, <2>1, <2>2, <3>1, NextWindowAfter
  <2>3. CASE r # n
    <3>1. r \in listed \ stored
      BY <1>1, <2>3
    <3>2. InNextWindow(r)
      BY <3>1 DEF WindowIInv, WindowInv
    <3> QED BY <1>1, <1>2, <2>1, <3>1, <3>2, NextWindow, NextWindowAfter
  <2> QED BY <2>2, <2>3
<1>5. ASSUME NEW q \in Runs, pc'[q] \in {"paging", "saving"}, NEW r \in listed' \ stored'
      PROVE  Reached(q, r)'
  <2>1. CASE r = n
    <3>1. startedAt[q] \in Nat /\ startedAt[q] <= now
      BY DEF WindowIInv, BaseInv, TypeOK, Times, RunShape
    <3> QED BY <1>1, <1>3, <2>1, <3>1 DEF Reached, Late
  <2>2. CASE r # n
    <3>1. r \in listed \ stored
      BY <1>1, <2>2
    <3>2. Reached(q, r)
      BY <1>1, <1>5, <3>1 DEF WindowIInv, WindowInv, RunCovers
    <3> QED BY <1>1, <1>2, <3>1, <3>2, StillReached DEF WindowIInv
  <2> QED BY <2>1, <2>2
<1> QED BY <1>4, <1>5 DEF RunCovers

\* While a run pages through WB's lists, a quiet answer comes before its first
\* page; the other adapters do not look at answers.
LEMMA AnswerWindow ==
  ASSUME WindowIInv, BaseInv', NEW n \in Reviews, AnswerReview(n)
  PROVE  WindowInv'
<1> SUFFICES ASSUME Quiet'
             PROVE  /\ \A r \in listed' \ stored' : InNextWindow(r)'
                    /\ \A q \in Runs : RunCovers(q)'
  BY DEF WindowInv
<1>1. /\ UNCHANGED <<kind, created, listed, stored, lastSynced, pc, startedAt,
                     since, cursor, rows>>
      /\ shifted' = (shifted \/ \E p \in Runs : pc[p] = "paging" /\ cursor[p] # Start)
  BY DEF AnswerReview, saved, run
<1>2. Quiet
  BY <1>1 DEF Quiet
<1>3. ASSUME NEW r \in listed' \ stored' PROVE InNextWindow(r)'
  <2>1. r \in listed \ stored /\ r \in Reviews /\ TypeOK /\ TypeOK'
    BY <1>1, Orders DEF WindowIInv, BaseInv
  <2> QED BY <1>1, <1>2, <2>1, NextWindow, NextWindowAfter DEF WindowIInv, WindowInv
<1>4. ASSUME NEW q \in Runs, pc'[q] \in {"paging", "saving"}, NEW r \in listed' \ stored'
      PROVE  Reached(q, r)'
  <2>1. Reached(q, r)
    BY <1>1, <1>2, <1>4 DEF WindowIInv, WindowInv, RunCovers
  <2>2. CASE kind # "wb"
    <3>1. Due(q, r) => Due(q, r)'
      BY <1>1, <2>2 DEF Due, Remaining, Newer
    <3> QED BY <1>1, <2>1, <3>1 DEF Reached, Late
  <2>3. CASE kind = "wb" /\ pc[q] = "paging"
    <3>1. cursor[q] = Start
      BY <1>1, <2>3 DEF Quiet
    <3>2. Rank(r, Window(q))' \in Nat
      <4>1. IsFiniteSet(Window(q)')
        <5>1. Window(q)' \in SUBSET listed'
          BY DEF Window
        <5> QED BY <5>1, FS_Subset DEF BaseInv
      <4>2. {x \in Window(q)' : Newer(x, r)'} \in SUBSET (Window(q)')
        OBVIOUS
      <4>3. Cardinality({x \in Window(q)' : Newer(x, r)'}) \in Nat
        BY <4>1, <4>2, FS_Subset, FS_CardinalityType
      <4> QED BY <4>3 DEF Rank
    <3>3. Due(q, r)'
      BY <1>1, <2>3, <3>1, <3>2 DEF Due, Start
    <3> QED BY <1>1, <2>1, <3>3 DEF Reached, Late
  <2>4. CASE kind = "wb" /\ pc[q] = "saving"
    <3>1. rows[q] = {} /\ cursor[q] = End
      BY <2>4 DEF WindowIInv, BaseInv, RunShape
    <3>2. ~Due(q, r)
      BY <2>4, <3>1 DEF Due, End
    <3> QED BY <1>1, <2>1, <3>1, <3>2 DEF Reached, Late
  <2> QED BY <1>1, <1>4, <2>2, <2>3, <2>4
<1> QED BY <1>3, <1>4 DEF RunCovers

-----------------------------------------------------------------------------
(* A run's steps.                                                          *)

LEMMA AcquireWindow ==
  ASSUME WindowIInv, BaseInv', NEW p \in Runs, TryAcquire(p)
  PROVE  WindowInv'
<1>1. RunCovers(p)'
  BY DEF TryAcquire, WindowIInv, BaseInv, TypeOK, RunCovers
<1>2. /\ UNCHANGED <<kind, created, listed, answered, shifted, lastSynced, stored>>
      /\ \A q \in Runs \ {p} :
           /\ pc'[q] = pc[q] /\ startedAt'[q] = startedAt[q]
           /\ cursor'[q] = cursor[q] /\ since'[q] = since[q] /\ rows'[q] = rows[q]
  BY DEF TryAcquire, market, saved, WindowIInv, BaseInv, TypeOK
<1> QED BY <1>1, <1>2, StillWindow DEF WindowIInv

\* A run begins with every missing review in its window, and its first page
\* still to come.
LEMMA StartWindow ==
  ASSUME WindowIInv, BaseInv', NEW p \in Runs, GetSyncState(p)
  PROVE  WindowInv'
<1>1. /\ UNCHANGED <<kind, created, listed, answered, shifted, lastSynced, stored>>
      /\ \A q \in Runs \ {p} :
           /\ pc'[q] = pc[q] /\ startedAt'[q] = startedAt[q]
           /\ cursor'[q] = cursor[q] /\ since'[q] = since[q] /\ rows'[q] = rows[q]
      /\ since'[p] = WindowStart /\ cursor'[p] = Start /\ rows'[p] = {}
  BY DEF GetSyncState, market, saved, WindowIInv, BaseInv, TypeOK, RunShape
<1>2. ASSUME Quiet, NEW r \in listed' \ stored' PROVE Reached(p, r)'
  <2>1. created'[r] >= since'[p] /\ r \in listed
    BY <1>1, <1>2 DEF WindowIInv, WindowInv, InNextWindow
  <2>2. Rank(r, Window(p))' \in Nat
    <3>1. Window(p)' \in SUBSET listed' /\ IsFiniteSet(listed')
      BY DEF Window, BaseInv
    <3>2. {x \in Window(p)' : Newer(x, r)'} \in SUBSET listed'
      BY <3>1
    <3>3. Cardinality({x \in Window(p)' : Newer(x, r)'}) \in Nat
      BY <3>1, <3>2, FS_Subset, FS_CardinalityType
    <3> QED BY <3>3 DEF Rank
  <2>3. Due(p, r)'
    BY <1>1, <2>1, <2>2 DEF Due, Start, Remaining
  <2> QED BY <2>1, <2>3 DEF Reached
<1>3. Quiet => RunCovers(p)'
  BY <1>2 DEF RunCovers
<1> QED BY <1>1, <1>3, StillWindow DEF WindowIInv

\* Every review still to come is on the page or comes after it.
LEMMA FetchOffsets ==
  ASSUME WindowIInv, BaseInv', NEW p \in Runs, FetchReviews(p), kind = "wb",
         NEW r \in listed, created[r] >= since[p], Due(p, r)
  PROVE  r \in rows'[p] \/ Due(p, r)'
<1>1. /\ UNCHANGED <<kind, created, listed, answered, since>>
      /\ rows'[p] = OffsetPage(p) /\ cursor'[p] = AfterOffset(p)
  BY DEF FetchReviews, market, WindowIInv, BaseInv, TypeOK
<1>2. cursor[p].skip \in Nat /\ PageSize \in Nat \ {0}
  BY SyncAssumption DEF WindowIInv, BaseInv, TypeOK
<1>3. Window(p)' = IF cursor'[p].stage = cursor[p].stage THEN Window(p) ELSE Window(p)'
  BY <1>1 DEF Window
<1>4. Rank(r, Window(p))' = Cardinality({x \in Window(p)' : Newer(x, r)})
  BY <1>1 DEF Rank, Newer
<1>5. CASE Cardinality(OffsetPage(p)) >= PageSize
  <2>1. cursor'[p] = [cursor[p] EXCEPT !.skip = @ + PageSize]
    BY <1>1, <1>5 DEF AfterOffset
  <2>2. /\ cursor'[p].stage = cursor[p].stage
        /\ cursor'[p].skip = cursor[p].skip + PageSize
    BY <2>1 DEF WindowIInv, BaseInv, TypeOK
  <2>3. CASE cursor[p].stage = "unanswered" /\ r \in answered
    BY <1>1, <2>2, <2>3 DEF Due
  <2>4. CASE ~(cursor[p].stage = "unanswered" /\ r \in answered)
    <3>1. /\ cursor[p].stage = IF r \in answered THEN "answered" ELSE "unanswered"
          /\ Rank(r, Window(p)) >= cursor[p].skip
      BY <2>4 DEF Due
    <3>2. r \in Window(p) /\ Rank(r, Window(p)) \in Nat
      <4>1. r \in Window(p)
        BY <3>1 DEF Window
      <4> QED BY <4>1, Lists, RankType DEF WindowIInv
    <3>3. CASE Rank(r, Window(p)) < cursor[p].skip + PageSize
      <4>1. Rank(r, Window(p)) \in cursor[p].skip .. cursor[p].skip + PageSize - 1
        BY <1>2, <3>1, <3>2, <3>3
      <4> QED BY <1>1, <3>2, <4>1 DEF OffsetPage
    <3>4. CASE ~(Rank(r, Window(p)) < cursor[p].skip + PageSize)
      <4>1. Rank(r, Window(p))' = Rank(r, Window(p))
        BY <1>3, <1>4, <2>2 DEF Rank
      <4>2. Rank(r, Window(p))' >= cursor'[p].skip
        BY <1>2, <2>2, <3>2, <3>4, <4>1
      <4> QED BY <1>1, <2>2, <3>1, <4>2 DEF Due
    <3> QED BY <3>3, <3>4
  <2> QED BY <2>3, <2>4
<1>6. CASE ~(Cardinality(OffsetPage(p)) >= PageSize)
  <2>1. CASE cursor[p].stage = "unanswered" /\ r \in answered
    <3>1. cursor'[p].stage = "answered" /\ cursor'[p].skip = 0
      BY <1>1, <1>6, <2>1 DEF AfterOffset, Start
    <3>2. Rank(r, Window(p))' \in Nat
      <4>1. {x \in Window(p)' : Newer(x, r)} \in SUBSET listed /\ IsFiniteSet(listed)
        BY <1>1 DEF Window, WindowIInv, BaseInv
      <4> QED BY <1>4, <4>1, FS_Subset, FS_CardinalityType
    <3> QED BY <1>1, <2>1, <3>1, <3>2 DEF Due
  <2>2. CASE ~(cursor[p].stage = "unanswered" /\ r \in answered)
    <3>1. /\ cursor[p].stage = IF r \in answered THEN "answered" ELSE "unanswered"
          /\ Rank(r, Window(p)) >= cursor[p].skip
      BY <2>2 DEF Due
    <3>2. r \in Window(p) /\ Rank(r, Window(p)) \in Nat
      <4>1. r \in Window(p)
        BY <3>1 DEF Window
      <4> QED BY <4>1, Lists, RankType DEF WindowIInv
    <3>3. ~(Rank(r, Window(p)) >= cursor[p].skip + PageSize)
      BY <1>6, <3>2, OffsetPageFull DEF WindowIInv
    <3>4. Rank(r, Window(p)) \in cursor[p].skip .. cursor[p].skip + PageSize - 1
      BY <1>2, <3>1, <3>2, <3>3
    <3> QED BY <1>1, <3>2, <3>4 DEF OffsetPage
  <2> QED BY <2>1, <2>2
<1> QED BY <1>5, <1>6

\* The same of tokens; Ozon's adapter stops where the window has ended.
LEMMA FetchTokens ==
  ASSUME WindowIInv, BaseInv', NEW p \in Runs, FetchReviews(p), kind # "wb",
         NEW r \in listed, created[r] >= since[p], Due(p, r)
  PROVE  r \in rows'[p] \/ Due(p, r)'
<1>1. /\ UNCHANGED <<kind, created, listed, answered, since>>
      /\ rows'[p] = {x \in TokenPage(p) : created[x] >= since[p]}
      /\ cursor'[p] = AfterToken(p)
  BY DEF FetchReviews, market, WindowIInv, BaseInv, TypeOK
<1>2. r \in Remaining(p) /\ cursor[p].stage # "end"
  BY DEF Due
<1>3. CASE r \in TokenPage(p)
  BY <1>1, <1>3
<1>4. CASE r \notin TokenPage(p)
  <2>1. TokenPage(p) # Remaining(p)
    BY <1>2, <1>4
  <2>2. /\ Last(TokenPage(p)) \in TokenPage(p)
        /\ \A x \in TokenPage(p) : Newer(x, r)
    BY <1>2, <1>4, <2>1, TokenPageLast DEF WindowIInv
  <2>3. ASSUME NEW x \in TokenPage(p) PROVE created[x] >= since[p]
    <3>1. Newer(x, r) /\ x \in Reviews /\ r \in Reviews
      BY <2>2, <2>3, Lists DEF TokenPage, WindowIInv
    <3>2. created[x] \in Nat /\ created[r] \in Nat /\ since[p] \in Nat
      BY <3>1, Orders DEF WindowIInv, BaseInv, TypeOK, Times
    <3> QED BY <3>1, <3>2 DEF Newer
  <2>4. ~ \E x \in TokenPage(p) : created[x] < since[p]
    <3>1. ASSUME NEW x \in TokenPage(p) PROVE ~(created[x] < since[p])
      <4>1. x \in Reviews
        BY Lists DEF TokenPage, WindowIInv
      <4>2. created[x] \in Nat /\ since[p] \in Nat
        BY <4>1, Orders DEF WindowIInv, BaseInv, TypeOK, Times
      <4> QED BY <2>3, <4>2
    <3> QED BY <3>1
  <2>5. cursor'[p] = [cursor[p] EXCEPT !.last = Last(TokenPage(p))]
    BY <1>1, <2>1, <2>4 DEF AfterToken
  <2>6. /\ cursor'[p].stage = cursor[p].stage
        /\ cursor'[p].last = Last(TokenPage(p))
    BY <2>5 DEF WindowIInv, BaseInv, TypeOK
  <2>7. r \in Remaining(p)'
    BY <1>1, <2>2, <2>6 DEF Remaining, Newer
  <2> QED BY <1>1, <1>2, <2>6, <2>7 DEF Due
<1> QED BY <1>3, <1>4

LEMMA FetchWindow ==
  ASSUME WindowIInv, BaseInv', NEW p \in Runs, FetchReviews(p)
  PROVE  WindowInv'
<1>1. /\ UNCHANGED <<kind, created, listed, answered, shifted, lastSynced, stored,
                     pc, startedAt, since>>
      /\ \A q \in Runs \ {p} : cursor'[q] = cursor[q] /\ rows'[q] = rows[q]
      /\ pc[p] = "paging" /\ rows[p] = {}
  BY DEF FetchReviews, market, saved, WindowIInv, BaseInv, TypeOK
<1>2. ASSUME Quiet, NEW r \in listed' \ stored' PROVE Reached(p, r)'
  <2>1. r \in listed /\ Reached(p, r)
    BY <1>1, <1>2 DEF WindowIInv, WindowInv, RunCovers
  <2>2. CASE Late(p, r)
    BY <1>1, <2>2 DEF Reached, Late
  <2>3. CASE ~Late(p, r)
    <3>1. created[r] >= since[p] /\ Due(p, r)
      BY <1>1, <2>1, <2>3 DEF Reached
    <3>2. r \in rows'[p] \/ Due(p, r)'
      BY <2>1, <3>1, FetchOffsets, FetchTokens
    <3> QED BY <1>1, <3>1, <3>2 DEF Reached
  <2> QED BY <2>2, <2>3
<1>3. Quiet => RunCovers(p)'
  BY <1>2 DEF RunCovers
<1> QED BY <1>1, <1>3, StillWindow DEF WindowIInv

\* The review that leaves the page in hand is in the store.
LEMMA ImportWindow ==
  ASSUME WindowIInv, BaseInv', NEW p \in Runs, ImportOne(p)
  PROVE  WindowInv'
<1>1. PICK n \in rows[p] : /\ stored' = stored \cup {n}
                           /\ rows' = [rows EXCEPT ![p] = @ \ {n}]
  BY DEF ImportOne
<1>2. /\ UNCHANGED <<kind, created, listed, answered, shifted, lastSynced,
                     pc, startedAt, since, cursor>>
      /\ pc[p] = "paging" /\ rows'[p] = rows[p] \ {n}
      /\ \A q \in Runs \ {p} : rows'[q] = rows[q]
  BY <1>1 DEF ImportOne, market, WindowIInv, BaseInv, TypeOK
<1>3. ASSUME Quiet, NEW r \in listed' \ stored' PROVE Reached(p, r)'
  <2>1. r \in listed /\ r # n /\ Reached(p, r)
    BY <1>1, <1>2, <1>3 DEF WindowIInv, WindowInv, RunCovers
  <2>2. Due(p, r) => Due(p, r)'
    BY <1>2, <2>1, StillDue DEF WindowIInv
  <2> QED BY <1>2, <2>1, <2>2 DEF Reached, Late
<1>4. Quiet => RunCovers(p)'
  BY <1>3 DEF RunCovers
<1>5. stored \subseteq stored'
  BY <1>1
<1> QED BY <1>2, <1>4, <1>5, StillWindow DEF WindowIInv

LEMMA MarkWindow ==
  ASSUME WindowIInv, BaseInv', NEW p \in Runs, MarkExportDirty(p)
  PROVE  WindowInv'
<1>1. /\ UNCHANGED <<kind, created, listed, answered, shifted, lastSynced, stored,
                     startedAt, since, cursor, rows>>
      /\ \A q \in Runs \ {p} : pc'[q] = pc[q]
      /\ pc[p] = "paging"
  BY DEF MarkExportDirty, market, WindowIInv, BaseInv, TypeOK
<1>2. ASSUME Quiet, NEW r \in listed' \ stored' PROVE Reached(p, r)'
  <2>1. r \in listed /\ Reached(p, r)
    BY <1>1, <1>2 DEF WindowIInv, WindowInv, RunCovers
  <2> QED BY <1>1, <2>1, StillReached DEF WindowIInv
<1>3. Quiet => RunCovers(p)'
  BY <1>2 DEF RunCovers
<1> QED BY <1>1, <1>3, StillWindow DEF WindowIInv

\* What a complete run has not stored is late: the new watermark is no later
\* than the start of the run.
LEMMA SaveWindow ==
  ASSUME WindowIInv, BaseInv', NEW p \in Runs, SaveSyncState(p)
  PROVE  WindowInv'
<1> SUFFICES ASSUME Quiet
             PROVE  /\ \A r \in listed' \ stored' : InNextWindow(r)'
                    /\ \A q \in Runs : RunCovers(q)'
  BY DEF WindowInv, Quiet, SaveSyncState
<1>1. /\ UNCHANGED <<kind, created, listed, answered, shifted, stored>>
      /\ \A q \in Runs \ {p} :
           /\ pc'[q] = pc[q] /\ startedAt'[q] = startedAt[q]
           /\ cursor'[q] = cursor[q] /\ since'[q] = since[q] /\ rows'[q] = rows[q]
      /\ pc[p] = "saving" /\ pc'[p] = "idle"
      /\ lastSynced' = IF watermark[p] = Never THEN startedAt[p] ELSE watermark[p]
  BY DEF SaveSyncState, Free, market, WindowIInv, BaseInv, TypeOK
<1>2. lastSynced' \in Nat /\ startedAt[p] \in Nat /\ lastSynced' <= startedAt[p]
  BY <1>1, SyncAssumption DEF WindowIInv, BaseInv, TypeOK, Times, RunShape
<1>3. ASSUME NEW r \in listed' \ stored' PROVE InNextWindow(r)'
  <2>1. r \in listed \ stored /\ r \in Reviews /\ TypeOK /\ TypeOK'
    BY <1>1, Orders DEF WindowIInv, BaseInv
  <2>2. Reached(p, r)
    BY <1>1, <2>1 DEF WindowIInv, WindowInv, RunCovers
  <2>3. rows[p] = {} /\ cursor[p] = End
    BY <1>1 DEF WindowIInv, BaseInv, RunShape
  <2>4. Late(p, r)
    BY <2>2, <2>3 DEF Reached, Due, End
  <2>5. created[r] \in Nat /\ created'[r] = created[r]
    BY <1>1, <2>1, Orders
  <2>6. created'[r] + Overlap >= lastSynced'
    BY <1>2, <2>4, <2>5, SyncAssumption DEF Late
  <2> QED BY <2>1, <2>6, NextWindowAfter
<1>4. ASSUME NEW q \in Runs, pc'[q] \in {"paging", "saving"}, NEW r \in listed' \ stored'
      PROVE  Reached(q, r)'
  <2>1. q # p
    BY <1>1, <1>4
  <2>2. Reached(q, r)
    BY <1>1, <1>4, <2>1 DEF WindowIInv, WindowInv, RunCovers
  <2> QED BY <1>1, <2>1, <2>2, StillReached DEF WindowIInv
<1> QED BY <1>3, <1>4 DEF RunCovers

LEMMA FailWindow ==
  ASSUME WindowIInv, BaseInv', NEW p \in Runs, RunFails(p)
  PROVE  WindowInv'
<1>1. /\ UNCHANGED <<kind, created, listed, answered, shifted, lastSynced, stored>>
      /\ \A q \in Runs \ {p} :
           /\ pc'[q] = pc[q] /\ startedAt'[q] = startedAt[q]
           /\ cursor'[q] = cursor[q] /\ since'[q] = since[q] /\ rows'[q] = rows[q]
      /\ pc'[p] = "idle"
  BY DEF RunFails, Free, market, saved, WindowIInv, BaseInv, TypeOK
<1>2. RunCovers(p)'
  BY <1>1 DEF RunCovers
<1> QED BY <1>1, <1>2, StillWindow DEF WindowIInv

LEMMA WindowStep == WindowIInv /\ [Next]_vars => WindowInv'
<1> SUFFICES ASSUME WindowIInv, [Next]_vars PROVE WindowInv'
  OBVIOUS
<1>1. BaseInv'
  BY BaseStep DEF WindowIInv
<1>2. CASE Tick
  BY <1>1, <1>2, TickWindow
<1>3. ASSUME NEW r \in Reviews, ListReview(r) \/ AnswerReview(r) PROVE WindowInv'
  BY <1>1, <1>3, ListWindow, AnswerWindow
<1>4. ASSUME NEW p \in Runs, RunStep(p) PROVE WindowInv'
  BY <1>1, <1>4, AcquireWindow, StartWindow, FetchWindow, ImportWindow, MarkWindow,
     SaveWindow DEF RunStep
<1>5. ASSUME NEW p \in Runs, RunFails(p) PROVE WindowInv'
  BY <1>1, <1>5, FailWindow
<1>6. CASE UNCHANGED vars
  <2>1. /\ UNCHANGED <<kind, created, listed, answered, shifted, stored, lastSynced>>
        /\ UNCHANGED <<pc, startedAt, since, cursor, rows>>
    BY <1>6 DEF vars, market, saved, run
  <2> QED BY <2>1 DEF WindowIInv, WindowInv, Quiet, InNextWindow, WindowStart,
                      RunCovers, Reached, Late, Due, Remaining, Window, Rank, Newer
<1> QED BY <1>2, <1>3, <1>4, <1>5, <1>6 DEF Next

-----------------------------------------------------------------------------
(* The theorems.                                                           *)

\* Clock, lists, store, watermark and every run are well typed in every
\* reachable state: no watermark is ahead of this clock, whatever dates the
\* marketplace sends.
THEOREM SyncTypeCorrect == Spec => []TypeOK
<1>1. Spec => []BaseInv
  BY BaseInit, BaseStep, PTL DEF Spec
<1>2. BaseInv => TypeOK
  BY DEF BaseInv
<1> QED BY <1>1, <1>2, PTL

\* For any number of processes, reviews and failures: a review that is listed
\* no more than the overlap after its date is in the store or in the window of
\* the next run, unless WB's offsets have shifted.
THEOREM WindowsCover == Spec => []NothingSkipped
<1>1. Init => WindowIInv
  BY BaseInit, WindowInit DEF WindowIInv
<1>2. WindowIInv /\ [Next]_vars => WindowIInv'
  BY BaseStep, WindowStep DEF WindowIInv
<1>3. Spec => []WindowIInv
  BY <1>1, <1>2, PTL DEF Spec
<1>4. WindowIInv => NothingSkipped
  BY DEF WindowIInv, WindowInv, Quiet, NothingSkipped
<1> QED BY <1>3, <1>4, PTL

=============================================================================
