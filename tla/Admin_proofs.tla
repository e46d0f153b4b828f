---------------------------- MODULE Admin_proofs ----------------------------
(***************************************************************************)
(* Theorems about two pages of the admin application, for every value of  *)
(* the constants and every bound: the editor of the widget with the stored*)
(* configurations (Editor, WidgetConfig), then the table of reviews       *)
(* (ReviewsPage).                                                         *)
(***************************************************************************)
EXTENDS Editor, ReviewsPage, FiniteSetTheorems, SequenceTheorems, WellFoundedInduction, TLAPS

-----------------------------------------------------------------------------
(* Lists that are filtered.  The library's induction rules take an operator *)
(* as a parameter; its theorem about least elements gives induction over a  *)
(* set of places instead.                                                   *)

LEMMA Induction ==
    ASSUME NEW n \in Nat, NEW T \in SUBSET (0 .. n), 0 \in T,
           \A i \in 1 .. n : i - 1 \in T => i \in T
    PROVE  T = 0 .. n
<1> DEFINE rest == (0 .. n) \ T
<1> SUFFICES ASSUME rest # {} PROVE FALSE
  OBVIOUS
<1>1. rest \in SUBSET Nat
  OBVIOUS
<1>2. PICK i \in rest : \A j \in rest : ~(<<j, i>> \in OpToRel(<, Nat))
  BY <1>1, NatLessThanWellFounded, WFMin
<1>3. \A j \in rest : ~(j < i)
  BY <1>1, <1>2 DEF OpToRel
<1>4. i \in 1 .. n
  OBVIOUS
<1>5. i - 1 \in T
  BY <1>3, <1>4
<1> QED BY <1>4, <1>5

\* One step of the filter, and a function that takes all of them up to a place.
Filtered(list, places, i, before) ==
    IF i = 0 THEN <<>> ELSE IF i \in places THEN Append(before, list[i]) ELSE before

Filters(f, list, places, n) ==
    f = [i \in 0 .. n |-> Filtered(list, places, i, f[i - 1])]

LEMMA FilterExists ==
    ASSUME NEW list, NEW places, NEW n \in Nat
    PROVE  \E f : Filters(f, list, places, n)
<1> DEFINE T == {i \in 0 .. n : \E f : Filters(f, list, places, i)}
<1>1. 0 \in T
  <2>1. Filters([i \in 0 .. 0 |-> <<>>], list, places, 0)
    BY DEF Filters, Filtered
  <2> QED BY <2>1
<1>2. ASSUME NEW i \in 1 .. n, i - 1 \in T PROVE i \in T
  <2>1. PICK f : Filters(f, list, places, i - 1)
    BY <1>2
  <2> DEFINE g == [j \in 0 .. i |->
                     IF j = i THEN Filtered(list, places, i, f[i - 1]) ELSE f[j]]
  <2>2. ASSUME NEW j \in 0 .. i PROVE g[j] = Filtered(list, places, j, g[j - 1])
    <3>1. CASE j = i
      <4>1. g[j - 1] = f[i - 1]
        BY <3>1
      <4> QED BY <3>1, <4>1
    <3>2. CASE j # i
      <4>1. j \in 0 .. i - 1 /\ g[j] = f[j]
        BY <3>2
      <4>2. f[j] = Filtered(list, places, j, f[j - 1])
        BY <2>1, <4>1 DEF Filters
      <4>3. CASE j = 0
        BY <4>1, <4>2, <4>3 DEF Filtered
      <4>4. CASE j # 0
        <5>1. g[j - 1] = f[j - 1]
          BY <4>1, <4>4
        <5> QED BY <4>1, <4>2, <5>1
      <4> QED BY <4>3, <4>4
    <3> QED BY <3>1, <3>2
  <2>3. g = [j \in 0 .. i |-> Filtered(list, places, j, g[j - 1])]
    <3> HIDE DEF g
    <3>1. g = [j \in 0 .. i |-> g[j]]
      BY DEF g
    <3> QED BY <2>2, <3>1
  <2>4. Filters(g, list, places, i)
    BY <2>3 DEF Filters
  <2> QED BY <2>4
<1>3. T = 0 .. n
  <2> HIDE DEF T
  <2>1. T \in SUBSET (0 .. n)
    BY DEF T
  <2> QED BY <1>1, <1>2, <2>1, Induction
<1> QED BY <1>3

\* What the filter gives, step by step.
LEMMA PickedSteps ==
    ASSUME NEW list, NEW places, Len(list) \in Nat
    PROVE  \E f : Filters(f, list, places, Len(list)) /\ Picked(list, places) = f[Len(list)]
<1> DEFINE upTo[i \in 0 .. Len(list)] ==
              IF i = 0 THEN <<>>
              ELSE IF i \in places THEN Append(upTo[i - 1], list[i]) ELSE upTo[i - 1]
<1>1. Picked(list, places) = upTo[Len(list)]
  BY DEF Picked
<1>2. Filters(upTo, list, places, Len(list))
  <2> DEFINE chosen == CHOOSE f : Filters(f, list, places, Len(list))
  <2>1. upTo = chosen
    BY DEF Filters, Filtered
  <2>2. Filters(chosen, list, places, Len(list))
    <3> HIDE DEF upTo
    <3> QED BY FilterExists, Zenon
  <2> QED BY <2>1, <2>2
<1> QED BY <1>1, <1>2

\* `out' holds the elements of the list at the first i places that are kept, in
\* their order.
Keeps(out, list, places, i) ==
    \E at \in [1 .. Len(out) -> places \cap (1 .. i)] :
        /\ \A m, n \in 1 .. Len(out) : m < n => at[m] < at[n]
        /\ \A n \in 1 .. Len(out) : out[n] = list[at[n]]
        /\ \A k \in places \cap (1 .. i) : \E n \in 1 .. Len(out) : at[n] = k

\* A filter gives a list of the elements at the places that are kept, in their
\* order and no others.
LEMMA PickedKeeps ==
    ASSUME NEW S, NEW list \in Seq(S), NEW places \in SUBSET (1 .. Len(list))
    PROVE  /\ Picked(list, places) \in Seq(S)
           /\ Len(Picked(list, places)) <= Len(list)
           /\ Keeps(Picked(list, places), list, places, Len(list))
<1> DEFINE n == Len(list)
<1>1. n \in Nat
  BY LenProperties
<1>2. PICK f : Filters(f, list, places, n) /\ Picked(list, places) = f[n]
  BY <1>1, PickedSteps
<1> DEFINE T == {i \in 0 .. n : /\ f[i] \in Seq(S) /\ Len(f[i]) <= i
                                /\ Keeps(f[i], list, places, i)}
<1> HIDE DEF n
<1>3. \A i \in 0 .. n : f[i] = Filtered(list, places, i, f[i - 1])
  BY <1>1, <1>2 DEF Filters
<1>4. 0 \in T
  <2>1. f[0] = <<>>
    BY <1>1, <1>3 DEF Filtered
  <2>2. <<>> \in [1 .. Len(<<>>) -> places \cap (1 .. 0)]
    OBVIOUS
  <2>3. Keeps(<<>>, list, places, 0)
    <3>1. 1 .. Len(<<>>) = {} /\ 1 .. 0 = {}
      OBVIOUS
    <3> QED BY <2>2, <3>1 DEF Keeps
  <2>4. f[0] \in Seq(S) /\ Len(f[0]) <= 0 /\ Keeps(f[0], list, places, 0) /\ 0 \in 0 .. n
    BY <1>1, <2>1, <2>3, EmptySeq
  <2> QED BY <2>4
<1>5. ASSUME NEW i \in 1 .. n, i - 1 \in T PROVE i \in T
  <2> DEFINE before == f[i - 1]
  <2>1. /\ before \in Seq(S) /\ Len(before) <= i - 1 /\ Len(before) \in Nat
        /\ Keeps(before, list, places, i - 1)
    BY <1>5, LenProperties
  <2>2. f[i] = IF i \in places THEN Append(before, list[i]) ELSE before
    BY <1>3, <1>1 DEF Filtered
  <2> HIDE DEF before
  <2>3. PICK at \in [1 .. Len(before) -> places \cap (1 .. i - 1)] :
            /\ \A m, k \in 1 .. Len(before) : m < k => at[m] < at[k]
            /\ \A k \in 1 .. Len(before) : before[k] = list[at[k]]
            /\ \A k \in places \cap (1 .. i - 1) : \E m \in 1 .. Len(before) : at[m] = k
    BY <2>1 DEF Keeps
  <2>4. CASE i \in places
    <3> DEFINE out == Append(before, list[i])
               at2 == [m \in 1 .. Len(out) |-> IF m = Len(out) THEN i ELSE at[m]]
    <3>1. list[i] \in S
      BY ElementOfSeq DEF n
    <3>2. /\ out \in Seq(S) /\ Len(out) = Len(before) + 1 /\ out[Len(out)] = list[i]
          /\ \A m \in 1 .. Len(before) : out[m] = before[m]
      BY <2>1, <3>1, AppendProperties
    <3> HIDE DEF out
    <3>3. at2 \in [1 .. Len(out) -> places \cap (1 .. i)]
      <4>1. \A m \in 1 .. Len(out) : m # Len(out) => m \in 1 .. Len(before)
        BY <2>1, <3>2
      <4>2. \A m \in 1 .. Len(before) : at[m] \in places \cap (1 .. i)
        BY <1>1
      <4> QED BY <1>1, <2>4, <4>1, <4>2
    <3>4. at2[Len(out)] = i /\ \A m \in 1 .. Len(before) : at2[m] = at[m] /\ at[m] < i
      BY <1>1, <2>1, <3>2
    <3> HIDE DEF at2
    <3>5. \A m, k \in 1 .. Len(out) : m < k => at2[m] < at2[k]
      <4> SUFFICES ASSUME NEW m \in 1 .. Len(out), NEW k \in 1 .. Len(out), m < k
                   PROVE  at2[m] < at2[k]
        OBVIOUS
      <4>1. m \in 1 .. Len(before)
        BY <2>1, <3>2
      <4>2. CASE k = Len(out)
        BY <3>4, <4>1, <4>2
      <4>3. CASE k # Len(out)
        <5>1. k \in 1 .. Len(before)
          BY <2>1, <3>2, <4>3
        <5> QED BY <2>3, <3>4, <4>1, <5>1
      <4> QED BY <4>2, <4>3
    <3>6. \A m \in 1 .. Len(out) : out[m] = list[at2[m]]
      <4> SUFFICES ASSUME NEW m \in 1 .. Len(out) PROVE out[m] = list[at2[m]]
        OBVIOUS
      <4>1. m = Len(out) \/ m \in 1 .. Len(before)
        BY <2>1, <3>2
      <4> QED BY <2>3, <3>2, <3>4, <4>1
    <3>7. ASSUME NEW k \in places \cap (1 .. i) PROVE \E m \in 1 .. Len(out) : at2[m] = k
      <4>1. CASE k = i
        <5>1. Len(out) \in 1 .. Len(out)
          BY <2>1, <3>2
        <5> QED BY <3>4, <4>1, <5>1
      <4>2. CASE k # i
        <5>1. k \in places \cap (1 .. i - 1)
          BY <1>1, <4>2
        <5>2. PICK m \in 1 .. Len(before) : at[m] = k
          BY <2>3, <5>1
        <5>3. m \in 1 .. Len(out)
          BY <2>1, <3>2
        <5> QED BY <3>4, <5>2, <5>3
      <4> QED BY <4>1, <4>2
    <3>8. Keeps(out, list, places, i)
      BY <3>3, <3>5, <3>6, <3>7 DEF Keeps
    <3>9. f[i] = out /\ Len(out) <= i
      BY <1>1, <2>1, <2>2, <2>4, <3>2 DEF out
    <3> QED BY <1>1, <3>2, <3>8, <3>9
  <2>5. CASE i \notin places
    <3>1. places \cap (1 .. i) = places \cap (1 .. i - 1)
      BY <1>1, <2>5
    <3>2. Keeps(before, list, places, i)
      BY <2>1, <3>1 DEF Keeps
    <3>3. Len(before) <= i
      BY <1>1, <2>1
    <3> QED BY <1>1, <2>1, <2>2, <2>5, <3>2, <3>3
  <2> QED BY <2>4, <2>5
<1>6. T = 0 .. n
  <2> HIDE DEF T
  <2>1. T \in SUBSET (0 .. n)
    BY DEF T
  <2> QED BY <1>1, <1>4, <1>5, <2>1, Induction
<1>7. n \in T
  <2> HIDE DEF T
  <2> QED BY <1>1, <1>6
<1> QED BY <1>2, <1>7 DEF n

\* A filter that keeps every place changes nothing.
LEMMA PickedAll ==
    ASSUME NEW S, NEW list \in Seq(S)
    PROVE  Picked(list, 1 .. Len(list)) = list
<1> DEFINE n == Len(list)
<1>1. n \in Nat /\ list = [i \in 1 .. n |-> list[i]]
  BY LenProperties, SeqDef
<1>2. PICK f : Filters(f, list, 1 .. n, n) /\ Picked(list, 1 .. n) = f[n]
  BY <1>1, PickedSteps
<1> DEFINE T == {i \in 0 .. n : /\ f[i] \in Seq(S) /\ Len(f[i]) = i
                                /\ \A j \in 1 .. i : f[i][j] = list[j]}
<1> HIDE DEF n
<1>3. \A i \in 0 .. n : f[i] = Filtered(list, 1 .. n, i, f[i - 1])
  BY <1>1, <1>2 DEF Filters
<1>4. 0 \in T
  <2>1. f[0] = <<>>
    BY <1>1, <1>3 DEF Filtered
  <2>2. /\ f[0] \in Seq(S) /\ Len(f[0]) = 0 /\ 0 \in 0 .. n
        /\ \A j \in 1 .. 0 : f[0][j] = list[j]
    BY <1>1, <2>1, EmptySeq
  <2> QED BY <2>2
<1>5. ASSUME NEW i \in 1 .. n, i - 1 \in T PROVE i \in T
  <2> DEFINE before == f[i - 1]
  <2>1. before \in Seq(S) /\ Len(before) = i - 1 /\ \A j \in 1 .. i - 1 : before[j] = list[j]
    BY <1>5
  <2>2. f[i] = Append(before, list[i])
    <3>1. i \in 0 .. n /\ i # 0
      BY <1>1
    <3>2. f[i] = Filtered(list, 1 .. n, i, f[i - 1])
      BY <1>3, <3>1
    <3> QED BY <3>1, <3>2 DEF Filtered
  <2> HIDE DEF before
  <2>3. list[i] \in S
    BY ElementOfSeq DEF n
  <2>4. /\ f[i] \in Seq(S) /\ Len(f[i]) = Len(before) + 1 /\ f[i][Len(before) + 1] = list[i]
        /\ \A j \in 1 .. Len(before) : f[i][j] = before[j]
    BY <2>1, <2>2, <2>3, AppendProperties
  <2>5. Len(f[i]) = i /\ \A j \in 1 .. i : f[i][j] = list[j]
    <3>1. Len(f[i]) = i
      BY <1>1, <2>1, <2>4
    <3>2. ASSUME NEW j \in 1 .. i PROVE f[i][j] = list[j]
      <4>1. j = i \/ j \in 1 .. i - 1
        BY <1>1
      <4>2. CASE j = i
        BY <1>1, <2>1, <2>4, <4>2
      <4>3. CASE j \in 1 .. i - 1
        BY <1>1, <2>1, <2>4, <4>3
      <4> QED BY <4>1, <4>2, <4>3
    <3> QED BY <3>1, <3>2
  <2> QED BY <2>4, <2>5
<1>6. T = 0 .. n
  <2> HIDE DEF T
  <2>1. T \in SUBSET (0 .. n)
    BY DEF T
  <2> QED BY <1>1, <1>4, <1>5, <2>1, Induction
<1>7. n \in T
  <2> HIDE DEF T
  <2> QED BY <1>1, <1>6
<1>8. f[n] = list
  <2>1. f[n] \in Seq(S) /\ Len(f[n]) = n /\ \A j \in 1 .. n : f[n][j] = list[j]
    BY <1>7
  <2> QED BY <1>1, <2>1, SeqEqual DEF n
<1> QED BY <1>2, <1>8 DEF n

LEMMA ElementsInSet ==
    ASSUME NEW S, NEW T, NEW s \in Seq(S), \A i \in 1 .. Len(s) : s[i] \in T
    PROVE  s \in Seq(T)
<1>1. Len(s) \in Nat /\ s \in [1 .. Len(s) -> S]
  BY LenProperties
<1>2. s \in [1 .. Len(s) -> T]
  BY <1>1
<1> QED BY <1>1, <1>2, SeqDef

-----------------------------------------------------------------------------
(* The list of sections. *)

\* A list of sections as the panels know it: each section at most once, and
\* the list of reviews among them.
GoodSections(list) ==
    /\ list \in Seq(Sections)
    /\ \A i, j \in 1 .. Len(list) : list[i] = list[j] => i = j
    /\ Listed(list, "list")

LEMMA SectionNames == "list" \in Sections /\ "player" \in Sections
<1>1. Len(DefaultSections) = 6
  BY DEF DefaultSections
<1>2. DefaultSections[5] = "list" /\ DefaultSections[2] = "player"
  BY DEF DefaultSections
<1> QED BY <1>1, <1>2 DEF Sections

LEMMA DefaultSectionsType == DefaultSections \in Seq(Sections)
<1>1. Len(DefaultSections) = 6
  BY DEF DefaultSections
<1>2. \A i \in 1 .. 6 : DefaultSections[i] \in Sections
  BY <1>1 DEF Sections
<1>3. DefaultSections = [i \in 1 .. 6 |-> DefaultSections[i]]
  BY DEF DefaultSections
<1>4. DefaultSections \in [1 .. 6 -> Sections]
  BY <1>2, <1>3
<1> QED BY <1>4, SeqDef

LEMMA GoodAppended ==
    ASSUME NEW list \in Seq(Sections), NEW id \in Sections, ~Listed(list, id),
           \A i, j \in 1 .. Len(list) : list[i] = list[j] => i = j,
           Listed(list, "list") \/ id = "list"
    PROVE  GoodSections(Append(list, id))
<1> DEFINE out == Append(list, id)
<1>1. /\ out \in Seq(Sections) /\ Len(out) = Len(list) + 1 /\ out[Len(list) + 1] = id
      /\ \A i \in 1 .. Len(list) : out[i] = list[i]
      /\ Len(list) \in Nat
  BY AppendProperties, LenProperties
<1> HIDE DEF out
<1>2. \A i \in 1 .. Len(out) : i = Len(list) + 1 \/ i \in 1 .. Len(list)
  BY <1>1
<1>3. \A i \in 1 .. Len(list) : out[i] # id
  BY <1>1 DEF Listed
<1>4. ASSUME NEW i \in 1 .. Len(out), NEW j \in 1 .. Len(out), out[i] = out[j]
      PROVE  i = j
  <2>1. CASE i = Len(list) + 1
    BY <1>1, <1>2, <1>3, <1>4, <2>1
  <2>2. CASE j = Len(list) + 1
    BY <1>1, <1>2, <1>3, <1>4, <2>2
  <2>3. CASE i \in 1 .. Len(list) /\ j \in 1 .. Len(list)
    BY <1>1, <1>4, <2>3
  <2> QED BY <1>2, <2>1, <2>2, <2>3
<1>5. Listed(out, "list")
  <2>1. CASE id = "list"
    BY <1>1, <2>1 DEF Listed
  <2>2. CASE Listed(list, "list")
    BY <1>1, <2>2 DEF Listed
  <2> QED BY <2>1, <2>2
<1> QED BY <1>1, <1>4, <1>5 DEF GoodSections, out

\* Whatever list was stored, the sections made of it are good.
LEMMA KnownGood ==
    ASSUME NEW S, NEW list \in Seq(S), NEW dropped
    PROVE  GoodSections(KnownSections(list, dropped))
<1> DEFINE places == {i \in 1 .. Len(list) : /\ list[i] \in Sections \ dropped
                                             /\ \A j \in 1 .. i - 1 : list[j] # list[i]}
           out == Picked(list, places)
<1>1. places \in SUBSET (1 .. Len(list)) /\ Len(list) \in Nat
  BY LenProperties
<1>2. out \in Seq(S) /\ Keeps(out, list, places, Len(list))
  <2> HIDE DEF places
  <2> QED BY <1>1, PickedKeeps
<1>3. /\ \A k \in places : list[k] \in Sections
      /\ \A j, k \in places : j < k => list[j] # list[k]
  BY <1>1
<1>4. KnownSections(list, dropped) = IF Listed(out, "list") THEN out ELSE Append(out, "list")
  BY DEF KnownSections
<1> HIDE DEF places, out
<1>5. PICK at \in [1 .. Len(out) -> places \cap (1 .. Len(list))] :
            /\ \A m, n \in 1 .. Len(out) : m < n => at[m] < at[n]
            /\ \A n \in 1 .. Len(out) : out[n] = list[at[n]]
  BY <1>2 DEF Keeps
<1>6. out \in Seq(Sections)
  <2>1. \A n \in 1 .. Len(out) : out[n] \in Sections
    BY <1>3, <1>5
  <2> QED BY <1>2, <2>1, ElementsInSet
<1>7. Len(out) \in Nat
  BY <1>6, LenProperties
<1>8. ASSUME NEW m \in 1 .. Len(out), NEW n \in 1 .. Len(out), out[m] = out[n]
      PROVE  m = n
  <2>1. m < n \/ n < m \/ m = n
    BY <1>7
  <2>2. at[m] \in places /\ at[n] \in places
    BY <1>5
  <2> QED BY <1>3, <1>5, <1>8, <2>1, <2>2
<1>9. CASE Listed(out, "list")
  BY <1>4, <1>6, <1>8, <1>9 DEF GoodSections
<1>10. CASE ~Listed(out, "list")
  BY <1>4, <1>6, <1>8, <1>10, GoodAppended, SectionNames
<1> QED BY <1>9, <1>10

\* A good list is left as it is.
LEMMA KnownSame ==
    ASSUME NEW list, GoodSections(list)
    PROVE  KnownSections(list, {}) = list
<1> DEFINE places == {i \in 1 .. Len(list) : /\ list[i] \in Sections \ {}
                                             /\ \A j \in 1 .. i - 1 : list[j] # list[i]}
<1>1. list \in Seq(Sections) /\ Len(list) \in Nat
  BY LenProperties DEF GoodSections
<1>2. places = 1 .. Len(list)
  <2>1. ASSUME NEW i \in 1 .. Len(list) PROVE i \in places
    <3>1. list[i] \in Sections
      BY <1>1, ElementOfSeq
    <3>2. \A j \in 1 .. i - 1 : list[j] # list[i]
      BY <1>1 DEF GoodSections
    <3> QED BY <3>1, <3>2
  <2> QED BY <2>1
<1>3. KnownSections(list, {}) = IF Listed(Picked(list, places), "list")
                                THEN Picked(list, places) ELSE Append(Picked(list, places), "list")
  BY DEF KnownSections
<1> HIDE DEF places
<1>4. Picked(list, places) = list
  BY <1>1, <1>2, PickedAll
<1> QED BY <1>3, <1>4 DEF GoodSections

\* A section that may be switched off leaves a good list.
LEMMA WithoutGood ==
    ASSUME NEW list, GoodSections(list), NEW id, id # "list"
    PROVE  GoodSections(Without(list, id)) /\ ~Listed(Without(list, id), id)
<1> DEFINE places == {i \in 1 .. Len(list) : list[i] # id}
           out == Picked(list, places)
<1>1. list \in Seq(Sections) /\ Len(list) \in Nat
  BY LenProperties DEF GoodSections
<1>2. places \in SUBSET (1 .. Len(list)) /\ \A k \in 1 .. Len(list) : k \in places <=> list[k] # id
  OBVIOUS
<1>3. out \in Seq(Sections) /\ Keeps(out, list, places, Len(list))
  <2> HIDE DEF places
  <2> QED BY <1>1, <1>2, PickedKeeps
<1>4. Without(list, id) = out
  BY DEF Without
<1> HIDE DEF places, out
<1>5. PICK at \in [1 .. Len(out) -> places \cap (1 .. Len(list))] :
            /\ \A m, n \in 1 .. Len(out) : m < n => at[m] < at[n]
            /\ \A n \in 1 .. Len(out) : out[n] = list[at[n]]
            /\ \A k \in places \cap (1 .. Len(list)) : \E n \in 1 .. Len(out) : at[n] = k
  BY <1>3 DEF Keeps
<1>6. Len(out) \in Nat
  BY <1>3, LenProperties
<1>7. ASSUME NEW m \in 1 .. Len(out), NEW n \in 1 .. Len(out), out[m] = out[n]
      PROVE  m = n
  <2>1. m < n \/ n < m \/ m = n
    BY <1>6
  <2>2. at[m] \in 1 .. Len(list) /\ at[n] \in 1 .. Len(list)
    BY <1>5
  <2>3. at[m] = at[n]
    BY <1>5, <1>7, <2>2 DEF GoodSections
  <2> QED BY <1>1, <1>5, <2>1, <2>2, <2>3
<1>8. Listed(out, "list")
  <2>1. PICK k \in 1 .. Len(list) : list[k] = "list"
    BY DEF GoodSections, Listed
  <2>2. k \in places \cap (1 .. Len(list))
    BY <1>2, <2>1
  <2> QED BY <1>5, <2>1, <2>2 DEF Listed
<1>9. ~Listed(out, id)
  BY <1>2, <1>5 DEF Listed
<1> QED BY <1>3, <1>4, <1>7, <1>8, <1>9 DEF GoodSections

LEMMA SameLength ==
    ASSUME NEW m \in Nat, NEW n \in Nat, 1 .. m = 1 .. n PROVE m = n
<1>1. CASE m < n
  <2>1. n \in 1 .. n /\ n \notin 1 .. m
    BY <1>1
  <2> QED BY <2>1
<1>2. CASE n < m
  <2>1. m \in 1 .. m /\ m \notin 1 .. n
    BY <1>2
  <2> QED BY <2>1
<1> QED BY <1>1, <1>2

\* The type and length of a list given by its places.
LEMMA ListOf ==
    ASSUME NEW S, NEW n \in Nat, NEW s \in [1 .. n -> S]
    PROVE  s \in Seq(S) /\ Len(s) = n
<1>1. s \in Seq(S)
  BY SeqDef
<1>2. Len(s) \in Nat /\ 1 .. Len(s) = 1 .. n
  BY <1>1, LenProperties
<1> QED BY <1>1, <1>2, SameLength

\* A part of a list.
LEMMA PartOf ==
    ASSUME NEW S, NEW s \in Seq(S), NEW m \in Nat, NEW n \in Nat,
           1 <= m, m <= n + 1, n <= Len(s)
    PROVE  /\ SubSeq(s, m, n) \in Seq(S) /\ Len(SubSeq(s, m, n)) = n - m + 1
           /\ \A i \in 1 .. n - m + 1 : SubSeq(s, m, n)[i] = s[m + i - 1]
<1>1. Len(s) \in Nat /\ \A i \in 1 .. Len(s) : s[i] \in S
  BY LenProperties, ElementOfSeq
<1>2. m \in Int /\ n \in Int /\ \A i \in m .. n : s[i] \in S
  BY <1>1
<1>3. /\ SubSeq(s, m, n) \in Seq(S)
      /\ Len(SubSeq(s, m, n)) = IF m <= n THEN n - m + 1 ELSE 0
      /\ \A i \in 1 .. n - m + 1 : SubSeq(s, m, n)[i] = s[m + i - 1]
  BY <1>2, SubSeqProperties
<1> QED BY <1>3

\* Two lists, one after the other.
LEMMA Joined ==
    ASSUME NEW S, NEW s \in Seq(S), NEW t \in Seq(S)
    PROVE  /\ s \o t \in Seq(S) /\ Len(s \o t) = Len(s) + Len(t)
           /\ \A i \in 1 .. Len(s) : (s \o t)[i] = s[i]
           /\ \A i \in 1 .. Len(t) : (s \o t)[Len(s) + i] = t[i]
<1>1. Len(s) \in Nat /\ Len(t) \in Nat
  BY LenProperties
<1>2. /\ s \o t \in Seq(S) /\ Len(s \o t) = Len(s) + Len(t)
      /\ \A i \in 1 .. Len(s) + Len(t) : (s \o t)[i] =
                     IF i <= Len(s) THEN s[i] ELSE t[i - Len(s)]
  BY ConcatProperties
<1>3. \A i \in 1 .. Len(s) : i \in 1 .. Len(s) + Len(t) /\ i <= Len(s)
  BY <1>1
<1>4. \A i \in 1 .. Len(t) : /\ Len(s) + i \in 1 .. Len(s) + Len(t)
                              /\ ~(Len(s) + i <= Len(s)) /\ Len(s) + i - Len(s) = i
  BY <1>1
<1> QED BY <1>2, <1>3, <1>4

\* A list from which the section at one place is put at another: the same
\* sections in another order.
LEMMA MovedGood ==
    ASSUME NEW list, GoodSections(list), NEW from \in 1 .. Len(list), NEW to \in 1 .. Len(list),
           NEW rest, rest = [i \in 1 .. Len(list) - 1 |->
                                IF i < from THEN list[i] ELSE list[i + 1]]
    PROVE  GoodSections(SubSeq(rest, 1, to - 1) \o <<list[from]>> \o SubSeq(rest, to, Len(rest)))
<1> DEFINE n == Len(list)
           head == SubSeq(rest, 1, to - 1)
           one == <<list[from]>>
           last == SubSeq(rest, to, Len(rest))
           out == head \o one \o last
           origin(i) == IF i < to THEN IF i < from THEN i ELSE i + 1
                        ELSE IF i = to THEN from
                        ELSE IF i - 1 < from THEN i - 1 ELSE i
           target(k) == IF k = from THEN to
                        ELSE LET j == IF k < from THEN k ELSE k - 1
                             IN  IF j < to THEN j ELSE j + 1
<1>1. list \in Seq(Sections) /\ n \in Nat /\ \A i \in 1 .. n : list[i] \in Sections
  BY LenProperties, ElementOfSeq DEF GoodSections
<1>2. rest \in Seq(Sections) /\ Len(rest) = n - 1
  <2>1. n - 1 \in Nat /\ rest \in [1 .. n - 1 -> Sections]
    BY <1>1
  <2> HIDE DEF n
  <2> QED BY <2>1, ListOf
<1>3. /\ head \in Seq(Sections) /\ Len(head) = to - 1
      /\ \A i \in 1 .. to - 1 : head[i] = rest[i]
  <2> HIDE DEF n
  <2>1. to - 1 \in Nat /\ 1 \in Nat /\ 1 <= 1 /\ 1 <= to - 1 + 1 /\ to - 1 <= Len(rest)
    BY <1>1, <1>2 DEF n
  <2>2. /\ head \in Seq(Sections) /\ Len(head) = to - 1 - 1 + 1
        /\ \A i \in 1 .. to - 1 - 1 + 1 : head[i] = rest[1 + i - 1]
    BY <1>2, <2>1, PartOf
  <2> HIDE DEF head
  <2>3. to - 1 - 1 + 1 = to - 1 /\ \A i \in 1 .. to - 1 : 1 + i - 1 = i
    BY <2>1
  <2> QED BY <2>2, <2>3
<1>4. one \in Seq(Sections) /\ Len(one) = 1 /\ one[1] = list[from]
  BY <1>1
<1>5. /\ last \in Seq(Sections) /\ Len(last) = n - to
      /\ \A i \in 1 .. n - to : last[i] = rest[to + i - 1]
  <2> HIDE DEF n
  <2>1. to \in Nat /\ n - 1 \in Nat /\ 1 <= to /\ to <= n - 1 + 1 /\ n - 1 <= Len(rest)
    BY <1>1, <1>2 DEF n
  <2>2. last = SubSeq(rest, to, n - 1)
    BY <1>2
  <2> HIDE DEF last
  <2>3. /\ last \in Seq(Sections) /\ Len(last) = n - 1 - to + 1
        /\ \A i \in 1 .. n - 1 - to + 1 : last[i] = rest[to + i - 1]
    BY <1>2, <2>1, <2>2, PartOf
  <2>4. n - 1 - to + 1 = n - to
    BY <1>1, <2>1
  <2> QED BY <2>3, <2>4
<1> HIDE DEF n, head, one, last
<1>6. /\ out \in Seq(Sections) /\ Len(out) = n
      /\ \A i \in 1 .. n : out[i] = IF i < to THEN rest[i]
                                     ELSE IF i = to THEN list[from] ELSE rest[i - 1]
  <2> DEFINE front == head \o one
  <2>1. to \in 1 .. n
    BY DEF n
  <2>2. /\ front \in Seq(Sections) /\ Len(front) = Len(head) + Len(one)
        /\ \A i \in 1 .. Len(head) : front[i] = head[i]
        /\ \A i \in 1 .. Len(one) : front[Len(head) + i] = one[i]
    <3>1. head \in Seq(Sections) /\ one \in Seq(Sections)
      BY <1>3, <1>4
    <3>2. /\ head \o one \in Seq(Sections) /\ Len(head \o one) = Len(head) + Len(one)
          /\ \A i \in 1 .. Len(head) : (head \o one)[i] = head[i]
          /\ \A i \in 1 .. Len(one) : (head \o one)[Len(head) + i] = one[i]
      BY <3>1, Joined
    <3> QED BY <3>2
  <2> HIDE DEF front
  <2>3. /\ front \in Seq(Sections) /\ Len(front) = to
        /\ \A i \in 1 .. to - 1 : front[i] = rest[i]
        /\ front[to] = list[from]
    <3>1. Len(front) = to /\ \A i \in 1 .. to - 1 : front[i] = rest[i]
      <4>1. to \in Int
        BY <1>1, <2>1
      <4>2. Len(head) = to - 1 /\ Len(one) = 1 /\ to - 1 + 1 = to
        BY <1>3, <1>4, <4>1
      <4>3. Len(front) = to
        BY <2>2, <4>2
      <4>4. \A i \in 1 .. to - 1 : front[i] = head[i]
        BY <2>2, <4>2
      <4> QED BY <1>3, <4>3, <4>4
    <3>2. 1 \in 1 .. Len(one) /\ Len(head) + 1 = to
      BY <1>1, <1>3, <1>4, <2>1
    <3>3. front[Len(head) + 1] = one[1]
      BY <2>2, <3>2
    <3> QED BY <1>4, <2>2, <3>1, <3>2, <3>3
  <2>4. out = front \o last
    BY DEF front
  <2> HIDE DEF out
  <2>5. /\ out \in Seq(Sections) /\ Len(out) = Len(front) + Len(last)
        /\ \A i \in 1 .. Len(front) : out[i] = front[i]
        /\ \A i \in 1 .. Len(last) : out[Len(front) + i] = last[i]
    <3>1. front \in Seq(Sections) /\ last \in Seq(Sections)
      BY <1>5, <2>3
    <3>2. /\ front \o last \in Seq(Sections) /\ Len(front \o last) = Len(front) + Len(last)
          /\ \A i \in 1 .. Len(front) : (front \o last)[i] = front[i]
          /\ \A i \in 1 .. Len(last) : (front \o last)[Len(front) + i] = last[i]
      BY <3>1, Joined
    <3> QED BY <2>4, <3>2
  <2>6. Len(out) = n
    BY <1>1, <1>5, <2>1, <2>3, <2>5
  <2>7. ASSUME NEW i \in 1 .. n
        PROVE  out[i] = IF i < to THEN rest[i]
                        ELSE IF i = to THEN list[from] ELSE rest[i - 1]
    <3>1. CASE i < to
      <4>1. i \in 1 .. to - 1 /\ i \in 1 .. Len(front)
        BY <1>1, <2>1, <2>3, <3>1
      <4> QED BY <2>3, <2>5, <3>1, <4>1
    <3>2. CASE i = to
      <4>1. to \in 1 .. Len(front) /\ ~(i < to)
        BY <1>1, <2>1, <2>3, <3>2
      <4> QED BY <2>3, <2>5, <3>2, <4>1
    <3>3. CASE i > to
      <4>1. i - to \in 1 .. n - to /\ to + (i - to) - 1 = i - 1 /\ to + (i - to) = i
        BY <1>1, <2>1, <3>3
      <4>2. out[Len(front) + (i - to)] = last[i - to] /\ last[i - to] = rest[to + (i - to) - 1]
        BY <1>5, <2>5, <4>1
      <4>3. ~(i < to) /\ i # to
        BY <1>1, <2>1, <3>3
      <4> QED BY <2>3, <4>1, <4>2, <4>3
    <3> QED BY <1>1, <2>1, <3>1, <3>2, <3>3
  <2> QED BY <2>5, <2>6, <2>7
<1> HIDE DEF out
<1>7. ASSUME NEW i \in 1 .. n PROVE origin(i) \in 1 .. n /\ out[i] = list[origin(i)]
  <2>1. from \in 1 .. n /\ to \in 1 .. n
    BY DEF n
  <2>2. \A j \in 1 .. n - 1 : rest[j] = IF j < from THEN list[j] ELSE list[j + 1]
    BY DEF n
  <2>3. i < to => i \in 1 .. n - 1
    BY <1>1, <2>1
  <2>4. i > to => i - 1 \in 1 .. n - 1 /\ i - 1 + 1 = i
    BY <1>1, <2>1
  <2>5. out[i] = IF i < to THEN rest[i] ELSE IF i = to THEN list[from] ELSE rest[i - 1]
    BY <1>6
  <2>6. CASE i < to
    <3>1. out[i] = rest[i] /\ rest[i] = IF i < from THEN list[i] ELSE list[i + 1]
      BY <2>2, <2>3, <2>5, <2>6
    <3>2. i \in 1 .. n /\ i + 1 \in 1 .. n
      BY <1>1, <2>3, <2>6
    <3> QED BY <2>6, <3>1, <3>2
  <2>7. CASE i = to
    BY <1>1, <2>1, <2>5, <2>7
  <2>8. CASE i > to
    <3>1. ~(i < to) /\ i # to /\ i - 1 \in 1 .. n /\ i \in 1 .. n
      BY <1>1, <2>1, <2>4, <2>8
    <3>2. out[i] = rest[i - 1] /\ rest[i - 1] = IF i - 1 < from THEN list[i - 1] ELSE list[i - 1 + 1]
      BY <2>2, <2>4, <2>5, <2>8, <3>1
    <3> QED BY <2>4, <2>8, <3>1, <3>2
  <2> QED BY <1>1, <2>1, <2>6, <2>7, <2>8
<1>8. ASSUME NEW k \in 1 .. n PROVE target(k) \in 1 .. n /\ origin(target(k)) = k
  BY <1>1 DEF n
<1>9. \A i, j \in 1 .. n : origin(i) = origin(j) => i = j
  BY <1>1 DEF n
<1> HIDE DEF origin, target
<1>10. ASSUME NEW i \in 1 .. n, NEW j \in 1 .. n, out[i] = out[j] PROVE i = j
  <2>1. origin(i) = origin(j)
    BY <1>7, <1>10 DEF GoodSections, n
  <2> QED BY <1>9, <2>1
<1>11. Listed(out, "list")
  <2>1. PICK k \in 1 .. n : list[k] = "list"
    BY DEF GoodSections, Listed, n
  <2> QED BY <1>6, <1>7, <1>8, <2>1 DEF Listed
<1>12. GoodSections(out)
  BY <1>6, <1>10, <1>11 DEF GoodSections
<1> QED BY <1>12 DEF out, head, one, last

-----------------------------------------------------------------------------
(* The fields of the form. *)

LEMMA ListType ==
    ASSUME NEW list, IsList(list)
    PROVE  /\ Len(list) \in Nat /\ DOMAIN list = 1 .. Len(list)
           /\ \A T : (\A i \in 1 .. Len(list) : list[i] \in T) => list \in Seq(T)
<1>1. list \in Seq({list[i] : i \in DOMAIN list})
  BY DEF IsList
<1>2. Len(list) \in Nat /\ DOMAIN list = 1 .. Len(list)
  BY <1>1, LenProperties
<1> QED BY <1>1, <1>2, ElementsInSet

LEMMA SeqIsList ==
    ASSUME NEW S, NEW list \in Seq(S) PROVE IsList(list)
<1> DEFINE T == {list[i] : i \in DOMAIN list}
<1>1. \A i \in 1 .. Len(list) : list[i] \in T
  BY LenProperties
<1> HIDE DEF T
<1>2. list \in Seq(T)
  BY <1>1, ElementsInSet
<1> QED BY <1>2 DEF IsList, T

\* A list of fields that normalizing leaves as it is.
FixedFields(list) ==
    /\ IsFieldList(list)
    /\ Len(list) <= 6
    /\ \A i \in 1 .. Len(list) :
        /\ list[i].named /\ list[i].type # Junk
        /\ list[i].type = "text" \/ list[i].options >= 2
        /\ list[i].options <= 12
    /\ \A i, j \in 1 .. Len(list) : list[i].id = list[j].id => i = j

\* The part of a field that normalizing may change.
Capped(f) == [f EXCEPT !.options = IF f.options > 12 THEN 12 ELSE f.options]

LEMMA CappedField ==
    ASSUME NEW f, IsField(f)
    PROVE  /\ IsField(Capped(f)) /\ Capped(f).id = f.id /\ Capped(f).named = f.named
           /\ Capped(f).type = f.type /\ Capped(f).options <= 12
           /\ f.options >= 2 => Capped(f).options >= 2
           /\ f.options <= 12 => Capped(f) = f
<1> DEFINE cap == IF f.options > 12 THEN 12 ELSE f.options
<1>1. cap \in Nat /\ cap <= 12 /\ (f.options >= 2 => cap >= 2)
      /\ (f.options <= 12 => cap = f.options)
  BY DEF IsField
<1> HIDE DEF cap
<1>2. f = [id |-> f.id, named |-> f.named, type |-> f.type, options |-> f.options]
  BY DEF IsField, Field
<1>3. Capped(f) = [f EXCEPT !.options = cap]
  BY DEF Capped, cap
<1>4. Capped(f) = [id |-> f.id, named |-> f.named, type |-> f.type, options |-> cap]
  BY <1>2, <1>3
<1>5. IsField(Capped(f))
  BY <1>1, <1>4 DEF IsField, Field
<1>6. f.options <= 12 => Capped(f) = f
  BY <1>1, <1>2, <1>4
<1> QED BY <1>1, <1>4, <1>5, <1>6

\* The parts of NormalizeCustomFields.
FirstSix(list) == SubSeq(list, 1, IF Len(list) < 6 THEN Len(list) ELSE 6)

SeenBefore(first, i) ==
    \E j \in 1 .. i - 1 : first[j].id = first[i].id /\ first[j].named /\ first[j].type # Junk

Complete(first) ==
    {i \in 1 .. Len(first) :
        /\ first[i].named /\ first[i].type # Junk /\ ~SeenBefore(first, i)
        /\ first[i].type = "text" \/ first[i].options >= 2}

LEMMA NormalizeParts ==
    ASSUME NEW list
    PROVE  NormalizeCustomFields(list) =
              LET out == Picked(FirstSix(list), Complete(FirstSix(list)))
              IN  [i \in 1 .. Len(out) |-> Capped(out[i])]
BY DEF NormalizeCustomFields, FirstSix, SeenBefore, Complete, Capped

LEMMA FirstSixType ==
    ASSUME NEW list, IsFieldList(list)
    PROVE  /\ IsFieldList(FirstSix(list)) /\ Len(FirstSix(list)) <= 6
           /\ Len(list) <= 6 => FirstSix(list) = list
<1> DEFINE S == {list[i] : i \in DOMAIN list}
           n == IF Len(list) < 6 THEN Len(list) ELSE 6
           first == FirstSix(list)
<1>1. list \in Seq(S) /\ Len(list) \in Nat /\ \A i \in 1 .. Len(list) : IsField(list[i])
  BY ListType DEF IsFieldList, IsList
<1> HIDE DEF S
<1>2. n \in Nat /\ 1 <= 1 /\ 1 <= n + 1 /\ n <= Len(list) /\ n <= 6 /\ 1 \in Nat
      /\ (Len(list) <= 6 => n = Len(list))
  <2>1. Len(list) \in Nat
    BY <1>1
  <2>2. CASE Len(list) < 6
    BY <2>1, <2>2
  <2>3. CASE ~(Len(list) < 6)
    BY <2>1, <2>3
  <2> QED BY <2>2, <2>3
<1>3. first = SubSeq(list, 1, n)
  BY DEF FirstSix
<1> HIDE DEF n, first
<1>4. /\ first \in Seq(S) /\ Len(first) = n - 1 + 1
      /\ \A i \in 1 .. n - 1 + 1 : first[i] = list[1 + i - 1]
  <2>1. /\ SubSeq(list, 1, n) \in Seq(S) /\ Len(SubSeq(list, 1, n)) = n - 1 + 1
        /\ \A i \in 1 .. n - 1 + 1 : SubSeq(list, 1, n)[i] = list[1 + i - 1]
    BY <1>1, <1>2, PartOf
  <2> QED BY <1>3, <2>1
<1>5. Len(first) = n /\ \A i \in 1 .. n : first[i] = list[i]
  BY <1>2, <1>4
<1>6. IsFieldList(first)
  <2>1. IsList(first)
    BY <1>4, SeqIsList
  <2>2. \A i \in 1 .. Len(first) : IsField(first[i])
    BY <1>1, <1>2, <1>5
  <2> QED BY <2>1, <2>2 DEF IsFieldList
<1>7. Len(list) <= 6 => first = list
  BY <1>1, <1>2, <1>4, <1>5, SeqEqual
<1> QED BY <1>2, <1>5, <1>6, <1>7 DEF first

\* Normalizing makes fixed fields of any.
LEMMA NormalizeFixes ==
    ASSUME NEW list, IsFieldList(list)
    PROVE  FixedFields(NormalizeCustomFields(list))
<1> DEFINE first == FirstSix(list)
           S == {first[i] : i \in DOMAIN first}
           places == Complete(first)
           out == Picked(first, places)
           fields == [i \in 1 .. Len(out) |-> Capped(out[i])]
<1>1. NormalizeCustomFields(list) = fields
  BY NormalizeParts
<1>2. /\ first \in Seq(S) /\ Len(first) \in Nat /\ Len(first) <= 6
      /\ \A i \in 1 .. Len(first) : IsField(first[i])
  <2>1. IsFieldList(first) /\ Len(first) <= 6
    BY FirstSixType
  <2> HIDE DEF first
  <2> QED BY <2>1, ListType DEF IsFieldList, IsList
<1> HIDE DEF S, first
<1>3. places \in SUBSET (1 .. Len(first))
  BY DEF Complete
<1> HIDE DEF places
<1>4. out \in Seq(S) /\ Len(out) <= Len(first) /\ Keeps(out, first, places, Len(first))
  BY <1>2, <1>3, PickedKeeps
<1> HIDE DEF out
<1>5. PICK at \in [1 .. Len(out) -> places \cap (1 .. Len(first))] :
            /\ \A m, n \in 1 .. Len(out) : m < n => at[m] < at[n]
            /\ \A n \in 1 .. Len(out) : out[n] = first[at[n]]
  BY <1>4 DEF Keeps
<1>6. Len(out) \in Nat /\ Len(out) <= 6
  <2>1. Len(out) \in Nat
    BY <1>4, LenProperties
  <2> QED BY <1>2, <1>4, <2>1
<1>7. ASSUME NEW i \in 1 .. Len(out)
      PROVE  /\ IsField(out[i]) /\ out[i].named /\ out[i].type # Junk
             /\ out[i].type = "text" \/ out[i].options >= 2
  <2>1. at[i] \in places /\ at[i] \in 1 .. Len(first) /\ out[i] = first[at[i]]
    BY <1>5
  <2> QED BY <1>2, <2>1 DEF Complete, places
<1>8. ASSUME NEW i \in 1 .. Len(out), NEW j \in 1 .. Len(out), i < j
      PROVE  out[i].id # out[j].id
  <2>1. /\ at[i] \in places /\ at[j] \in places /\ at[i] \in 1 .. Len(first)
        /\ at[j] \in 1 .. Len(first) /\ at[i] < at[j]
        /\ out[i] = first[at[i]] /\ out[j] = first[at[j]]
    BY <1>5, <1>8
  <2>2. at[i] \in 1 .. at[j] - 1
    BY <1>2, <2>1
  <2>3. ~SeenBefore(first, at[j])
    BY <2>1 DEF Complete, places
  <2> QED BY <1>7, <2>1, <2>2, <2>3 DEF SeenBefore
<1>9. Len(fields) = Len(out) /\ IsList(fields)
  <2> DEFINE T == {Capped(out[i]) : i \in 1 .. Len(out)}
  <2>1. fields \in [1 .. Len(out) -> T]
    OBVIOUS
  <2> HIDE DEF T, fields
  <2>2. fields \in Seq(T) /\ Len(fields) = Len(out)
    BY <1>6, <2>1, ListOf
  <2> QED BY <2>2, SeqIsList
<1>10. ASSUME NEW i \in 1 .. Len(out)
       PROVE  /\ IsField(fields[i]) /\ fields[i].named /\ fields[i].type # Junk
              /\ fields[i].type = "text" \/ fields[i].options >= 2
              /\ fields[i].options <= 12 /\ fields[i].id = out[i].id
  <2>1. fields[i] = Capped(out[i])
    OBVIOUS
  <2> HIDE DEF fields
  <2> QED BY <1>7, <2>1, CappedField
<1> HIDE DEF fields
<1>11. ASSUME NEW i \in 1 .. Len(out), NEW j \in 1 .. Len(out), fields[i].id = fields[j].id
       PROVE  i = j
  <2>1. i < j \/ j < i \/ i = j
    BY <1>6
  <2>2. out[i].id = out[j].id
    BY <1>10, <1>11
  <2> QED BY <1>8, <2>1, <2>2
<1>12. FixedFields(fields)
  BY <1>6, <1>9, <1>10, <1>11 DEF FixedFields, IsFieldList
<1> QED BY <1>1, <1>12

\* Fixed fields stay as they are.
LEMMA FixedSame ==
    ASSUME NEW list, FixedFields(list)
    PROVE  NormalizeCustomFields(list) = list
<1> DEFINE S == {list[i] : i \in DOMAIN list}
           out == Picked(list, 1 .. Len(list))
           fields == [i \in 1 .. Len(list) |-> Capped(list[i])]
<1>1. list \in Seq(S) /\ Len(list) \in Nat /\ \A i \in 1 .. Len(list) : IsField(list[i])
  BY ListType DEF FixedFields, IsFieldList, IsList
<1> HIDE DEF S
<1>2. FirstSix(list) = list
  BY FirstSixType DEF FixedFields
<1>3. Complete(list) = 1 .. Len(list)
  <2>1. ASSUME NEW i \in 1 .. Len(list) PROVE ~SeenBefore(list, i)
    <3>1. \A j \in 1 .. i - 1 : j \in 1 .. Len(list) /\ j # i
      BY <1>1
    <3> QED BY <3>1 DEF SeenBefore, FixedFields
  <2>2. ASSUME NEW i \in 1 .. Len(list) PROVE i \in Complete(list)
    BY <2>1 DEF Complete, FixedFields
  <2> QED BY <2>2 DEF Complete
<1>4. out = list
  BY <1>1, PickedAll
<1>5. NormalizeCustomFields(list) = fields
  BY <1>2, <1>3, <1>4, NormalizeParts
<1>6. \A i \in 1 .. Len(list) : Capped(list[i]) = list[i]
  BY <1>1, CappedField DEF FixedFields
<1>7. fields = list
  <2>1. list = [i \in 1 .. Len(list) |-> list[i]]
    BY <1>1, LenProperties
  <2> QED BY <1>6, <2>1
<1> QED BY <1>5, <1>7

-----------------------------------------------------------------------------
(* The two readings of a configuration. *)

\* The paths that mergeWidgetConfig reads in a way of their own.
Special == {"header.elements.distribution", "form.fields.email", "layout.sections",
            "customFields"}

LEMMA PathNames ==
    /\ CheckedByEditor \subseteq DOMAIN ChoiceValues /\ DOMAIN ChoiceValues \subseteq Paths
    /\ Special \subseteq Paths /\ Special \cap DOMAIN ChoiceValues = {}
    /\ "header.title" \in Paths /\ "header.title" \notin Special \cup CheckedByEditor
    /\ "layout.player.enabled" \in Paths
    /\ "layout.player.enabled" \notin Special \cup CheckedByEditor
<1>1. DOMAIN ChoiceValues \subseteq Paths /\ Special \subseteq Paths /\ "header.title" \in Paths
      /\ "layout.player.enabled" \in Paths
  <2>1. /\ OnFlags \subseteq Paths /\ Titles \subseteq Paths /\ Lists \subseteq Paths
        /\ DOMAIN ChoiceValues \subseteq Paths
    BY DEF Paths
  <2>2. /\ "header.elements.distribution" \in OnFlags /\ "form.fields.email" \in OnFlags
        /\ "layout.player.enabled" \in OnFlags /\ "header.title" \in Titles
        /\ "layout.sections" \in Lists /\ "customFields" \in Lists
    BY DEF OnFlags, Titles, Lists
  <2> QED BY <2>1, <2>2 DEF Special
<1>2. CheckedByEditor \subseteq DOMAIN ChoiceValues /\ Special \cap DOMAIN ChoiceValues = {}
  BY DEF CheckedByEditor, Special, ChoiceValues
<1>3. /\ "header.title" \notin Special \cup CheckedByEditor
      /\ "layout.player.enabled" \notin Special \cup CheckedByEditor
  BY DEF CheckedByEditor, Special
<1> QED BY <1>1, <1>2, <1>3

LEMMA DefaultIs == \A path \in Paths : Default[path] = DefaultOf(path)
BY DEF Default

LEMMA DefaultIsChoice == \A path \in CheckedByEditor : Default[path] \in ChoiceValues[path]
<1>1. /\ Default["header.distribution.position"] \in ChoiceValues["header.distribution.position"]
      /\ Default["header.distribution.width"] \in ChoiceValues["header.distribution.width"]
      /\ Default["header.distribution.density"] \in ChoiceValues["header.distribution.density"]
      /\ Default["layout.loadMoreAction"] \in ChoiceValues["layout.loadMoreAction"]
      /\ Default["form.maxMedia"] \in ChoiceValues["form.maxMedia"]
  <2>1. \A path \in CheckedByEditor : Default[path] = DefaultOf(path)
    BY DefaultIs, PathNames
  <2>2. /\ Default["header.distribution.position"] = "auto"
        /\ Default["header.distribution.width"] = "compact"
        /\ Default["header.distribution.density"] = "compact"
        /\ Default["layout.loadMoreAction"] = "inline"
        /\ Default["form.maxMedia"] = 3
    <3>0. CheckedByEditor \cap (OnFlags \cup OffFlags \cup Titles) = {}
      BY DEF CheckedByEditor, OnFlags, OffFlags, Titles
    <3>1. DefaultOf("header.distribution.position") = "auto"
      BY <3>0 DEF DefaultOf, CheckedByEditor
    <3>2. DefaultOf("header.distribution.width") = "compact"
      BY <3>0 DEF DefaultOf, CheckedByEditor
    <3>3. DefaultOf("header.distribution.density") = "compact"
      BY <3>0 DEF DefaultOf, CheckedByEditor
    <3>4. DefaultOf("layout.loadMoreAction") = "inline"
      BY <3>0 DEF DefaultOf, CheckedByEditor
    <3>5. DefaultOf("form.maxMedia") = 3
      BY <3>0 DEF DefaultOf, CheckedByEditor
    <3> QED BY <2>1, <3>1, <3>2, <3>3, <3>4, <3>5 DEF CheckedByEditor
  <2>3. /\ ChoiceValues["header.distribution.position"] = {"auto", "beside", "below"}
        /\ ChoiceValues["header.distribution.width"] = {"compact", "full"}
        /\ ChoiceValues["header.distribution.density"] = {"compact", "normal"}
        /\ ChoiceValues["layout.loadMoreAction"] = {"inline", "dialog"}
        /\ ChoiceValues["form.maxMedia"] = {1, 3, 6}
    BY DEF ChoiceValues
  <2> QED BY <2>2, <2>3
<1> QED BY <1>1 DEF CheckedByEditor

LEMMA DefaultValues ==
    /\ Default["header.title"] = "default" /\ Default["customFields"] = <<>>
    /\ Default = [path \in Paths |-> Default[path]]
<1>1. Default = [path \in Paths |-> Default[path]]
  BY DEF Default
<1>2. Default["header.title"] = "default"
  <2>1. "header.title" \in Titles /\ "header.title" \notin OnFlags \cup OffFlags
    BY DEF Titles, OnFlags, OffFlags
  <2>2. DefaultOf("header.title") = "default"
    BY <2>1 DEF DefaultOf
  <2> QED BY <2>2, DefaultIs, PathNames
<1>3. Default["customFields"] = <<>>
  <2>1. "customFields" \notin OnFlags \cup OffFlags \cup Titles
    BY DEF Titles, OnFlags, OffFlags
  <2>2. DefaultOf("customFields") = <<>>
    BY <2>1 DEF DefaultOf
  <2> QED BY <2>2, DefaultIs, PathNames DEF Special
<1> QED BY <1>1, <1>2, <1>3

\* A choice as the editor reads it is one, one that is allowed stays, and it is
\* what the widget reads but for the path of ReadApart.
LEMMA EditorChoices ==
    ASSUME NEW raw, NEW path \in CheckedByEditor
    PROVE  /\ EditorChoice(raw, path) \in ChoiceValues[path]
           /\ path \in DOMAIN raw /\ raw[path] \in ChoiceValues[path]
                => EditorChoice(raw, path) = raw[path]
           /\ path \notin ReadApart(raw) => EditorChoice(raw, path) = ChoiceOf(raw, path)
<1>1. EditorChoice(raw, path) \in ChoiceValues[path]
  BY DefaultIsChoice DEF EditorChoice
<1>2. CASE path # "form.maxMedia"
  BY <1>1, <1>2 DEF EditorChoice, ChoiceOf
<1>3. CASE path = "form.maxMedia"
  <2>1. ChoiceValues[path] \subseteq Int
    BY <1>3 DEF ChoiceValues
  <2>2. EditorChoice(raw, path) =
            IF path \in DOMAIN raw /\ Number(raw[path]) \in ChoiceValues[path]
            THEN Number(raw[path]) ELSE Default[path]
    BY <1>3 DEF EditorChoice
  <2>3. raw[path] \notin DOMAIN Numeric => Number(raw[path]) = raw[path]
    BY DEF Number
  <2>4. path \notin ReadApart(raw) => path \notin DOMAIN raw \/ raw[path] \notin DOMAIN Numeric
    BY <1>3 DEF ReadApart
  <2>5. raw[path] \in ChoiceValues[path] => raw[path] \notin DOMAIN Numeric
    BY <2>1, NumericAssumption
  <2> QED BY <1>1, <2>2, <2>3, <2>4, <2>5 DEF ChoiceOf
<1> QED BY <1>2, <1>3

LEMMA MergeAt ==
    ASSUME NEW raw
    PROVE  /\ MergeWidgetConfig(raw) = [path \in Paths |-> MergeWidgetConfig(raw)[path]]
           /\ \A path \in CheckedByEditor : MergeWidgetConfig(raw)[path] = EditorChoice(raw, path)
           /\ MergeWidgetConfig(raw)["header.elements.distribution"] = DistributionElement(raw)
           /\ MergeWidgetConfig(raw)["form.fields.email"] = TRUE
           /\ MergeWidgetConfig(raw)["layout.sections"] = NormalizeSections(raw)
           /\ MergeWidgetConfig(raw)["customFields"] =
                NormalizeCustomFields(Given(raw, "customFields"))
           /\ \A path \in Paths \ (Special \cup CheckedByEditor) :
                MergeWidgetConfig(raw)[path] = Given(raw, path)
<1>1. MergeWidgetConfig(raw) = [path \in Paths |-> MergeWidgetConfig(raw)[path]]
  BY DEF MergeWidgetConfig
<1>2. \A path \in Paths : MergeWidgetConfig(raw)[path] =
        CASE path \in CheckedByEditor     -> EditorChoice(raw, path)
          [] path = "header.elements.distribution" -> DistributionElement(raw)
          [] path = "form.fields.email"   -> TRUE
          [] path = "layout.sections"     -> NormalizeSections(raw)
          [] path = "customFields"        -> NormalizeCustomFields(Given(raw, path))
          [] OTHER                        -> Given(raw, path)
  BY DEF MergeWidgetConfig
<1>3. Special \cap CheckedByEditor = {}
  BY PathNames
<1>4. \A path \in CheckedByEditor : MergeWidgetConfig(raw)[path] = EditorChoice(raw, path)
  BY <1>2, <1>3, PathNames DEF Special
<1>5. MergeWidgetConfig(raw)["header.elements.distribution"] = DistributionElement(raw)
  BY <1>2, <1>3, PathNames DEF Special
<1>6. MergeWidgetConfig(raw)["form.fields.email"] = TRUE
  BY <1>2, <1>3, PathNames DEF Special
<1>7. MergeWidgetConfig(raw)["layout.sections"] = NormalizeSections(raw)
  BY <1>2, <1>3, PathNames DEF Special
<1>8. MergeWidgetConfig(raw)["customFields"] =
        NormalizeCustomFields(Given(raw, "customFields"))
  BY <1>2, <1>3, PathNames DEF Special
<1>9. \A path \in Paths \ (Special \cup CheckedByEditor) :
        MergeWidgetConfig(raw)[path] = Given(raw, path)
  BY <1>2 DEF Special
<1> QED BY <1>1, <1>4, <1>5, <1>6, <1>7, <1>8, <1>9

\* A configuration as the server may hold one: its lists are lists.
IsStored(raw) ==
    /\ "layout.sections" \in DOMAIN raw => IsList(raw["layout.sections"])
    /\ "customFields" \in DOMAIN raw => IsFieldList(raw["customFields"])

\* A configuration as the editor holds one: complete, with the choices and the
\* sections it knows; the fields of the form may be incomplete.
Normal(c) ==
    /\ c = [path \in Paths |-> c[path]]
    /\ \A path \in CheckedByEditor : c[path] \in ChoiceValues[path]
    /\ c["form.fields.email"] = TRUE
    /\ GoodSections(c["layout.sections"])
    /\ IsFieldList(c["customFields"])

LEMMA NothingStored == IsStored(<<>>) /\ DOMAIN <<>> = {}
<1>1. DOMAIN <<>> = {}
  OBVIOUS
<1> QED BY <1>1 DEF IsStored

LEMMA NormalType == ASSUME NEW c, Normal(c) PROVE DOMAIN c = Paths /\ IsStored(c) /\ c # NoDraft
<1>1. DOMAIN c = Paths
  BY DEF Normal
<1>2. IsList(c["layout.sections"])
  BY SeqIsList DEF Normal, GoodSections
<1>3. c # NoDraft
  BY <1>1, NothingStored, PathNames DEF NoDraft
<1> QED BY <1>1, <1>2, <1>3 DEF Normal, IsStored

LEMMA GivenFields == ASSUME NEW raw, IsStored(raw) PROVE IsFieldList(Given(raw, "customFields"))
<1>1. IsFieldList(<<>>)
  <2>1. IsList(<<>>)
    BY EmptySeq, SeqIsList
  <2>2. Len(<<>>) = 0 /\ 1 .. 0 = {}
    OBVIOUS
  <2> QED BY <2>1, <2>2 DEF IsFieldList
<1> QED BY <1>1, DefaultValues DEF IsStored, Given

LEMMA SectionsGood == ASSUME NEW raw, IsStored(raw) PROVE GoodSections(NormalizeSections(raw))
<1>1. CASE "layout.sections" \in DOMAIN raw
  <2> DEFINE list == raw["layout.sections"]
             S == {list[i] : i \in DOMAIN list}
  <2>1. list \in Seq(S)
    BY <1>1 DEF IsStored, IsList
  <2> HIDE DEF S
  <2>2. GoodSections(KnownSections(list, {}))
    BY <2>1, KnownGood
  <2> QED BY <1>1, <2>2 DEF NormalizeSections
<1>2. CASE "layout.sections" \notin DOMAIN raw
  BY <1>2, KnownGood, DefaultSectionsType DEF NormalizeSections
<1> QED BY <1>1, <1>2

\* What the editor makes of any stored configuration is a configuration it
\* holds, with the title of the stored one.
LEMMA MergeNormal ==
    ASSUME NEW raw, IsStored(raw)
    PROVE  /\ Normal(MergeWidgetConfig(raw))
           /\ MergeWidgetConfig(raw)["header.title"] = Given(raw, "header.title")
<1> DEFINE m == MergeWidgetConfig(raw)
<1>1. m = [path \in Paths |-> m[path]]
  BY MergeAt
<1>2. \A path \in CheckedByEditor : m[path] \in ChoiceValues[path]
  BY MergeAt, EditorChoices
<1>3. m["form.fields.email"] = TRUE
  BY MergeAt
<1>4. GoodSections(m["layout.sections"])
  BY MergeAt, SectionsGood
<1>5. IsFieldList(m["customFields"])
  <2>1. m["customFields"] = NormalizeCustomFields(Given(raw, "customFields"))
    BY MergeAt
  <2>2. FixedFields(NormalizeCustomFields(Given(raw, "customFields")))
    BY GivenFields, NormalizeFixes
  <2> QED BY <2>1, <2>2 DEF FixedFields
<1>6. m["header.title"] = Given(raw, "header.title")
  BY MergeAt, PathNames
<1> QED BY <1>1, <1>2, <1>3, <1>4, <1>5, <1>6 DEF Normal

\* A draft that was stored comes back as it was.
LEMMA DraftRestored ==
    ASSUME NEW d, Normal(d), NEW merged
    PROVE  WithDraft(merged, d) = d
<1> DEFINE m == MergeWidgetConfig(d)
<1>1. DOMAIN d = Paths /\ d # NoDraft
  BY NormalType
<1>2. WithDraft(merged, d) = [m EXCEPT !["customFields"] = d["customFields"]]
  BY <1>1 DEF WithDraft
<1>3. m = [path \in Paths |-> m[path]]
  BY MergeAt
<1>4. \A path \in CheckedByEditor : m[path] = d[path]
  <2>1. \A path \in CheckedByEditor : m[path] = EditorChoice(d, path)
    BY MergeAt
  <2>2. \A path \in CheckedByEditor : path \in DOMAIN d /\ d[path] \in ChoiceValues[path]
    BY <1>1, PathNames DEF Normal
  <2> QED BY <2>1, <2>2, EditorChoices
<1>5. m["header.elements.distribution"] = d["header.elements.distribution"]
  BY <1>1, MergeAt, PathNames DEF DistributionElement, Special
<1>6. m["form.fields.email"] = d["form.fields.email"]
  BY MergeAt DEF Normal
<1>7. m["layout.sections"] = d["layout.sections"]
  <2>1. m["layout.sections"] = KnownSections(d["layout.sections"], {})
    BY <1>1, MergeAt, PathNames DEF NormalizeSections, Special
  <2> QED BY <2>1, KnownSame DEF Normal
<1>8. \A path \in Paths \ (Special \cup CheckedByEditor) : m[path] = d[path]
  BY <1>1, MergeAt DEF Given
<1> HIDE DEF m
<1>9. \A path \in Paths \ {"customFields"} : m[path] = d[path]
  BY <1>4, <1>5, <1>6, <1>7, <1>8 DEF Special
<1>10. d = [path \in Paths |-> d[path]]
  BY DEF Normal
<1>11. [m EXCEPT !["customFields"] = d["customFields"]] = [path \in Paths |-> d[path]]
  BY <1>3, <1>9
<1> QED BY <1>2, <1>10, <1>11

LEMMA NormalizeAt ==
    ASSUME NEW raw
    PROVE  /\ NormalizeConfig(raw) = [path \in Paths |-> NormalizeConfig(raw)[path]]
           /\ \A path \in DOMAIN ChoiceValues : NormalizeConfig(raw)[path] = ChoiceOf(raw, path)
           /\ NormalizeConfig(raw)["header.elements.distribution"] =
                (DistributionElement(raw) # FALSE)
           /\ NormalizeConfig(raw)["form.fields.email"] = TRUE
           /\ NormalizeConfig(raw)["layout.sections"] = NormalizeSections(raw)
           /\ NormalizeConfig(raw)["customFields"] =
                NormalizeCustomFields(Given(raw, "customFields"))
           /\ \A path \in Paths \ (DOMAIN ChoiceValues \cup Special) :
                NormalizeConfig(raw)[path] = NormalizedValue(path, Given(raw, path))
<1>1. NormalizeConfig(raw) = [path \in Paths |-> NormalizeConfig(raw)[path]]
  BY DEF NormalizeConfig
<1>2. \A path \in Paths : NormalizeConfig(raw)[path] =
        CASE path \in DOMAIN ChoiceValues      -> ChoiceOf(raw, path)
          [] path = "header.elements.distribution" -> DistributionElement(raw) # FALSE
          [] path = "form.fields.email"   -> TRUE
          [] path = "layout.sections"     -> NormalizeSections(raw)
          [] path = "customFields"        -> NormalizeCustomFields(Given(raw, path))
          [] OTHER                        -> NormalizedValue(path, Given(raw, path))
  BY DEF NormalizeConfig
<1>3. \A path \in DOMAIN ChoiceValues : NormalizeConfig(raw)[path] = ChoiceOf(raw, path)
  BY <1>2, PathNames DEF Special
<1>4. NormalizeConfig(raw)["header.elements.distribution"] = (DistributionElement(raw) # FALSE)
  BY <1>2, PathNames DEF Special
<1>5. NormalizeConfig(raw)["form.fields.email"] = TRUE
  BY <1>2, PathNames DEF Special
<1>6. NormalizeConfig(raw)["layout.sections"] = NormalizeSections(raw)
  BY <1>2, PathNames DEF Special
<1>7. NormalizeConfig(raw)["customFields"] =
        NormalizeCustomFields(Given(raw, "customFields"))
  BY <1>2, PathNames DEF Special
<1>8. \A path \in Paths \ (DOMAIN ChoiceValues \cup Special) :
        NormalizeConfig(raw)[path] = NormalizedValue(path, Given(raw, path))
  BY <1>2 DEF Special
<1> QED BY <1>1, <1>3, <1>4, <1>5, <1>6, <1>7, <1>8

\* Both readings agree: the site shows the same of a stored configuration and
\* of what the editor makes of it, but for the path of ReadApart.
LEMMA NormalizeMerge ==
    ASSUME NEW raw, IsStored(raw), NEW at \in Paths \ ReadApart(raw)
    PROVE  NormalizeConfig(MergeWidgetConfig(raw))[at] = NormalizeConfig(raw)[at]
<1> DEFINE m == MergeWidgetConfig(raw)
<1>1. Normal(m) /\ DOMAIN m = Paths
  BY MergeNormal, NormalType
<1>2. \A path \in Paths \ (Special \cup CheckedByEditor) : m[path] = Given(raw, path)
  BY MergeAt
<1>3. \A path \in Paths : Given(m, path) = m[path]
  BY <1>1 DEF Given
<1>4. \A path \in CheckedByEditor \ ReadApart(raw) : m[path] = ChoiceOf(raw, path)
  BY MergeAt, EditorChoices
<1>5. m["header.elements.distribution"] = DistributionElement(raw)
  BY MergeAt
<1>6. NormalizeSections(m) = NormalizeSections(raw)
  <2>1. m["layout.sections"] = NormalizeSections(raw)
    BY MergeAt
  <2>2. NormalizeSections(m) = KnownSections(m["layout.sections"], {})
    BY <1>1, PathNames DEF NormalizeSections, Special
  <2> QED BY <1>1, <2>1, <2>2, KnownSame DEF Normal
<1>7. NormalizeCustomFields(Given(m, "customFields")) =
        NormalizeCustomFields(Given(raw, "customFields"))
  <2>1. m["customFields"] = NormalizeCustomFields(Given(raw, "customFields"))
    BY MergeAt
  <2>2. FixedFields(NormalizeCustomFields(Given(raw, "customFields")))
    BY GivenFields, NormalizeFixes
  <2>3. Given(m, "customFields") = m["customFields"]
    BY <1>3, PathNames DEF Special
  <2> QED BY <2>1, <2>2, <2>3, FixedSame
<1> HIDE DEF m
<1>8. \A path \in DOMAIN ChoiceValues \ ReadApart(raw) : ChoiceOf(m, path) = ChoiceOf(raw, path)
  <2> SUFFICES ASSUME NEW path \in DOMAIN ChoiceValues \ ReadApart(raw)
               PROVE  ChoiceOf(m, path) = ChoiceOf(raw, path)
    OBVIOUS
  <2>1. CASE path \in CheckedByEditor
    <3>1. path \in DOMAIN m /\ m[path] \in ChoiceValues[path]
      BY <1>1, <2>1, PathNames DEF Normal
    <3> QED BY <1>4, <2>1, <3>1 DEF ChoiceOf
  <2>2. CASE path \notin CheckedByEditor
    <3>1. path \in DOMAIN m /\ m[path] = Given(raw, path)
      BY <1>1, <1>2, <2>2, PathNames
    <3> QED BY <3>1 DEF ChoiceOf, Given
  <2> QED BY <2>1, <2>2
<1>9. DistributionElement(m) = DistributionElement(raw)
  BY <1>1, <1>5, PathNames DEF DistributionElement, Special
<1>10. ASSUME NEW path \in Paths \ ReadApart(raw)
       PROVE  NormalizeConfig(m)[path] = NormalizeConfig(raw)[path]
  <2>1. CASE path \in DOMAIN ChoiceValues
    BY <1>8, <2>1, NormalizeAt
  <2>2. CASE path \in Special
    <3>1. NormalizeConfig(m)["header.elements.distribution"]
            = NormalizeConfig(raw)["header.elements.distribution"]
      BY <1>9, NormalizeAt
    <3>2. NormalizeConfig(m)["form.fields.email"] = NormalizeConfig(raw)["form.fields.email"]
      BY NormalizeAt
    <3>3. NormalizeConfig(m)["layout.sections"] = NormalizeConfig(raw)["layout.sections"]
      BY <1>6, NormalizeAt
    <3>4. NormalizeConfig(m)["customFields"] = NormalizeConfig(raw)["customFields"]
      BY <1>7, NormalizeAt
    <3> QED BY <2>2, <3>1, <3>2, <3>3, <3>4 DEF Special
  <2>3. CASE path \notin DOMAIN ChoiceValues \cup Special
    <3>1. Given(m, path) = Given(raw, path)
      BY <1>2, <1>3, <2>3, PathNames
    <3> QED BY <2>3, <3>1, NormalizeAt
  <2> QED BY <2>1, <2>2, <2>3
<1> QED BY <1>10 DEF m

-----------------------------------------------------------------------------
(* The panels: an edit of a configuration the editor holds gives another. *)

\* One value of a configuration is replaced.
LEMMA SetNormal ==
    ASSUME NEW c, Normal(c), NEW path \in Paths, NEW value,
           path \in CheckedByEditor => value \in ChoiceValues[path],
           path = "form.fields.email" => value = TRUE,
           path = "layout.sections" => GoodSections(value),
           path = "customFields" => IsFieldList(value)
    PROVE  /\ Normal(SetPath(c, path, value))
           /\ path # "header.title" => SetPath(c, path, value)["header.title"] = c["header.title"]
<1> DEFINE d == SetPath(c, path, value)
<1>1. c = [p \in Paths |-> c[p]]
  BY DEF Normal
<1>2. d = [p \in Paths |-> d[p]] /\ \A p \in Paths : d[p] = IF p = path THEN value ELSE c[p]
  BY <1>1 DEF SetPath
<1> HIDE DEF d
<1>3. \A p \in CheckedByEditor : d[p] \in ChoiceValues[p]
  BY <1>2, PathNames DEF Normal
<1>4. d["form.fields.email"] = TRUE
  BY <1>2, PathNames DEF Normal, Special
<1>5. GoodSections(d["layout.sections"])
  BY <1>2, PathNames DEF Normal, Special
<1>6. IsFieldList(d["customFields"])
  BY <1>2, PathNames DEF Normal, Special
<1>7. path # "header.title" => d["header.title"] = c["header.title"]
  BY <1>2, PathNames
<1> QED BY <1>2, <1>3, <1>4, <1>5, <1>6, <1>7 DEF Normal, d

LEMMA SetSections ==
    ASSUME NEW c, Normal(c), NEW list, GoodSections(list)
    PROVE  /\ Normal(SetPath(c, "layout.sections", list))
           /\ SetPath(c, "layout.sections", list)["header.title"] = c["header.title"]
BY SetNormal, PathNames DEF Special

LEMMA SetFields ==
    ASSUME NEW c, Normal(c), NEW list, IsFieldList(list)
    PROVE  /\ Normal(SetPath(c, "customFields", list))
           /\ SetPath(c, "customFields", list)["header.title"] = c["header.title"]
BY SetNormal, PathNames DEF Special

LEMMA SetValue ==
    ASSUME NEW c, Normal(c),
           NEW path \in Paths \ {"form.fields.email", "layout.sections", "customFields"},
           NEW value, path \in CheckedByEditor => value \in ChoiceValues[path]
    PROVE  /\ Normal(SetPath(c, path, value))
           /\ path # "header.title" => SetPath(c, path, value)["header.title"] = c["header.title"]
BY SetNormal

\* Values of two configurations differ only at paths without a rule here.
LEMMA PlainNormal ==
    ASSUME NEW c, Normal(c), NEW d, d = [path \in Paths |-> d[path]],
           \A path \in Special \cup CheckedByEditor : d[path] = c[path]
    PROVE  Normal(d)
<1>1. \A path \in CheckedByEditor : d[path] \in ChoiceValues[path]
  BY DEF Normal
<1> QED BY <1>1 DEF Normal, Special

LEMMA SectionNormal ==
    ASSUME NEW c, Normal(c), NEW id \in Sections \ {"list"}
    PROVE  Normal(ToggleSection(c, id)) /\ ToggleSection(c, id)["header.title"] = c["header.title"]
<1> DEFINE sections == c["layout.sections"]
           enable == ~Listed(sections, id)
           next == IF enable THEN Append(sections, id) ELSE Without(sections, id)
           one == SetPath(c, "layout.sections", next)
           player == IF id = "player" THEN enable ELSE one["layout.player.enabled"]
           two == SetPath(one, "layout.player.enabled", player)
<1>1. GoodSections(next)
  <2>1. GoodSections(sections) /\ sections \in Seq(Sections)
    BY DEF Normal, GoodSections
  <2>2. CASE enable
    <3>1. /\ \A i, j \in 1 .. Len(sections) : sections[i] = sections[j] => i = j
          /\ Listed(sections, "list") /\ ~Listed(sections, id) /\ id \in Sections
      BY <2>1, <2>2 DEF GoodSections
    <3> HIDE DEF sections
    <3>2. GoodSections(Append(sections, id))
      BY <2>1, <3>1, GoodAppended
    <3> QED BY <2>2, <3>2
  <2>3. CASE ~enable
    <3> HIDE DEF sections
    <3> QED BY <2>1, <2>3, WithoutGood
  <2> QED BY <2>2, <2>3
<1> HIDE DEF next
<1>2. Normal(one) /\ one["header.title"] = c["header.title"]
  BY <1>1, SetNormal, PathNames DEF Special
<1>3. ToggleSection(c, id) = two
  BY PathNames DEF ToggleSection, SetPath, next, Normal
<1> HIDE DEF one, player
<1>4. Normal(two) /\ two["header.title"] = one["header.title"]
  BY <1>2, SetNormal, PathNames DEF Special
<1> QED BY <1>2, <1>3, <1>4

LEMMA PlayerNormal ==
    ASSUME NEW c, Normal(c)
    PROVE  Normal(TogglePlayer(c)) /\ TogglePlayer(c)["header.title"] = c["header.title"]
<1> DEFINE sections == c["layout.sections"]
           enable == ~(c["layout.player.enabled"] = TRUE /\ Listed(sections, "player"))
           rest == Without(sections, "player")
           next == IF enable THEN Append(rest, "player") ELSE rest
           one == SetPath(c, "layout.sections", next)
           two == SetPath(one, "layout.player.enabled", enable)
<1>1. GoodSections(next)
  <2>1. GoodSections(sections)
    BY DEF Normal
  <2>2. GoodSections(rest) /\ ~Listed(rest, "player")
    BY <2>1, WithoutGood
  <2> HIDE DEF rest
  <2>3. /\ rest \in Seq(Sections) /\ Listed(rest, "list")
        /\ \A i, j \in 1 .. Len(rest) : rest[i] = rest[j] => i = j
    BY <2>2 DEF GoodSections
  <2>4. GoodSections(Append(rest, "player"))
    BY <2>2, <2>3, GoodAppended, SectionNames
  <2> QED BY <2>2, <2>4
<1>2. TogglePlayer(c) = two
  BY DEF TogglePlayer, SetPath
<1> HIDE DEF next, enable
<1>3. Normal(one) /\ one["header.title"] = c["header.title"]
  BY <1>1, SetNormal, PathNames DEF Special
<1> HIDE DEF one
<1>4. Normal(two) /\ two["header.title"] = one["header.title"]
  BY <1>3, SetNormal, PathNames DEF Special
<1> QED BY <1>2, <1>3, <1>4

LEMMA MoveNormal ==
    ASSUME NEW c, Normal(c), NEW from, NEW to
    PROVE  /\ Normal(MoveSection(c, from, to))
           /\ MoveSection(c, from, to)["header.title"] = c["header.title"]
<1> DEFINE sections == c["layout.sections"]
           rest == [i \in 1 .. Len(sections) - 1 |->
                        IF i < from THEN sections[i] ELSE sections[i + 1]]
           next == SubSeq(rest, 1, to - 1) \o <<sections[from]>> \o SubSeq(rest, to, Len(rest))
<1>1. CASE from \in 1 .. Len(sections) /\ to \in 1 .. Len(sections)
  <2>1. MoveSection(c, from, to) = SetPath(c, "layout.sections", next)
    BY <1>1 DEF MoveSection
  <2>2. GoodSections(sections)
    BY DEF Normal
  <2>3. GoodSections(next)
    <3>1. rest = [i \in 1 .. Len(sections) - 1 |->
                        IF i < from THEN sections[i] ELSE sections[i + 1]]
      OBVIOUS
    <3> HIDE DEF rest, sections
    <3> QED BY <1>1, <2>2, <3>1, MovedGood
  <2> HIDE DEF next
  <2> QED BY <2>1, <2>3, SetSections
<1>2. CASE ~(from \in 1 .. Len(sections) /\ to \in 1 .. Len(sections))
  BY <1>2 DEF MoveSection
<1> QED BY <1>1, <1>2

\* A field as CompleteField leaves it, named.
Completed(f, on) == [f EXCEPT !.named = on, !.options = 2]

LEMMA CompletedField ==
    ASSUME NEW f, IsField(f), NEW on \in BOOLEAN
    PROVE  IsField(Completed(f, on))
<1> DEFINE g == [f EXCEPT !.named = on]
<1>1. f = [id |-> f.id, named |-> f.named, type |-> f.type, options |-> f.options]
  BY DEF IsField, Field
<1>2. g = [id |-> f.id, named |-> on, type |-> f.type, options |-> f.options]
  BY <1>1
<1>3. Completed(f, on) = [g EXCEPT !.options = 2]
  BY DEF Completed
<1> HIDE DEF g
<1>4. Completed(f, on) = [id |-> f.id, named |-> on, type |-> f.type, options |-> 2]
  BY <1>2, <1>3
<1> QED BY <1>4 DEF IsField, Field

LEMMA FieldsNormal ==
    ASSUME NEW c, Normal(c)
    PROVE  /\ Normal(AddField(c)) /\ AddField(c)["header.title"] = c["header.title"]
           /\ Normal(CompleteField(c)) /\ CompleteField(c)["header.title"] = c["header.title"]
           /\ Normal(RemoveField(c)) /\ RemoveField(c)["header.title"] = c["header.title"]
<1> DEFINE fields == c["customFields"]
           n == Len(fields)
           new == Field(n + 1, FALSE, "select", 0)
           completed == [fields EXCEPT ![n].named = TRUE, ![n].options = 2]
<1>1. IsFieldList(fields) /\ n \in Nat
  BY ListType DEF Normal, IsFieldList
<1>2. \A i \in 1 .. n : IsField(fields[i])
  BY <1>1 DEF IsFieldList
<1>3. fields \in Seq({fields[i] : i \in DOMAIN fields}) /\ DOMAIN fields = 1 .. n
  BY <1>1, ListType DEF IsFieldList, IsList
<1> HIDE DEF fields
<1>4. IsFieldList(Append(fields, new))
  <2> DEFINE T == {fields[i] : i \in DOMAIN fields} \cup {new}
  <2>1. fields \in Seq(T) /\ new \in T
    <3>1. \A i \in 1 .. n : fields[i] \in T
      BY <1>3
    <3> HIDE DEF T, n
    <3>2. fields \in Seq(T)
      BY <1>3, <3>1, ElementsInSet DEF n
    <3> QED BY <3>2 DEF T
  <2> HIDE DEF T, new
  <2>2. /\ Append(fields, new) \in Seq(T) /\ Len(Append(fields, new)) = n + 1
        /\ \A i \in 1 .. n : Append(fields, new)[i] = fields[i]
        /\ Append(fields, new)[n + 1] = new
    BY <2>1, AppendProperties
  <2>3. IsField(new)
    BY DEF IsField, Field, new
  <2>4. ASSUME NEW i \in 1 .. n + 1 PROVE IsField(Append(fields, new)[i])
    <3>1. i = n + 1 \/ i \in 1 .. n
      BY <1>1
    <3> QED BY <1>2, <2>2, <2>3, <3>1
  <2> QED BY <2>2, <2>4, SeqIsList DEF IsFieldList
<1>5. ASSUME fields # <<>> PROVE IsFieldList(completed)
  <2> DEFINE last == [fields[n] EXCEPT !.named = TRUE, !.options = 2]
             T == {fields[i] : i \in DOMAIN fields} \cup {last}
  <2>1. n \in 1 .. n
    BY <1>1, <1>3, <1>5, EmptySeq
  <2>2. fields = [i \in 1 .. n |-> fields[i]]
    BY <1>3, LenProperties
  <2>3. completed = [i \in 1 .. n |-> IF i = n THEN last ELSE fields[i]]
    BY <2>1, <2>2
  <2>4. IsField(last)
    <3>1. last = Completed(fields[n], TRUE)
      BY DEF Completed
    <3> QED BY <1>2, <2>1, <3>1, CompletedField
  <2> HIDE DEF last, completed
  <2>5. completed \in [1 .. n -> T] /\ \A i \in 1 .. n : IsField(completed[i])
    BY <1>2, <1>3, <2>3, <2>4
  <2> HIDE DEF T, n
  <2>6. completed \in Seq(T) /\ Len(completed) = n
    BY <1>1, <2>5, ListOf
  <2> QED BY <2>5, <2>6, SeqIsList DEF IsFieldList
<1>6. ASSUME fields # <<>> PROVE IsFieldList(SubSeq(fields, 1, n - 1))
  <2> DEFINE T == {fields[i] : i \in DOMAIN fields}
             rest == SubSeq(fields, 1, n - 1)
  <2>1. n # 0
    BY <1>3, <1>5, <1>6, EmptySeq
  <2>2. n - 1 \in Nat /\ 1 \in Nat /\ 1 <= 1 /\ 1 <= n - 1 + 1 /\ n - 1 <= n
    BY <1>1, <2>1
  <2>3. fields \in Seq(T)
    BY <1>3
  <2> HIDE DEF T
  <2>4. /\ rest \in Seq(T) /\ Len(rest) = n - 1 - 1 + 1
        /\ \A i \in 1 .. n - 1 - 1 + 1 : rest[i] = fields[1 + i - 1]
    BY <2>2, <2>3, PartOf
  <2> HIDE DEF rest
  <2>5. Len(rest) = n - 1 /\ \A i \in 1 .. n - 1 : i \in 1 .. n /\ rest[i] = fields[i]
    BY <2>2, <2>4
  <2>6. IsFieldList(rest)
    BY <1>2, <2>4, <2>5, SeqIsList DEF IsFieldList
  <2> QED BY <2>6 DEF rest
<1> HIDE DEF completed
<1>7. Normal(AddField(c)) /\ AddField(c)["header.title"] = c["header.title"]
  <2>1. CASE n >= 6
    BY <2>1 DEF AddField, fields
  <2>2. CASE ~(n >= 6)
    <3>1. AddField(c) = SetPath(c, "customFields", Append(fields, new))
      BY <2>2 DEF AddField, fields
    <3> QED BY <1>4, <3>1, SetFields
  <2> QED BY <2>1, <2>2
<1>8. Normal(CompleteField(c)) /\ CompleteField(c)["header.title"] = c["header.title"]
  <2>1. CASE fields = <<>>
    BY <2>1 DEF CompleteField, fields
  <2>2. CASE fields # <<>>
    <3>1. CompleteField(c) = SetPath(c, "customFields", completed)
      BY <2>2 DEF CompleteField, fields, completed
    <3>2. IsFieldList(completed)
      BY <1>5, <2>2
    <3> QED BY <3>1, <3>2, SetFields
  <2> QED BY <2>1, <2>2
<1>9. Normal(RemoveField(c)) /\ RemoveField(c)["header.title"] = c["header.title"]
  <2>1. CASE fields = <<>>
    BY <2>1 DEF RemoveField, fields
  <2>2. CASE fields # <<>>
    <3>1. RemoveField(c) = SetPath(c, "customFields", SubSeq(fields, 1, n - 1))
      BY <2>2 DEF RemoveField, fields
    <3>2. IsFieldList(SubSeq(fields, 1, n - 1))
      BY <1>6, <2>2
    <3> QED BY <3>1, <3>2, SetFields
  <2> QED BY <2>1, <2>2
<1> QED BY <1>7, <1>8, <1>9

LEMMA PresetNormal ==
    ASSUME NEW c, Normal(c), NEW id
    PROVE  Normal(ApplyPreset(c, id)) /\ ApplyPreset(c, id)["header.title"] = c["header.title"]
<1> DEFINE d == ApplyPreset(c, id)
           touched == {"appearance.preset", "layout.mode", "layout.columns", "header.layout",
                       "form.ctaMode", "typography.radius", "typography.density",
                       "typography.scale", "theme"}
<1>1. c = [path \in Paths |-> c[path]]
  BY DEF Normal
<1>2. d = [path \in Paths |-> d[path]] /\ \A path \in Paths \ touched : d[path] = c[path]
  BY <1>1 DEF ApplyPreset
<1> HIDE DEF d
<1>3. \A path \in Special \cup CheckedByEditor \cup {"header.title"} : path \in Paths \ touched
  BY PathNames DEF Special, CheckedByEditor
<1>4. Normal(d)
  BY <1>2, <1>3, PlainNormal
<1> QED BY <1>2, <1>3, <1>4 DEF d

\* Whatever panel is used.
LEMMA EditNormal ==
    ASSUME NEW c, Normal(c), NEW e \in Edits
    PROVE  /\ Normal(Edit(c, e))
           /\ TitlesTell => Edit(c, e)["header.title"] = c["header.title"]
<1>1. CASE e[1] = "section"
  <2>1. Edit(c, e) = ToggleSection(c, e[2]) /\ e[2] \in Sections \ {"list"}
    BY <1>1, EditsAssumption DEF Edit
  <2> QED BY <2>1, SectionNormal
<1>2. CASE e[1] = "player"
  <2>1. Edit(c, e) = TogglePlayer(c)
    BY <1>2 DEF Edit
  <2> QED BY <2>1, PlayerNormal
<1>3. CASE e[1] = "move"
  <2>1. Edit(c, e) = MoveSection(c, e[2], e[3])
    BY <1>3 DEF Edit
  <2> QED BY <2>1, MoveNormal
<1>4. CASE e[1] = "preset"
  <2>1. Edit(c, e) = ApplyPreset(c, e[2])
    BY <1>4 DEF Edit
  <2> QED BY <2>1, PresetNormal
<1>5. CASE e[1] = "add"
  <2>1. Edit(c, e) = AddField(c)
    BY <1>5 DEF Edit
  <2> QED BY <2>1, FieldsNormal
<1>6. CASE e[1] = "complete"
  <2>1. Edit(c, e) = CompleteField(c)
    BY <1>6 DEF Edit
  <2> QED BY <2>1, FieldsNormal
<1>7. CASE e[1] = "remove"
  <2>1. Edit(c, e) = RemoveField(c)
    BY <1>7 DEF Edit
  <2> QED BY <2>1, FieldsNormal
<1>8. CASE e[1] = "flag"
  <2>1. Edit(c, e) = SetPath(c, e[2], c[e[2]] = FALSE)
    BY <1>8 DEF Edit, ToggleFlag
  <2>2. /\ e[2] \in Paths \ {"form.fields.email", "layout.sections", "customFields"}
        /\ e[2] \notin CheckedByEditor
        /\ TitlesTell => e[2] # "header.title"
    BY <1>8, EditsAssumption DEF TitlesTell
  <2> QED BY <2>1, <2>2, SetValue
<1>9. CASE e[1] = "set"
  <2>1. Edit(c, e) = SetPath(c, e[2], e[3])
    BY <1>9 DEF Edit
  <2>2. /\ e[2] \in Paths \ {"form.fields.email", "layout.sections", "customFields"}
        /\ e[2] \in CheckedByEditor => e[3] \in ChoiceValues[e[2]]
        /\ TitlesTell => e[2] # "header.title"
    BY <1>9, EditsAssumption DEF TitlesTell
  <2> QED BY <2>1, <2>2, SetValue
<1> QED BY <1>1, <1>2, <1>3, <1>4, <1>5, <1>6, <1>7, <1>8, <1>9, EditsAssumption

-----------------------------------------------------------------------------
(* The invariant.  Its first part is the shape of the state: what a load, an *)
(* operation and a closed editor consist of, and who waits for whom.         *)

IsServer ==
    /\ versions = [c \in Contexts |-> versions[c]]
    /\ active = [c \in Contexts |-> active[c]]
    /\ \A c \in Contexts : IsList(versions[c]) /\ active[c] \in 0 .. Len(versions[c])

IsPage ==
    /\ open \in BOOLEAN /\ loading \in BOOLEAN
    /\ context \in Contexts /\ loadedContext \in Contexts \cup {None}
    /\ (loading => open /\ loadedContext = None)

IsHistory == IsList(history) /\ Len(history) <= HistoryLimit

IsPreview ==
    /\ previewTimer \in BOOLEAN /\ DOMAIN preview = {"frame", "config", "mounted"}
    /\ preview.frame \in {"loading", "ready"}
    /\ preview.mounted # None => preview.frame = "ready"

\* A load, with what has been answered of it.
IsRequest(r, vs) ==
    /\ DOMAIN r = {"context", "current", "config", "versions"}
    /\ r.context \in Contexts /\ r.current \in BOOLEAN
    /\ r.versions # None => /\ r.versions.count \in 0 .. Len(vs[r.context])
                            /\ r.versions.active \in 0 .. Len(vs[r.context])

\* The newest load is the one of the context, and it is on its way as long as
\* the rail says so.
IsLoad ==
    /\ \A r \in requests :
        IsRequest(r, versions) /\ (r.current => r.context = context /\ loading)
    /\ \A r, s \in requests : r.current /\ s.current => r = s
    /\ loading => \E r \in requests : r.current

\* An operation names a version the server has, a publish once it is served.
IsOperation(o, vs) ==
    /\ o.kind \in {"publish", "rollback"}
    /\ o.context \in Contexts /\ o.reached \in BOOLEAN
    /\ {"kind", "context", "reached", "version"} \subseteq DOMAIN o
    /\ o.kind = "publish" => {"config", "untouched"} \subseteq DOMAIN o
    /\ o.kind = "rollback" => o.version \in 1 .. Len(vs[o.context])
    /\ o.kind = "publish" /\ o.reached =>
        /\ o.version \in 1 .. Len(vs[o.context])
        /\ vs[o.context][o.version] = o.config

\* It is under way for the loaded context.
IsUnderWay ==
    operation.kind # "none" =>
        IsOperation(operation, versions) /\ operation.context = context /\ Loaded /\ ~loading

\* The list of versions knows none the server does not have.
IsLive(l, c, vs) == l.count \in 0 .. Len(vs[c]) /\ l.active \in 0 .. Len(vs[c])

\* A publish that was served is not in the list yet.
IsCounted ==
    operation.kind = "publish" /\ operation.reached => live.count + 1 <= Len(versions[context])

IsBusy == IsUnderWay /\ IsLive(live, context, versions) /\ IsCounted

\* The open editor knows the contexts of the operations left behind.
IsOrphaned ==
    /\ foreign \subseteq Contexts
    /\ \A o \in orphans :
        /\ DOMAIN o = {"operation", "context", "cfg"}
        /\ IsOperation(o.operation, versions) /\ o.context = o.operation.context
        /\ open => o.context \in foreign

IsClosed ==
    ~open => /\ requests = {} /\ loadedContext = None /\ ~loading /\ history = <<>>
             /\ live = NoVersions /\ operation = NoOperation
             /\ ~previewTimer /\ preview = NewPreview

Shape ==
    IsServer /\ IsPage /\ IsHistory /\ IsPreview /\ IsLoad /\ IsBusy /\ IsOrphaned /\ IsClosed

\* The second part: every configuration is of the context it is found in.

\* Where the titles tell the contexts apart, its title is the context's.
Told(c, config) == TitlesTell => Titled(c, config)

\* A configuration the editor made for a context, and one stored for it.
Own(c, config) == Normal(config) /\ Told(c, config)
StoredFor(c, config) ==
    IsStored(config) /\ ("header.title" \in DOMAIN config => Told(c, config))

VersionsOwn == \A c \in Contexts : \A i \in 1 .. Len(versions[c]) : StoredFor(c, versions[c][i])

RequestsOwn == \A r \in requests : r.config # None => StoredFor(r.context, r.config)

DraftsOwn ==
    /\ drafts = [c \in Contexts |-> drafts[c]]
    /\ \A c \in Contexts : drafts[c] # NoDraft => Own(c, drafts[c])

HistoryOwns == \A i \in 1 .. Len(history) : Own(context, history[i])

EditorOwns ==
    /\ DOMAIN cfg = Paths /\ DOMAIN baseline = Paths
    /\ Loaded => Own(context, cfg) /\ Own(context, baseline) /\ Own(context, preview.config)

OperationOwns == operation.kind = "publish" => Own(context, operation.config)

OperationsOwn ==
    /\ OperationOwns
    /\ \A o \in orphans :
        Own(o.context, o.cfg) /\ (o.operation.kind = "publish" => Own(o.context, o.operation.config))

\* What is mounted for a context.
IsMounted(m, c) == DOMAIN m = {"context", "config"} /\ m.context = c

MountedOwns ==
    preview.mounted # None =>
        IsMounted(preview.mounted, context) /\ Told(context, preview.mounted.config)

Owned ==
    /\ VersionsOwn /\ RequestsOwn /\ DraftsOwn
    /\ HistoryOwns /\ EditorOwns /\ OperationsOwn /\ MountedOwns

\* The third: what is loaded came from the server, and the editor holds what
\* would come back.
Loads ==
    \A r \in requests :
        r.config # None =>
            r.config = <<>> \/ \E i \in 1 .. Len(versions[r.context]) :
                                    versions[r.context][i] = r.config

Kept == Loads /\ DraftIsKept

\* The fourth: without operations left behind, the baseline is the version the
\* list calls active.
LiveConfig == IF live.active = 0 THEN <<>> ELSE versions[context][live.active]

Lives ==
    context \notin foreign =>
        /\ \A r \in requests :
            /\ r.current /\ r.config # None => r.config = ActiveConfig(context)
            /\ r.current /\ r.versions # None => r.versions.active = active[context]
        /\ Loaded => baseline \in {MergeWidgetConfig(LiveConfig), LiveConfig}

\* The fifth: the preview follows.
Shown ==
    Loaded =>
        /\ ~previewTimer => preview.config = cfg
        /\ preview.frame = "ready" =>
            preview.mounted = [context |-> context, config |-> preview.config]

-----------------------------------------------------------------------------
(* The server only adds versions. *)

Grown(vs, ws) ==
    \A c \in Contexts :
        /\ Len(vs[c]) \in Nat /\ Len(ws[c]) \in Nat /\ Len(vs[c]) <= Len(ws[c])
        /\ \A i \in 1 .. Len(vs[c]) : ws[c][i] = vs[c][i]

LEMMA ListAppended ==
    ASSUME NEW list, IsList(list), NEW x
    PROVE  /\ IsList(Append(list, x)) /\ Len(list) \in Nat
           /\ Len(Append(list, x)) = Len(list) + 1
           /\ Append(list, x)[Len(list) + 1] = x
           /\ \A i \in 1 .. Len(list) : Append(list, x)[i] = list[i]
<1> DEFINE S == {list[i] : i \in DOMAIN list} \cup {x}
<1>1. list \in Seq(S) /\ x \in S
  <2>1. \A i \in 1 .. Len(list) : list[i] \in S
    BY ListType
  <2> HIDE DEF S
  <2>2. list \in Seq(S)
    BY <2>1, ListType
  <2> QED BY <2>2 DEF S
<1> HIDE DEF S
<1>2. /\ Append(list, x) \in Seq(S) /\ Len(Append(list, x)) = Len(list) + 1
      /\ Append(list, x)[Len(list) + 1] = x
      /\ \A i \in 1 .. Len(list) : Append(list, x)[i] = list[i]
  BY <1>1, AppendProperties
<1>3. IsList(Append(list, x))
  BY <1>2, SeqIsList
<1>4. Len(list) \in Nat
  BY ListType
<1> QED BY <1>2, <1>3, <1>4

\* What a publish or a rollback does to the server.
LEMMA ServeGrows ==
    ASSUME IsServer, NEW o, IsOperation(o, versions), Serve(o)
    PROVE  /\ IsServer' /\ Grown(versions, versions')
           /\ \A c \in Contexts \ {o.context} :
                versions'[c] = versions[c] /\ active'[c] = active[c]
           /\ o.kind = "publish" =>
                /\ Len(versions'[o.context]) = Len(versions[o.context]) + 1
                /\ versions'[o.context][Len(versions[o.context]) + 1] = o.config
<1> DEFINE list == versions[o.context]
<1>1. o.context \in Contexts /\ o.kind \in {"publish", "rollback"}
      /\ (o.kind = "rollback" => o.version \in 1 .. Len(versions[o.context]))
  BY DEF IsOperation
<1>2. /\ \A c \in Contexts : IsList(versions[c]) /\ Len(versions[c]) \in Nat
      /\ versions = [c \in Contexts |-> versions[c]] /\ active = [c \in Contexts |-> active[c]]
      /\ \A c \in Contexts : active[c] \in 0 .. Len(versions[c])
  BY ListType DEF IsServer
<1>3. CASE o.kind = "publish"
  <2>1. /\ versions' = [versions EXCEPT ![o.context] = Append(list, o.config)]
        /\ active' = [active EXCEPT ![o.context] = Len(versions'[o.context])]
    BY <1>3 DEF Serve
  <2>2. versions'[o.context] = Append(list, o.config)
        /\ \A c \in Contexts \ {o.context} : versions'[c] = versions[c] /\ active'[c] = active[c]
    BY <1>1, <1>2, <2>1
  <2>3. versions' = [c \in Contexts |-> versions'[c]] /\ active' = [c \in Contexts |-> active'[c]]
        /\ active'[o.context] = Len(versions'[o.context])
    BY <1>1, <1>2, <2>1
  <2>4. IsList(list)
    BY <1>1, <1>2
  <2> HIDE DEF list
  <2>5. /\ IsList(versions'[o.context]) /\ Len(list) \in Nat
        /\ Len(versions'[o.context]) = Len(list) + 1
        /\ versions'[o.context][Len(list) + 1] = o.config
        /\ \A i \in 1 .. Len(list) : versions'[o.context][i] = list[i]
    BY <2>2, <2>4, ListAppended
  <2>6. ASSUME NEW c \in Contexts
        PROVE  /\ IsList(versions'[c]) /\ active'[c] \in 0 .. Len(versions'[c])
               /\ Len(versions[c]) <= Len(versions'[c]) /\ Len(versions'[c]) \in Nat
               /\ \A i \in 1 .. Len(versions[c]) : versions'[c][i] = versions[c][i]
    <3>1. CASE c = o.context
      BY <2>3, <2>5, <3>1 DEF list
    <3>2. CASE c # o.context
      BY <1>2, <2>2, <3>2
    <3> QED BY <3>1, <3>2
  <2>7. IsServer'
    BY <2>3, <2>6 DEF IsServer
  <2>8. Grown(versions, versions')
    BY <1>2, <2>6 DEF Grown
  <2> QED BY <2>2, <2>5, <2>7, <2>8 DEF list
<1>4. CASE o.kind = "rollback"
  <2>1. active' = [active EXCEPT ![o.context] = o.version] /\ versions' = versions
    BY <1>4 DEF Serve
  <2>2. /\ active'[o.context] = o.version /\ active' = [c \in Contexts |-> active'[c]]
        /\ \A c \in Contexts \ {o.context} : active'[c] = active[c]
    BY <1>1, <1>2, <2>1
  <2>3. \A c \in Contexts : active'[c] \in 0 .. Len(versions[c])
    BY <1>1, <1>2, <1>4, <2>2
  <2>4. IsServer'
    BY <1>2, <2>1, <2>2, <2>3 DEF IsServer
  <2>5. Grown(versions, versions')
    BY <1>2, <2>1 DEF Grown
  <2> QED BY <1>4, <2>1, <2>2, <2>4, <2>5
<1> QED BY <1>1, <1>3, <1>4

LEMMA SameGrown == ASSUME IsServer PROVE Grown(versions, versions)
BY ListType DEF IsServer, Grown

\* An operation that fits goes on fitting.
LEMMA OperationFits ==
    ASSUME NEW o, NEW vs, NEW ws, IsOperation(o, vs), Grown(vs, ws)
    PROVE  IsOperation(o, ws)
<1>1. o.context \in Contexts
  BY DEF IsOperation
<1>2. /\ Len(vs[o.context]) \in Nat /\ Len(ws[o.context]) \in Nat
      /\ Len(vs[o.context]) <= Len(ws[o.context])
      /\ \A i \in 1 .. Len(vs[o.context]) : ws[o.context][i] = vs[o.context][i]
  BY <1>1 DEF Grown
<1>3. o.kind = "rollback" => o.version \in 1 .. Len(ws[o.context])
  BY <1>2 DEF IsOperation
<1>4. o.kind = "publish" /\ o.reached =>
        o.version \in 1 .. Len(ws[o.context]) /\ ws[o.context][o.version] = o.config
  BY <1>2 DEF IsOperation
<1> QED BY <1>3, <1>4 DEF IsOperation

\* What is left of an operation once the server has served it.
LEMMA ServedFits ==
    ASSUME IsServer, NEW o, IsOperation(o, versions), Serve(o)
    PROVE  /\ IsOperation(Served(o), versions') /\ Served(o).reached
           /\ Served(o).context = o.context /\ Served(o).kind = o.kind
           /\ o.kind = "publish" => Served(o).config = o.config
<1> DEFINE n == Len(versions[o.context]) + 1
           p == Served(o)
<1>1. /\ o.context \in Contexts /\ o.kind \in {"publish", "rollback"}
      /\ {"kind", "context", "reached", "version"} \subseteq DOMAIN o
      /\ (o.kind = "publish" => {"config", "untouched"} \subseteq DOMAIN o)
  BY DEF IsOperation
<1>2. Grown(versions, versions') /\ Len(versions[o.context]) \in Nat
  BY <1>1, ServeGrows DEF Grown
<1>3. CASE o.kind = "publish"
  <2>1. /\ Len(versions'[o.context]) = n /\ versions'[o.context][n] = o.config
    BY <1>3, ServeGrows
  <2>2. p = [o EXCEPT !.reached = TRUE, !.version = n]
    BY <1>3 DEF Served
  <2>3. /\ DOMAIN p = DOMAIN o /\ p.kind = o.kind /\ p.context = o.context
        /\ p.config = o.config /\ p.version = n
    BY <1>1, <1>3, <2>2
  <2>4. p.reached = TRUE
    BY <1>1, <1>3, <2>2
  <2> HIDE DEF p
  <2>5. n \in 1 .. n
    BY <1>2
  <2> HIDE DEF n
  <2>6. IsOperation(p, versions')
    BY <1>1, <1>3, <2>1, <2>3, <2>4, <2>5 DEF IsOperation
  <2> QED BY <2>3, <2>4, <2>6 DEF p
<1>4. CASE o.kind = "rollback"
  <2>1. p = [o EXCEPT !.reached = TRUE]
    BY <1>4 DEF Served
  <2>2. /\ DOMAIN p = DOMAIN o /\ p.kind = o.kind /\ p.context = o.context
        /\ p.version = o.version
    BY <1>1, <1>4, <2>1
  <2>3. p.reached = TRUE
    BY <1>1, <1>4, <2>1
  <2> HIDE DEF p
  <2>4. IsOperation(o, versions')
    BY <1>2, OperationFits
  <2>5. IsOperation(p, versions')
    BY <1>1, <1>4, <2>2, <2>3, <2>4 DEF IsOperation
  <2> QED BY <1>4, <2>2, <2>3, <2>5 DEF p
<1> QED BY <1>1, <1>3, <1>4

-----------------------------------------------------------------------------
(* Which steps change what. *)

LEMMA ServerSteps ==
    ASSUME Next
    PROVE  \/ UNCHANGED server
           \/ ServeOperation
           \/ \E o \in orphans : ServeOrphan(o)
BY DEF Next, Administrator, Answers, server, SelectContext, Patch, UndoDraft, ResetDraft, Publish,
       RetryLoad, Rollback, SwitchSource, Leave, Open, ServeConfig, ServeVersions, LoadAnswers,
       LoadFails, PublishAnswers, RollbackAnswers, OperationFails, OrphanAnswers, PreviewTimer,
       FrameLoads

LEMMA PageSteps ==
    ASSUME Next
    PROVE  \/ UNCHANGED page
           \/ \E c \in Contexts : SelectContext(c)
           \/ RetryLoad \/ Leave \/ Open \/ RollbackAnswers
           \/ \E r \in requests :
                ServeConfig(r) \/ ServeVersions(r) \/ LoadAnswers(r) \/ LoadFails(r)
BY DEF Next, Administrator, Answers, page, Patch, UndoDraft, ResetDraft, Publish,
       Rollback, SwitchSource, ServeOperation, PublishAnswers, OperationFails,
       ServeOrphan, OrphanAnswers, PreviewTimer, FrameLoads

LEMMA HistorySteps ==
    ASSUME Next
    PROVE  \/ UNCHANGED <<context, history>>
           \/ \E c \in Contexts : SelectContext(c)
           \/ \E e \in Edits : Patch(e)
           \/ RetryLoad \/ Leave \/ Open \/ RollbackAnswers
           \/ UndoDraft \/ ResetDraft \/ PublishAnswers
BY DEF Next, Administrator, Answers, page, draft, Publish, Rollback, SwitchSource, ServeOperation,
       OperationFails, ServeOrphan, OrphanAnswers, PreviewTimer, FrameLoads, ServeConfig,
       ServeVersions, LoadAnswers, LoadFails

LEMMA DraftSteps ==
    ASSUME Next
    PROVE  \/ UNCHANGED <<cfg, baseline, drafts>>
           \/ \E e \in Edits : Patch(e)
           \/ UndoDraft \/ ResetDraft \/ PublishAnswers \/ RollbackAnswers \/ Leave
           \/ \E r \in requests : LoadAnswers(r)
           \/ \E o \in orphans, ok \in BOOLEAN : OrphanAnswers(o, ok)
BY DEF Next, Administrator, Answers, page, draft, Publish, Rollback, SwitchSource, ServeOperation,
       OperationFails, ServeOrphan, PreviewTimer, FrameLoads, ServeConfig,
       ServeVersions, LoadFails, SelectContext, RetryLoad, Open

LEMMA OperationSteps ==
    ASSUME Next
    PROVE  \/ UNCHANGED <<operation, live>>
           \/ \E e \in Edits : Patch(e)
           \/ \E c \in Contexts : SelectContext(c)
           \/ \E v \in 1 .. live.count : Rollback(v)
           \/ \E r \in requests : LoadAnswers(r)
           \/ UndoDraft \/ Publish \/ Leave
           \/ ServeOperation \/ PublishAnswers \/ RollbackAnswers \/ OperationFails
BY DEF Next, Administrator, Answers, ResetDraft, SwitchSource, ServeOrphan, OrphanAnswers,
       PreviewTimer, FrameLoads, ServeConfig, ServeVersions, LoadFails, RetryLoad, Open

LEMMA PreviewSteps ==
    ASSUME Next
    PROVE  \/ UNCHANGED preview
           \/ \E c \in Contexts : SelectContext(c)
           \/ \E r \in requests : LoadAnswers(r)
           \/ SwitchSource \/ Leave \/ PreviewTimer \/ FrameLoads
BY DEF Next, Administrator, Answers, shown, Patch, UndoDraft, ResetDraft, Publish, Rollback,
       Open, ServeOperation, PublishAnswers, RollbackAnswers, OperationFails, ServeOrphan,
       OrphanAnswers, ServeConfig, ServeVersions, LoadFails, RetryLoad

LEMMA TimerSteps ==
    ASSUME Next
    PROVE  \/ UNCHANGED previewTimer
           \/ previewTimer' = TRUE
           \/ Leave \/ PreviewTimer
BY DEF Next, Administrator, Answers, shown, Patch, UndoDraft, ResetDraft, Publish, Rollback,
       Open, ServeOperation, PublishAnswers, RollbackAnswers, OperationFails, ServeOrphan,
       OrphanAnswers, ServeConfig, ServeVersions, LoadFails, RetryLoad, SelectContext,
       LoadAnswers, SwitchSource, FrameLoads, Panels, Loaded, page

LEMMA OrphanSteps ==
    ASSUME Next
    PROVE  \/ UNCHANGED orphans
           \/ Leave
           \/ \E o \in orphans : ServeOrphan(o)
           \/ \E o \in orphans, ok \in BOOLEAN : OrphanAnswers(o, ok)
BY DEF Next, Administrator, Answers, Patch, UndoDraft, ResetDraft, Publish, Rollback,
       Open, ServeOperation, PublishAnswers, RollbackAnswers, OperationFails,
       ServeConfig, ServeVersions, LoadFails, RetryLoad, SelectContext,
       LoadAnswers, SwitchSource, FrameLoads, PreviewTimer

LEMMA ForeignSteps ==
    ASSUME Next
    PROVE  UNCHANGED <<open, foreign>> \/ foreign' = {o.context : o \in orphans} \/ Leave
BY DEF Next, Administrator, Answers, Patch, UndoDraft, ResetDraft, Publish, Rollback,
       Open, ServeOperation, PublishAnswers, RollbackAnswers, OperationFails, ServeOrphan,
       OrphanAnswers, ServeConfig, ServeVersions, LoadFails, RetryLoad, SelectContext,
       LoadAnswers, SwitchSource, FrameLoads, PreviewTimer, Load, page

-----------------------------------------------------------------------------
(* The shape is kept. *)

LEMMA ServerStep ==
    ASSUME Shape, Next
    PROVE  IsServer' /\ Grown(versions, versions')
<1>1. CASE UNCHANGED server
  <2>1. versions' = versions /\ active' = active
    BY <1>1 DEF server
  <2>2. Grown(versions, versions) /\ IsServer
    BY SameGrown DEF Shape
  <2> QED BY <2>1, <2>2 DEF IsServer
<1>2. CASE ServeOperation
  <2>1. IsOperation(operation, versions) /\ Serve(operation) /\ IsServer
    BY <1>2 DEF ServeOperation, Shape, IsBusy, IsUnderWay
  <2> QED BY <2>1, ServeGrows
<1>3. ASSUME NEW o \in orphans, ServeOrphan(o)
      PROVE  IsServer' /\ Grown(versions, versions')
  <2>1. IsOperation(o.operation, versions) /\ Serve(o.operation) /\ IsServer
    BY <1>3 DEF ServeOrphan, Shape, IsOrphaned
  <2> QED BY <2>1, ServeGrows
<1> QED BY <1>1, <1>2, <1>3, ServerSteps

LEMMA PageStep ==
    ASSUME Shape, Next
    PROVE  IsPage'
<1>1. IsPage
  BY DEF Shape
<1>2. CASE UNCHANGED page
  BY <1>1, <1>2 DEF page, IsPage
<1>3. ASSUME NEW c \in Contexts, SelectContext(c) PROVE IsPage'
  BY <1>1, <1>3 DEF SelectContext, Load, IsPage, Idle
<1>4. CASE RetryLoad
  BY <1>1, <1>4 DEF RetryLoad, Load, IsPage, Idle
<1>5. CASE Leave
  BY <1>1, <1>5 DEF Leave, IsPage
<1>6. CASE Open
  BY <1>1, <1>6 DEF Open, Load, IsPage, Contexts
<1>7. CASE RollbackAnswers
  <2>1. open
    BY <1>7 DEF RollbackAnswers, Shape, IsBusy, IsUnderWay, Loaded
  <2> QED BY <1>1, <1>7, <2>1 DEF RollbackAnswers, Load, IsPage
<1>8. ASSUME NEW r \in requests, ServeConfig(r) \/ ServeVersions(r) PROVE IsPage'
  BY <1>1, <1>8 DEF ServeConfig, ServeVersions, IsPage
<1>9. ASSUME NEW r \in requests, LoadAnswers(r) PROVE IsPage'
  <2>1. r.context \in Contexts
    BY DEF Shape, IsLoad, IsRequest
  <2> QED BY <1>1, <1>9, <2>1 DEF LoadAnswers, IsPage
<1>10. ASSUME NEW r \in requests, LoadFails(r) PROVE IsPage'
  BY <1>1, <1>10 DEF LoadFails, IsPage
<1> QED BY <1>2, <1>3, <1>4, <1>5, <1>6, <1>7, <1>8, <1>9, <1>10, PageSteps

\* A list loses its first element or its last one.
LEMMA ListShortened ==
    ASSUME NEW list, IsList(list), list # <<>>
    PROVE  /\ Len(list) \in Nat \ {0}
           /\ IsList(Tail(list)) /\ Len(Tail(list)) = Len(list) - 1
           /\ \A i \in 1 .. Len(list) - 1 : Tail(list)[i] = list[i + 1]
           /\ IsList(SubSeq(list, 1, Len(list) - 1))
           /\ Len(SubSeq(list, 1, Len(list) - 1)) = Len(list) - 1
           /\ \A i \in 1 .. Len(list) - 1 : SubSeq(list, 1, Len(list) - 1)[i] = list[i]
<1> DEFINE S == {list[i] : i \in DOMAIN list}
           n == Len(list)
           rest == SubSeq(list, 1, n - 1)
<1>1. list \in Seq(S) /\ n \in Nat
  BY ListType DEF IsList
<1> HIDE DEF S
<1>2. n # 0
  BY <1>1, EmptySeq
<1>3. /\ Tail(list) \in Seq(S) /\ Len(Tail(list)) = n - 1
      /\ \A i \in 1 .. n - 1 : Tail(list)[i] = list[i + 1]
  BY <1>1, HeadTailProperties
<1>4. n - 1 \in Nat /\ 1 <= n - 1 + 1 /\ n - 1 <= n /\ n - 1 - 1 + 1 = n - 1
  BY <1>1, <1>2
<1>5. /\ rest \in Seq(S) /\ Len(rest) = n - 1 - 1 + 1
      /\ \A i \in 1 .. n - 1 - 1 + 1 : rest[i] = list[1 + i - 1]
  BY <1>1, <1>4, PartOf
<1> HIDE DEF rest, n
<1>6. Len(rest) = n - 1 /\ \A i \in 1 .. n - 1 : rest[i] = list[i]
  BY <1>4, <1>5
<1>7. IsList(rest) /\ IsList(Tail(list))
  BY <1>3, <1>5, SeqIsList
<1> QED BY <1>1, <1>2, <1>3, <1>6, <1>7 DEF rest, n

\* The history forgets its oldest step when it is full.
LEMMA PushedHistory ==
    ASSUME NEW h, IsList(h), Len(h) <= HistoryLimit, NEW c
    PROVE  /\ IsList(Pushed(h, c)) /\ Len(Pushed(h, c)) <= HistoryLimit
           /\ \A i \in 1 .. Len(Pushed(h, c)) :
                Pushed(h, c)[i] = c \/ \E j \in 1 .. Len(h) : Pushed(h, c)[i] = h[j]
<1>1. HistoryLimit \in Nat \ {0}
  BY EditorAssumption
<1>2. CASE Len(h) = HistoryLimit
  <2> DEFINE rest == Tail(h)
  <2>1. h # <<>>
    BY <1>1, <1>2, EmptySeq
  <2>2. /\ Len(h) \in Nat \ {0} /\ IsList(rest) /\ Len(rest) = Len(h) - 1
        /\ \A i \in 1 .. Len(h) - 1 : rest[i] = h[i + 1]
    BY <2>1, ListShortened
  <2>3. Pushed(h, c) = Append(rest, c)
    BY <1>2 DEF Pushed
  <2> HIDE DEF rest
  <2>4. /\ IsList(Append(rest, c)) /\ Len(Append(rest, c)) = Len(rest) + 1
        /\ Append(rest, c)[Len(rest) + 1] = c
        /\ \A i \in 1 .. Len(rest) : Append(rest, c)[i] = rest[i]
    BY <2>2, ListAppended
  <2>5. ASSUME NEW i \in 1 .. Len(h)
        PROVE  Append(rest, c)[i] = c \/ \E j \in 1 .. Len(h) : Append(rest, c)[i] = h[j]
    <3>1. CASE i = Len(h)
      BY <2>2, <2>4, <3>1
    <3>2. CASE i # Len(h)
      <4>1. i \in 1 .. Len(rest) /\ i \in 1 .. Len(h) - 1 /\ i + 1 \in 1 .. Len(h)
        BY <2>2, <3>2
      <4> QED BY <2>2, <2>4, <4>1
    <3> QED BY <3>1, <3>2
  <2> QED BY <1>1, <1>2, <2>2, <2>3, <2>4, <2>5
<1>3. CASE Len(h) # HistoryLimit
  <2>1. Pushed(h, c) = Append(h, c)
    BY <1>3 DEF Pushed
  <2>2. /\ IsList(Append(h, c)) /\ Len(h) \in Nat /\ Len(Append(h, c)) = Len(h) + 1
        /\ Append(h, c)[Len(h) + 1] = c
        /\ \A i \in 1 .. Len(h) : Append(h, c)[i] = h[i]
    BY ListAppended
  <2>3. \A i \in 1 .. Len(h) + 1 : i = Len(h) + 1 \/ i \in 1 .. Len(h)
    BY <2>2
  <2> QED BY <1>1, <1>3, <2>1, <2>2, <2>3
<1> QED BY <1>2, <1>3

LEMMA NothingListed == IsList(<<>>) /\ Len(<<>>) = 0
BY EmptySeq, SeqIsList

LEMMA HistoryStep ==
    ASSUME Shape, Next
    PROVE  IsHistory'
<1>1. IsHistory /\ HistoryLimit \in Nat \ {0}
  BY EditorAssumption DEF Shape
<1>2. CASE history' = <<>>
  BY <1>1, <1>2, NothingListed DEF IsHistory
<1>3. CASE history' = history
  BY <1>1, <1>3 DEF IsHistory
<1>4. CASE history' = Pushed(history, cfg)
  <2>1. IsList(history) /\ Len(history) <= HistoryLimit
    BY <1>1 DEF IsHistory
  <2> QED BY <1>4, <2>1, PushedHistory DEF IsHistory
<1>5. CASE UndoDraft
  <2>1. history # <<>> /\ history' = SubSeq(history, 1, Len(history) - 1)
    BY <1>5 DEF UndoDraft
  <2>2. /\ IsList(history') /\ Len(history') = Len(history) - 1 /\ Len(history) \in Nat \ {0}
    BY <1>1, <2>1, ListShortened DEF IsHistory
  <2>3. Len(history) <= HistoryLimit
    BY <1>1 DEF IsHistory
  <2>4. Len(history') <= HistoryLimit
    BY <1>1, <2>2, <2>3
  <2> QED BY <2>2, <2>4 DEF IsHistory
<1>6. \/ history' = <<>> \/ history' = history \/ history' = Pushed(history, cfg) \/ UndoDraft
  BY HistorySteps DEF SelectContext, Patch, RetryLoad, Leave, Open, RollbackAnswers, ResetDraft,
     PublishAnswers, Load, draft
<1> QED BY <1>2, <1>3, <1>4, <1>5, <1>6


\* The parts of a preview.
IsShown(p) == DOMAIN p = {"frame", "config", "mounted"}

\* A preview with one of its parts changed.
LEMMA PreviewParts ==
    ASSUME NEW p, IsShown(p), NEW x
    PROVE  /\ IsShown([p EXCEPT !.config = x])
           /\ [p EXCEPT !.config = x].config = x
           /\ [p EXCEPT !.config = x].frame = p.frame
           /\ [p EXCEPT !.config = x].mounted = p.mounted
           /\ IsShown([p EXCEPT !.mounted = x])
           /\ [p EXCEPT !.mounted = x].config = p.config
           /\ [p EXCEPT !.mounted = x].frame = p.frame
           /\ [p EXCEPT !.mounted = x].mounted = x
           /\ IsShown([p EXCEPT !.frame = x])
           /\ [p EXCEPT !.frame = x].config = p.config
           /\ [p EXCEPT !.frame = x].frame = x
           /\ [p EXCEPT !.frame = x].mounted = p.mounted
BY DEF IsShown

\* Mounting changes what is mounted, in a frame that is ready and for the
\* context that is loaded, and nothing else.
LEMMA MountParts ==
    ASSUME NEW p, IsShown(p), NEW loaded, NEW c
    PROVE  /\ IsShown(Mount(p, loaded, c))
           /\ Mount(p, loaded, c).frame = p.frame /\ Mount(p, loaded, c).config = p.config
           /\ p.frame # "ready" \/ loaded # c => Mount(p, loaded, c).mounted = p.mounted
<1>1. CASE p.frame # "ready" \/ loaded # c
  BY <1>1 DEF Mount
<1>2. CASE p.frame = "ready" /\ loaded = c /\ p.mounted = None
  <2> DEFINE m == [context |-> c, config |-> p.config]
  <2>1. Mount(p, loaded, c) = [p EXCEPT !.mounted = m]
    BY <1>2 DEF Mount
  <2> HIDE DEF m
  <2> QED BY <1>2, <2>1 DEF IsShown
<1>3. CASE p.frame = "ready" /\ loaded = c /\ p.mounted # None
  <2> DEFINE m == [p.mounted EXCEPT !.config = p.config]
  <2>1. Mount(p, loaded, c) = [p EXCEPT !.mounted = m]
    BY <1>3 DEF Mount
  <2> HIDE DEF m
  <2> QED BY <1>3, <2>1 DEF IsShown
<1> QED BY <1>1, <1>2, <1>3

LEMMA MountShows ==
    ASSUME NEW p, IsShown(p), NEW c, p.frame = "ready", p.mounted # None => IsMounted(p.mounted, c)
    PROVE  Mount(p, c, c).mounted = [context |-> c, config |-> p.config]
<1>1. CASE p.mounted = None
  <2>1. Mount(p, c, c) = [p EXCEPT !.mounted = [context |-> c, config |-> p.config]]
    BY <1>1 DEF Mount
  <2> QED BY <2>1 DEF IsShown
<1>2. CASE p.mounted # None
  <2> DEFINE m == [p.mounted EXCEPT !.config = p.config]
  <2>1. Mount(p, c, c) = [p EXCEPT !.mounted = m]
    BY <1>2 DEF Mount
  <2>2. m = [context |-> c, config |-> p.config]
    BY <1>2 DEF IsMounted
  <2> HIDE DEF m
  <2> QED BY <2>1, <2>2 DEF IsShown
<1> QED BY <1>1, <1>2

LEMMA PreviewStep ==
    ASSUME Shape, Next
    PROVE  IsPreview'
<1>1. IsPreview /\ IsPage
  BY DEF Shape
<1>2. previewTimer' \in BOOLEAN
  BY <1>1, TimerSteps DEF Leave, PreviewTimer, IsPreview
<1> DEFINE Fits(p) == /\ IsShown(p)
                      /\ p.frame \in {"loading", "ready"}
                      /\ p.mounted # None => p.frame = "ready"
<1>3. Fits(preview)
  BY <1>1 DEF IsPreview, IsShown
<1>4. ASSUME NEW p, Fits(p), NEW loaded, NEW c PROVE Fits(Mount(p, loaded, c))
  <2> DEFINE q == Mount(p, loaded, c)
  <2>1. /\ IsShown(p) /\ p.frame \in {"loading", "ready"}
        /\ (p.mounted # None => p.frame = "ready")
    BY <1>4
  <2>2. /\ IsShown(q) /\ q.frame = p.frame
        /\ (p.frame # "ready" => q.mounted = p.mounted)
    BY <2>1, MountParts
  <2> HIDE DEF q
  <2>3. Fits(q)
    BY <2>1, <2>2
  <2> QED BY <2>3 DEF q
<1>5. ASSUME NEW x PROVE Fits([preview EXCEPT !.config = x])
  BY <1>3, PreviewParts
<1>6. Fits([preview EXCEPT !.mounted = None])
  BY <1>3, PreviewParts
<1>7. Fits([preview EXCEPT !.frame = "ready"])
  BY <1>3, PreviewParts
<1>8. Fits([preview EXCEPT !.frame = "loading", !.mounted = None])
  BY <1>3 DEF IsShown
<1>9. Fits(NewPreview)
  BY DEF NewPreview, IsShown
<1> HIDE DEF Fits
<1>10. Fits(preview')
  <2>1. CASE UNCHANGED preview
    BY <1>3, <2>1
  <2>2. ASSUME NEW c \in Contexts, SelectContext(c) PROVE Fits(preview')
    BY <1>6, <2>2 DEF SelectContext
  <2>3. ASSUME NEW r \in requests, LoadAnswers(r) PROVE Fits(preview')
    <3>1. CASE r.current
      BY <1>4, <1>5, <2>3, <3>1 DEF LoadAnswers
    <3>2. CASE ~r.current
      BY <1>3, <2>3, <3>2 DEF LoadAnswers, shown
    <3> QED BY <3>1, <3>2
  <2>4. CASE SwitchSource
    BY <1>8, <2>4 DEF SwitchSource
  <2>5. CASE Leave
    BY <1>9, <2>5 DEF Leave
  <2>6. CASE PreviewTimer
    BY <1>4, <1>5, <2>6 DEF PreviewTimer
  <2>7. CASE FrameLoads
    BY <1>4, <1>7, <2>7 DEF FrameLoads
  <2> QED BY <2>1, <2>2, <2>3, <2>4, <2>5, <2>6, <2>7, PreviewSteps
<1> QED BY <1>2, <1>10 DEF IsPreview, Fits, IsShown


\* A request that fits goes on fitting; so do one that was answered and one
\* that another outdates.
LEMMA RequestFits ==
    ASSUME NEW r, NEW vs, NEW ws, IsRequest(r, vs), Grown(vs, ws)
    PROVE  IsRequest(r, ws)
BY DEF IsRequest, Grown

LEMMA RequestConfig ==
    ASSUME NEW r, NEW vs, IsRequest(r, vs), NEW x
    PROVE  /\ IsRequest([r EXCEPT !.config = x], vs)
           /\ [r EXCEPT !.config = x].context = r.context
           /\ [r EXCEPT !.config = x].current = r.current
           /\ [r EXCEPT !.config = x].config = x
           /\ [r EXCEPT !.config = x].versions = r.versions
BY DEF IsRequest

LEMMA RequestOutdated ==
    ASSUME NEW r, NEW vs, IsRequest(r, vs), NEW on \in BOOLEAN
    PROVE  /\ IsRequest([r EXCEPT !.current = on], vs)
           /\ [r EXCEPT !.current = on].context = r.context
           /\ [r EXCEPT !.current = on].current = on
           /\ [r EXCEPT !.current = on].config = r.config
           /\ [r EXCEPT !.current = on].versions = r.versions
BY DEF IsRequest

LEMMA RequestCounts ==
    ASSUME NEW r, NEW vs, IsRequest(r, vs), NEW x, x.count \in 0 .. Len(vs[r.context]),
           x.active \in 0 .. Len(vs[r.context])
    PROVE  /\ IsRequest([r EXCEPT !.versions = x], vs)
           /\ [r EXCEPT !.versions = x].context = r.context
           /\ [r EXCEPT !.versions = x].current = r.current
           /\ [r EXCEPT !.versions = x].config = r.config
           /\ [r EXCEPT !.versions = x].versions = x
BY DEF IsRequest

\* A new load of the context.
LEMMA LoadFits ==
    ASSUME Shape, IsServer', Grown(versions, versions'), Load(context'),
           context' \in Contexts
    PROVE  IsLoad'
<1> DEFINE Outdated(r) == [r EXCEPT !.current = FALSE]
           new == Request(context')
<1>1. requests' = {Outdated(r) : r \in requests} \cup {new} /\ loading' = TRUE
  BY DEF Load
<1>2. \A r \in requests : IsRequest(r, versions')
  BY RequestFits DEF Shape, IsLoad
<1>3. \A r \in requests : IsRequest(Outdated(r), versions') /\ ~Outdated(r).current
  BY <1>2, RequestOutdated
<1>4. /\ IsRequest(new, versions') /\ new.current /\ new.context = context'
  BY DEF Request, IsRequest
<1> HIDE DEF Outdated, new
<1>5. \A r \in requests' : IsRequest(r, versions') /\ (r.current => r = new)
  BY <1>1, <1>3, <1>4
<1>6. new \in requests'
  BY <1>1
<1>7. \A r, s \in requests' : r.current /\ s.current => r = s
  BY <1>5
<1>8. \A r \in requests' : IsRequest(r, versions') /\ (r.current => r.context = context' /\ loading')
  BY <1>1, <1>4, <1>5
<1> QED BY <1>4, <1>6, <1>7, <1>8 DEF IsLoad

\* One of two answers comes.
LEMMA AnswerFits ==
    ASSUME Shape, NEW r \in requests, NEW n, IsRequest(n, versions'),
           n.context = r.context, n.current = r.current, Grown(versions, versions'),
           requests' = (requests \ {r}) \cup {n}, context' = context, loading' = loading
    PROVE  IsLoad'
<1>1. /\ \A s \in requests : IsRequest(s, versions) /\ (s.current => s.context = context /\ loading)
      /\ \A s, t \in requests : s.current /\ t.current => s = t
      /\ loading => \E s \in requests : s.current
  BY DEF Shape, IsLoad
<1>2. \A s \in requests' : IsRequest(s, versions') /\ (s.current => s.context = context' /\ loading')
  <2>1. \A s \in requests : IsRequest(s, versions')
    BY <1>1, RequestFits
  <2> QED BY <1>1, <2>1
<1>3. \A s, t \in requests' : s.current /\ t.current => s = t
  BY <1>1
<1>4. loading' => \E s \in requests' : s.current
  BY <1>1
<1> QED BY <1>2, <1>3, <1>4 DEF IsLoad

LEMMA LoadStep ==
    ASSUME Shape, Next
    PROVE  IsLoad'
<1>1. /\ IsServer' /\ Grown(versions, versions') /\ IsPage'
  BY ServerStep, PageStep
<1>2. /\ \A r \in requests : IsRequest(r, versions) /\ (r.current => r.context = context /\ loading)
      /\ \A r, s \in requests : r.current /\ s.current => r = s
      /\ loading => \E r \in requests : r.current
  BY DEF Shape, IsLoad
<1>3. \A r \in requests : IsRequest(r, versions')
  BY <1>1, <1>2, RequestFits
<1>4. context' \in Contexts
  BY <1>1 DEF IsPage
<1>5. ASSUME Load(context') PROVE IsLoad'
  BY <1>1, <1>4, <1>5, LoadFits
<1>6. CASE UNCHANGED page
  <2>1. requests' = requests /\ context' = context /\ loading' = loading
    BY <1>6 DEF page
  <2> QED BY <1>2, <1>3, <2>1 DEF IsLoad
<1>7. ASSUME NEW c \in Contexts, SelectContext(c) PROVE IsLoad'
  BY <1>5, <1>7 DEF SelectContext
<1>8. CASE RetryLoad
  BY <1>5, <1>8 DEF RetryLoad
<1>9. CASE Leave
  BY <1>9 DEF Leave, IsLoad
<1>10. CASE Open
  BY <1>5, <1>10 DEF Open
<1>11. CASE RollbackAnswers
  <2>1. operation.context = context
    BY <1>11 DEF RollbackAnswers, Shape, IsBusy, IsUnderWay
  <2> QED BY <1>5, <1>11, <2>1 DEF RollbackAnswers
<1>12. ASSUME NEW r \in requests, ServeConfig(r) PROVE IsLoad'
  <2> DEFINE n == [r EXCEPT !.config = ActiveConfig(r.context)]
  <2>1. /\ requests' = (requests \ {r}) \cup {n} /\ context' = context /\ loading' = loading
    BY <1>12 DEF ServeConfig
  <2>2. IsRequest(n, versions') /\ n.context = r.context /\ n.current = r.current
    BY <1>3, RequestConfig
  <2> HIDE DEF n
  <2> QED BY <1>1, <2>1, <2>2, AnswerFits
<1>13. ASSUME NEW r \in requests, ServeVersions(r) PROVE IsLoad'
  <2> DEFINE x == [count |-> Len(versions[r.context]), active |-> active[r.context]]
             n == [r EXCEPT !.versions = x]
  <2>1. /\ requests' = (requests \ {r}) \cup {n} /\ context' = context /\ loading' = loading
        /\ versions' = versions
    BY <1>13 DEF ServeVersions, server
  <2>2. x.count \in 0 .. Len(versions[r.context]) /\ x.active \in 0 .. Len(versions[r.context])
    <3>1. r.context \in Contexts
      BY <1>2 DEF IsRequest
    <3>2. Len(versions[r.context]) \in Nat /\ active[r.context] \in 0 .. Len(versions[r.context])
      BY <3>1, ListType DEF Shape, IsServer
    <3> QED BY <3>2
  <2> HIDE DEF x
  <2>3. IsRequest(n, versions') /\ n.context = r.context /\ n.current = r.current
    BY <1>2, <2>1, <2>2, RequestCounts
  <2> HIDE DEF n
  <2> QED BY <1>1, <2>1, <2>3, AnswerFits
<1>14. ASSUME NEW r \in requests, LoadAnswers(r) PROVE IsLoad'
  <2>1. /\ requests' = requests \ {r} /\ context' = context
        /\ loading' = IF r.current THEN FALSE ELSE loading
    BY <1>14 DEF LoadAnswers
  <2> QED BY <1>2, <1>3, <2>1 DEF IsLoad
<1>15. ASSUME NEW r \in requests, LoadFails(r) PROVE IsLoad'
  <2>1. /\ requests' = requests \ {r} /\ context' = context
        /\ loading' = (loading /\ ~r.current)
    BY <1>15 DEF LoadFails
  <2> QED BY <1>2, <1>3, <2>1 DEF IsLoad
<1> QED BY <1>6, <1>7, <1>8, <1>9, <1>10, <1>11, <1>12, <1>13, <1>14, <1>15, PageSteps


\* As long as an operation is under way the page stays as it is, unless it is
\* left or a rollback is answered.
LEMMA BusyPage ==
    ASSUME Shape, Next, operation.kind # "none"
    PROVE  /\ context' = context
           /\ Leave \/ RollbackAnswers \/ UNCHANGED <<open, loadedContext, loading>>
<1>1. Loaded /\ ~loading /\ operation.context = context /\ ~Idle
  BY DEF Shape, IsBusy, IsUnderWay, Idle
<1>2. \A r \in requests : ~r.current
  BY <1>1 DEF Shape, IsLoad
<1>3. CASE UNCHANGED page
  BY <1>3 DEF page
<1>4. ASSUME NEW c \in Contexts, SelectContext(c) PROVE FALSE
  BY <1>1, <1>4 DEF SelectContext
<1>5. ~RetryLoad /\ ~Open
  BY <1>1 DEF RetryLoad, Open, Loaded
<1>6. CASE Leave
  BY <1>6 DEF Leave
<1>7. CASE RollbackAnswers
  BY <1>7 DEF RollbackAnswers
<1>8. ASSUME NEW r \in requests, ServeConfig(r) \/ ServeVersions(r)
      PROVE  UNCHANGED <<context, open, loadedContext, loading>>
  BY <1>8 DEF ServeConfig, ServeVersions
<1>9. ASSUME NEW r \in requests, LoadAnswers(r)
      PROVE  UNCHANGED <<context, open, loadedContext, loading>>
  BY <1>2, <1>9 DEF LoadAnswers
<1>10. ASSUME NEW r \in requests, LoadFails(r)
       PROVE  UNCHANGED <<context, open, loadedContext>> /\ loading' = (loading /\ ~r.current)
  BY <1>10 DEF LoadFails
<1>11. loading = FALSE
  BY <1>1 DEF Shape, IsPage
<1> QED BY <1>3, <1>4, <1>5, <1>6, <1>7, <1>8, <1>9, <1>10, <1>11, PageSteps

\* The context changes with the list of versions emptied, or empty.
LEMMA ContextSteps ==
    ASSUME Shape, Next
    PROVE  context' = context \/ live' = NoVersions
<1>1. CASE UNCHANGED page
  BY <1>1 DEF page
<1>2. ASSUME NEW c \in Contexts, SelectContext(c) PROVE live' = NoVersions
  BY <1>2 DEF SelectContext
<1>3. CASE RetryLoad
  BY <1>3 DEF RetryLoad
<1>4. CASE Leave
  BY <1>4 DEF Leave
<1>5. CASE Open
  BY <1>5 DEF Open, Shape, IsClosed
<1>6. CASE RollbackAnswers
  BY <1>6 DEF RollbackAnswers
<1>7. ASSUME NEW r \in requests,
             ServeConfig(r) \/ ServeVersions(r) \/ LoadAnswers(r) \/ LoadFails(r)
      PROVE  context' = context
  BY <1>7 DEF ServeConfig, ServeVersions, LoadAnswers, LoadFails
<1> QED BY <1>1, <1>2, <1>3, <1>4, <1>5, <1>6, <1>7, PageSteps

LEMMA LiveStep ==
    ASSUME Shape, Next
    PROVE  IsLive(live', context', versions')
<1>1. IsServer' /\ Grown(versions, versions') /\ IsPage'
  BY ServerStep, PageStep
<1>2. /\ context \in Contexts /\ context' \in Contexts
      /\ Len(versions[context]) \in Nat /\ Len(versions'[context]) \in Nat
      /\ Len(versions'[context']) \in Nat /\ Len(versions[context]) <= Len(versions'[context])
  BY <1>1 DEF Grown, Shape, IsPage
<1>3. IsLive(live, context, versions)
  BY DEF Shape, IsBusy
<1>4. IsLive(live, context, versions')
  BY <1>2, <1>3 DEF IsLive
<1>5. ASSUME live' = NoVersions PROVE IsLive(live', context', versions')
  BY <1>2, <1>5 DEF IsLive, NoVersions
<1>6. ASSUME live' = live PROVE IsLive(live', context', versions')
  BY <1>4, <1>5, <1>6, ContextSteps
<1>7. CASE UNCHANGED <<operation, live>>
  BY <1>6, <1>7
<1>8. ASSUME NEW e \in Edits, Patch(e) PROVE IsLive(live', context', versions')
  BY <1>6, <1>8 DEF Patch
<1>9. ASSUME NEW c \in Contexts, SelectContext(c) PROVE IsLive(live', context', versions')
  BY <1>5, <1>9 DEF SelectContext
<1>10. ASSUME NEW v \in 1 .. live.count, Rollback(v) PROVE IsLive(live', context', versions')
  BY <1>6, <1>10 DEF Rollback
<1>11. ASSUME NEW r \in requests, LoadAnswers(r) PROVE IsLive(live', context', versions')
  <2>1. CASE r.current
    <3>1. live' = r.versions /\ r.versions # None /\ context' = context /\ versions' = versions
      BY <1>11, <2>1 DEF LoadAnswers, server
    <3>2. IsRequest(r, versions) /\ r.context = context
      BY <2>1 DEF Shape, IsLoad
    <3> QED BY <3>1, <3>2 DEF IsRequest, IsLive
  <2>2. CASE ~r.current
    BY <1>6, <1>11, <2>2 DEF LoadAnswers
  <2> QED BY <2>1, <2>2
<1>12. CASE UndoDraft \/ Publish \/ ServeOperation \/ RollbackAnswers \/ OperationFails
  BY <1>6, <1>12 DEF UndoDraft, Publish, ServeOperation, RollbackAnswers, OperationFails
<1>13. CASE Leave
  BY <1>5, <1>13 DEF Leave
<1>14. CASE PublishAnswers
  <2>1. /\ operation.kind = "publish" /\ operation.reached /\ context' = context
        /\ live' = [count |-> live.count + 1, active |-> operation.version] /\ versions' = versions
    BY <1>14 DEF PublishAnswers, page, server
  <2>2. /\ IsOperation(operation, versions) /\ operation.context = context
        /\ live.count + 1 <= Len(versions[context])
    BY <2>1 DEF Shape, IsBusy, IsUnderWay, IsCounted
  <2>3. operation.version \in 1 .. Len(versions[context])
    BY <2>1, <2>2 DEF IsOperation
  <2> QED BY <1>2, <1>3, <2>1, <2>2, <2>3 DEF IsLive
<1> QED BY <1>7, <1>8, <1>9, <1>10, <1>11, <1>12, <1>13, <1>14, OperationSteps

\* An edit during a publish.
LEMMA TouchedFits ==
    ASSUME NEW vs, operation.kind # "none" => IsOperation(operation, vs)
    PROVE  /\ Touched.kind = operation.kind
           /\ operation.kind # "none" =>
                /\ IsOperation(Touched, vs) /\ Touched.context = operation.context
                /\ Touched.reached = operation.reached /\ Touched.version = operation.version
           /\ operation.kind = "publish" => Touched.config = operation.config
<1>1. CASE operation.kind = "publish"
  <2>1. Touched = [operation EXCEPT !.untouched = FALSE]
    BY <1>1 DEF Touched
  <2>2. {"kind", "context", "reached", "version", "config", "untouched"} \subseteq DOMAIN operation
    BY <1>1 DEF IsOperation
  <2>3. /\ DOMAIN Touched = DOMAIN operation /\ Touched.kind = operation.kind
        /\ Touched.context = operation.context /\ Touched.reached = operation.reached
        /\ Touched.version = operation.version /\ Touched.config = operation.config
    BY <2>1, <2>2
  <2>4. IsOperation(Touched, vs)
    BY <1>1, <2>3 DEF IsOperation
  <2> QED BY <2>3, <2>4
<1>2. CASE operation.kind # "publish"
  BY <1>2 DEF Touched
<1> QED BY <1>1, <1>2


LEMMA BusyStep ==
    ASSUME Shape, Next
    PROVE  IsBusy'
<1>1. IsServer' /\ Grown(versions, versions') /\ IsServer /\ IsPage
  BY ServerStep DEF Shape
<1>2. /\ operation.kind # "none" =>
            IsOperation(operation, versions) /\ operation.context = context /\ Loaded /\ ~loading
      /\ IsLive(live, context, versions)
      /\ operation.kind = "publish" /\ operation.reached =>
            live.count + 1 <= Len(versions[context])
  BY DEF Shape, IsBusy, IsUnderWay, IsCounted
<1>3. IsLive(live', context', versions')
  BY LiveStep
<1> SUFFICES IsUnderWay' /\ IsCounted'
  BY <1>3 DEF IsBusy
<1>4. /\ context \in Contexts /\ Len(versions[context]) \in Nat /\ live.count \in Nat
      /\ Len(versions'[context]) \in Nat /\ Len(versions[context]) <= Len(versions'[context])
  BY <1>1, <1>2 DEF IsPage, IsLive, Grown
<1>5. ASSUME operation'.kind = "none" PROVE IsUnderWay' /\ IsCounted'
  BY <1>5 DEF IsUnderWay, IsCounted
\* An operation that goes on.
<1>6. ASSUME operation.kind # "none", operation'.kind # "none",
             IsOperation(operation', versions'), operation'.context = operation.context
      PROVE  IsUnderWay' /\ context' = context
  <2>1. ~Leave /\ ~RollbackAnswers
    BY <1>6 DEF Leave, RollbackAnswers, NoOperation
  <2>2. UNCHANGED <<context, open, loadedContext, loading>>
    BY <1>6, <2>1, BusyPage
  <2> QED BY <1>2, <1>6, <2>2 DEF IsUnderWay, Loaded
\* One that starts.
<1>7. ASSUME Panels, UNCHANGED <<open, context, loadedContext, loading>>,
             IsOperation(operation', versions'), operation'.context = context,
             operation'.reached = FALSE
      PROVE  IsUnderWay' /\ IsCounted'
  BY <1>7 DEF IsUnderWay, IsCounted, Panels, Loaded
<1>8. CASE UNCHANGED <<operation, live>>
  <2>1. CASE operation.kind = "none"
    BY <1>5, <1>8, <2>1
  <2>2. CASE operation.kind # "none"
    <3>1. IsOperation(operation, versions')
      BY <1>1, <1>2, <2>2, OperationFits
    <3>2. IsUnderWay' /\ context' = context
      BY <1>6, <1>8, <2>2, <3>1
    <3> QED BY <1>2, <1>4, <1>8, <3>2 DEF IsCounted
  <2> QED BY <2>1, <2>2
<1>9. ASSUME operation' = Touched, UNCHANGED <<live, versions>> PROVE IsUnderWay' /\ IsCounted'
  <2>1. CASE operation.kind = "none"
    BY <1>5, <1>9, <2>1 DEF Touched
  <2>2. CASE operation.kind # "none"
    <3>1. /\ operation'.kind = operation.kind /\ IsOperation(operation', versions')
          /\ operation'.context = operation.context /\ operation'.reached = operation.reached
      <4>1. IsOperation(operation, versions')
        BY <1>2, <1>9, <2>2
      <4> QED BY <1>9, <2>2, <4>1, TouchedFits
    <3>2. IsUnderWay' /\ context' = context
      BY <1>6, <2>2, <3>1
    <3> QED BY <1>2, <1>9, <3>1, <3>2 DEF IsCounted
  <2> QED BY <2>1, <2>2
<1>10. ASSUME NEW e \in Edits, Patch(e) PROVE IsUnderWay' /\ IsCounted'
  BY <1>9, <1>10 DEF Patch, server
<1>11. ASSUME NEW c \in Contexts, SelectContext(c) PROVE IsUnderWay' /\ IsCounted'
  BY <1>5, <1>11 DEF SelectContext, Idle
<1>12. ASSUME NEW v \in 1 .. live.count, Rollback(v) PROVE IsUnderWay' /\ IsCounted'
  <2>1. /\ Panels /\ UNCHANGED <<open, context, loadedContext, loading, versions>>
        /\ operation' = [kind |-> "rollback", context |-> context, version |-> v, reached |-> FALSE]
    BY <1>12 DEF Rollback, page, server
  <2>2. v \in 1 .. Len(versions'[context])
    BY <1>2, <1>4, <2>1 DEF IsLive
  <2>3. IsOperation(operation', versions')
    BY <1>4, <2>1, <2>2 DEF IsOperation
  <2> QED BY <1>7, <2>1, <2>3
<1>13. ASSUME NEW r \in requests, LoadAnswers(r) PROVE IsUnderWay' /\ IsCounted'
  <2>1. operation' = operation /\ versions' = versions
    BY <1>13 DEF LoadAnswers, server
  <2>2. CASE operation.kind = "none"
    BY <1>5, <2>1, <2>2
  <2>3. CASE operation.kind # "none"
    <3>1. IsUnderWay' /\ context' = context
      BY <1>2, <1>6, <2>1, <2>3
    <3>2. ~r.current
      BY <1>2, <2>3 DEF Shape, IsLoad
    <3>3. live' = live
      BY <1>13, <3>2 DEF LoadAnswers
    <3> QED BY <1>2, <2>1, <3>1, <3>3 DEF IsCounted
  <2> QED BY <2>2, <2>3
<1>14. CASE UndoDraft
  BY <1>9, <1>14 DEF UndoDraft, server
<1>15. CASE Publish
  <2>1. /\ Panels /\ UNCHANGED <<open, context, loadedContext, loading, versions>>
        /\ operation' = [kind |-> "publish", context |-> context, config |-> cfg, version |-> 0,
                         reached |-> FALSE, untouched |-> TRUE]
    BY <1>15 DEF Publish, page, server
  <2>2. IsOperation(operation', versions')
    BY <1>4, <2>1 DEF IsOperation
  <2> QED BY <1>7, <2>1, <2>2
<1>16. CASE ServeOperation
  <2>1. /\ operation.kind # "none" /\ Serve(operation) /\ operation' = Served(operation)
        /\ live' = live
    BY <1>16 DEF ServeOperation
  <2>2. IsOperation(operation, versions) /\ operation.context = context
    BY <1>2, <2>1
  <2>3. /\ IsOperation(operation', versions') /\ operation'.context = operation.context
        /\ operation'.kind = operation.kind
    BY <1>1, <2>1, <2>2, ServedFits
  <2>4. operation.kind = "publish" => Len(versions'[context]) = Len(versions[context]) + 1
    BY <1>1, <2>1, <2>2, ServeGrows
  <2>5. IsUnderWay' /\ context' = context
    BY <1>6, <2>1, <2>3
  <2>6. live.count \in 0 .. Len(versions[context])
    BY <1>2 DEF IsLive
  <2> QED BY <1>4, <2>1, <2>3, <2>4, <2>5, <2>6 DEF IsCounted
<1>17. CASE Leave \/ PublishAnswers \/ RollbackAnswers \/ OperationFails
  BY <1>5, <1>17 DEF NoOperation, Leave, PublishAnswers, RollbackAnswers, OperationFails
<1> QED BY <1>8, <1>10, <1>11, <1>12, <1>13, <1>14, <1>15, <1>16, <1>17, OperationSteps

LEMMA OrphanedStep ==
    ASSUME Shape, Next
    PROVE  IsOrphaned'
<1>1. Grown(versions, versions') /\ IsServer
  BY ServerStep DEF Shape
<1>2. /\ foreign \subseteq Contexts
      /\ \A o \in orphans :
            /\ DOMAIN o = {"operation", "context", "cfg"} /\ IsOperation(o.operation, versions)
            /\ o.context = o.operation.context /\ (open => o.context \in foreign)
  BY DEF Shape, IsOrphaned
<1>3. \A o \in orphans : IsOperation(o.operation, versions') /\ o.context \in Contexts
  <2>1. \A o \in orphans : o.context \in Contexts
    BY <1>2 DEF IsOperation
  <2> QED BY <1>1, <1>2, <2>1, OperationFits
<1>4. foreign' \subseteq Contexts
  <2>1. foreign \subseteq Contexts /\ {o.context : o \in orphans} \subseteq Contexts
    BY <1>2, <1>3
  <2>2. foreign' \in {foreign, {o.context : o \in orphans}}
    BY ForeignSteps DEF Leave
  <2> QED BY <2>1, <2>2
<1>5. ASSUME NEW o \in orphans' PROVE o.context \in {p.context : p \in orphans} \/ Leave
  <2>1. CASE UNCHANGED orphans
    BY <2>1
  <2>2. ASSUME NEW p \in orphans, ServeOrphan(p) PROVE o.context \in {q.context : q \in orphans}
    <3> DEFINE q == [p EXCEPT !.operation = Served(p.operation)]
    <3>1. q.context = p.context
      BY <1>2
    <3>2. orphans' = (orphans \ {p}) \cup {q}
      BY <2>2 DEF ServeOrphan
    <3> HIDE DEF q
    <3> QED BY <3>1, <3>2
  <2>3. ASSUME NEW p \in orphans, NEW ok \in BOOLEAN, OrphanAnswers(p, ok)
        PROVE  o.context \in {q.context : q \in orphans}
    BY <2>3 DEF OrphanAnswers
  <2> QED BY <2>1, <2>2, <2>3, OrphanSteps
<1>6. ASSUME NEW o \in orphans', open' PROVE o.context \in foreign'
  <2>1. ~Leave
    BY <1>6 DEF Leave
  <2> QED BY <1>2, <1>5, <1>6, <2>1, ForeignSteps
<1>7. ASSUME NEW o \in orphans'
      PROVE  /\ DOMAIN o = {"operation", "context", "cfg"} /\ IsOperation(o.operation, versions')
             /\ o.context = o.operation.context
  <2>1. CASE UNCHANGED orphans
    BY <1>2, <1>3, <2>1
  <2>2. CASE Leave
    <3>1. CASE operation.kind = "none"
      BY <1>2, <1>3, <2>2, <3>1 DEF Leave
    <3>2. CASE operation.kind # "none"
      <4> DEFINE q == [operation |-> operation, context |-> operation.context, cfg |-> cfg]
      <4>1. orphans' = orphans \cup {q}
        BY <2>2, <3>2 DEF Leave
      <4>2. IsOperation(operation, versions')
        BY <1>1, <3>2, OperationFits DEF Shape, IsBusy, IsUnderWay
      <4>3. /\ DOMAIN q = {"operation", "context", "cfg"} /\ q.operation = operation
            /\ q.context = operation.context
        OBVIOUS
      <4> HIDE DEF q
      <4> QED BY <1>2, <1>3, <4>1, <4>2, <4>3
    <3> QED BY <3>1, <3>2
  <2>3. ASSUME NEW p \in orphans, ServeOrphan(p) PROVE <1>7!2
    <3> DEFINE q == [p EXCEPT !.operation = Served(p.operation)]
    <3>1. orphans' = (orphans \ {p}) \cup {q} /\ Serve(p.operation)
      BY <2>3 DEF ServeOrphan
    <3>2. /\ DOMAIN q = {"operation", "context", "cfg"} /\ q.operation = Served(p.operation)
          /\ q.context = p.context
      BY <1>2
    <3> HIDE DEF q
    <3>3. IsOperation(p.operation, versions) /\ p.context = p.operation.context
      BY <1>2
    <3>4. IsOperation(q.operation, versions') /\ q.operation.context = p.operation.context
      BY <1>1, <3>1, <3>2, <3>3, ServedFits
    <3> QED BY <1>2, <1>3, <3>1, <3>2, <3>3, <3>4
  <2>4. ASSUME NEW p \in orphans, NEW ok \in BOOLEAN, OrphanAnswers(p, ok) PROVE <1>7!2
    BY <1>2, <1>3, <2>4 DEF OrphanAnswers
  <2> QED BY <2>1, <2>2, <2>3, <2>4, OrphanSteps
<1> QED BY <1>4, <1>6, <1>7 DEF IsOrphaned

LEMMA ClosedStep ==
    ASSUME Shape, Next
    PROVE  IsClosed'
<1> SUFFICES ASSUME ~open' PROVE IsClosed'
  BY DEF IsClosed
<1>1. CASE Leave
  BY <1>1 DEF Leave, IsClosed
<1>2. CASE ~Leave
  <2>1. ~open
    <3>1. ASSUME open PROVE FALSE
      <4>1. open' = open
        BY <1>2, <3>1, PageSteps DEF page, SelectContext, RetryLoad, RollbackAnswers, ServeConfig,
           ServeVersions, LoadAnswers, LoadFails, Open
      <4> QED BY <3>1, <4>1
    <3> QED BY <3>1
  <2>2. /\ requests = {} /\ loadedContext = None /\ ~loading /\ history = <<>>
        /\ live = NoVersions /\ operation = NoOperation /\ ~previewTimer /\ preview = NewPreview
    BY <2>1 DEF Shape, IsClosed
  <2>3. ~Loaded /\ ~Idle /\ ~Panels /\ operation.kind = "none"
    BY <2>1, <2>2 DEF Loaded, Idle, Panels, NoOperation
  <2>4. UNCHANGED page
    BY <1>2, <2>1, <2>2, <2>3, PageSteps DEF SelectContext, RetryLoad, RollbackAnswers, Open
  <2>5. UNCHANGED <<context, history>>
    BY <1>2, <2>1, <2>2, <2>3, HistorySteps
       DEF SelectContext, RetryLoad, RollbackAnswers, Open, Patch, UndoDraft, ResetDraft,
           PublishAnswers
  <2>6. UNCHANGED <<operation, live>>
    BY <1>2, <2>2, <2>3, OperationSteps
       DEF SelectContext, RollbackAnswers, Patch, UndoDraft, Rollback, Publish, ServeOperation,
           PublishAnswers, OperationFails
  <2>7. UNCHANGED preview
    BY <1>2, <2>1, <2>2, <2>3, PreviewSteps DEF SelectContext, SwitchSource, PreviewTimer, FrameLoads
  <2>8. UNCHANGED previewTimer
    BY <2>1, <2>2, <2>3 DEF Next, Administrator, Answers, SelectContext, RetryLoad, Publish, Rollback,
       SwitchSource, Leave, Open, ServeOperation, PublishAnswers, RollbackAnswers, OperationFails,
       ServeOrphan, OrphanAnswers, PreviewTimer, FrameLoads, Patch, UndoDraft, ResetDraft, shown
  <2> QED BY <2>2, <2>4, <2>5, <2>6, <2>7, <2>8 DEF IsClosed, page
<1> QED BY <1>1, <1>2


LEMMA ShapeStep ==
    ASSUME Shape, [Next]_vars
    PROVE  Shape'
<1>1. CASE Next
  <2>1. IsServer' /\ IsPage' /\ IsHistory'
    BY <1>1, ServerStep, PageStep, HistoryStep
  <2>2. IsPreview' /\ IsLoad' /\ IsBusy'
    BY <1>1, PreviewStep, LoadStep, BusyStep
  <2>3. IsOrphaned' /\ IsClosed'
    BY <1>1, OrphanedStep, ClosedStep
  <2> QED BY <2>1, <2>2, <2>3 DEF Shape
<1>2. CASE UNCHANGED vars
  <2>1. UNCHANGED <<versions, active, open, context, loadedContext, loading, requests, history,
                    live, operation, previewTimer, preview, orphans, foreign>>
    BY <1>2 DEF vars, server, page, draft, shown
  <2>2. IsServer' /\ IsPage'
    BY <2>1 DEF Shape, IsServer, IsPage
  <2>3. IsHistory' /\ IsPreview'
    BY <2>1 DEF Shape, IsHistory, IsPreview
  <2>4. IsLoad'
    BY <2>1 DEF Shape, IsLoad
  <2>5. IsBusy'
    BY <2>1 DEF Shape, IsBusy, IsUnderWay, IsCounted, Loaded
  <2>6. IsOrphaned'
    BY <2>1 DEF Shape, IsOrphaned
  <2>7. IsClosed'
    BY <2>1 DEF Shape, IsClosed
  <2> QED BY <2>2, <2>3, <2>4, <2>5, <2>6, <2>7 DEF Shape
<1> QED BY <1>1, <1>2

LEMMA ShapeInit ==
    ASSUME Init
    PROVE  Shape
<1>1. PICK s \in Stored :
        /\ versions = [c \in Contexts |-> IF s[c] = <<>> THEN <<>> ELSE <<s[c]>>]
        /\ active = [c \in Contexts |-> IF s[c] = <<>> THEN 0 ELSE 1]
  BY DEF Init
<1>2. IsServer
  <2>1. ASSUME NEW c \in Contexts
        PROVE  IsList(versions[c]) /\ active[c] \in 0 .. Len(versions[c])
    <3>1. CASE s[c] = <<>>
      BY <1>1, <3>1, NothingListed
    <3>2. CASE s[c] # <<>>
      <4>1. versions[c] = <<s[c]>> /\ active[c] = 1
        BY <1>1, <3>2
      <4>2. <<s[c]>> \in Seq({s[c]}) /\ Len(<<s[c]>>) = 1
        OBVIOUS
      <4>3. IsList(<<s[c]>>)
        BY <4>2, SeqIsList
      <4> QED BY <4>1, <4>2, <4>3
    <3> QED BY <3>1, <3>2
  <2> QED BY <1>1, <2>1 DEF IsServer
<1>3. IsPage
  BY DEF Init, IsPage, Contexts
<1>4. IsHistory
  BY EditorAssumption, NothingListed DEF Init, IsHistory
<1>5. IsPreview
  BY DEF Init, IsPreview, NewPreview
<1>6. IsLoad
  <2>1. requests = {Request("product")} /\ context = "product" /\ loading
    BY DEF Init
  <2>2. /\ Request("product").context = "product" /\ Request("product").current
        /\ IsRequest(Request("product"), versions)
    BY DEF Request, IsRequest, Contexts
  <2> QED BY <2>1, <2>2 DEF IsLoad
<1>7. IsBusy
  <2>1. operation = NoOperation /\ live = NoVersions /\ context \in Contexts
    BY DEF Init, Contexts
  <2>2. Len(versions[context]) \in Nat
    BY <1>2, <2>1, ListType DEF IsServer
  <2>3. IsLive(live, context, versions)
    BY <2>1, <2>2 DEF IsLive, NoVersions
  <2> QED BY <2>1, <2>3 DEF IsBusy, IsUnderWay, IsCounted, NoOperation
<1>8. IsOrphaned
  BY DEF Init, IsOrphaned
<1>9. IsClosed
  BY DEF Init, IsClosed
<1> QED BY <1>2, <1>3, <1>4, <1>5, <1>6, <1>7, <1>8, <1>9 DEF Shape

-----------------------------------------------------------------------------
(* Every configuration stays with its context. *)

LEMMA OwnStored == ASSUME NEW c, NEW config, Own(c, config) PROVE StoredFor(c, config)
BY NormalType DEF Own, StoredFor

LEMMA MergeOwn ==
    ASSUME NEW c, NEW raw, StoredFor(c, raw)
    PROVE  Own(c, MergeWidgetConfig(raw))
<1>1. Normal(MergeWidgetConfig(raw))
      /\ MergeWidgetConfig(raw)["header.title"] = Given(raw, "header.title")
  BY MergeNormal DEF StoredFor
<1>2. TitlesTell => Given(raw, "header.title") \in {"default", c}
  BY DefaultValues DEF Given, StoredFor, Told, Titled
<1> QED BY <1>1, <1>2 DEF Own, Told, Titled

LEMMA EditOwn ==
    ASSUME NEW c, NEW config, Own(c, config), NEW e \in Edits
    PROVE  Own(c, Edit(config, e))
<1>1. Normal(config)
  BY DEF Own
<1>2. /\ Normal(Edit(config, e))
      /\ TitlesTell => Edit(config, e)["header.title"] = config["header.title"]
  BY <1>1, EditNormal
<1> QED BY <1>2 DEF Own, Told, Titled

LEMMA WithDraftOwn ==
    ASSUME NEW c, NEW merged, Own(c, merged), NEW d, d # NoDraft => Own(c, d)
    PROVE  /\ Own(c, WithDraft(merged, d))
           /\ WithDraft(merged, d) = IF d = NoDraft THEN merged ELSE d
<1>1. CASE d = NoDraft
  BY <1>1 DEF WithDraft
<1>2. CASE d # NoDraft
  <2>1. WithDraft(merged, d) = d
    BY <1>2, DraftRestored DEF Own
  <2> QED BY <1>2, <2>1
<1> QED BY <1>1, <1>2

LEMMA ActiveStored ==
    ASSUME IsServer, VersionsOwn, NEW c \in Contexts
    PROVE  /\ StoredFor(c, ActiveConfig(c))
           /\ \/ ActiveConfig(c) = <<>>
              \/ /\ active[c] \in 1 .. Len(versions[c])
                 /\ ActiveConfig(c) = versions[c][active[c]]
<1>1. active[c] \in 0 .. Len(versions[c])
  BY DEF IsServer
<1>2. StoredFor(c, <<>>)
  BY NothingStored DEF StoredFor
<1>3. CASE active[c] = 0
  <2>1. ActiveConfig(c) = <<>>
    BY <1>3 DEF ActiveConfig
  <2>2. StoredFor(c, ActiveConfig(c))
    BY <1>2, <2>1
  <2> QED BY <2>1, <2>2
<1>4. CASE active[c] # 0
  <2>1. active[c] \in 1 .. Len(versions[c])
    BY <1>1, <1>4, ListType DEF IsServer
  <2> QED BY <1>4, <2>1 DEF ActiveConfig, VersionsOwn
<1> QED BY <1>3, <1>4

\* What is loaded was loaded before, or is loaded by the newest load.
LEMMA LoadedSteps ==
    ASSUME Shape, Next, Loaded'
    PROVE  \/ Loaded /\ context' = context
           \/ \E r \in requests : r.current /\ LoadAnswers(r)
<1>1. loadedContext' = context' /\ open' /\ context' \in Contexts /\ loadedContext' # None
  BY PageStep, NoneAssumption DEF Loaded, IsPage
<1>2. CASE UNCHANGED page
  BY <1>1, <1>2 DEF page, Loaded
<1>3. ASSUME NEW c \in Contexts, SelectContext(c) PROVE FALSE
  BY <1>1, <1>3 DEF SelectContext, Load
<1>4. ~RetryLoad /\ ~Leave /\ ~Open /\ ~RollbackAnswers
  BY <1>1 DEF RetryLoad, Leave, Open, RollbackAnswers, Load
<1>5. ASSUME NEW r \in requests, ServeConfig(r) \/ ServeVersions(r) \/ LoadFails(r)
      PROVE  Loaded /\ context' = context
  BY <1>1, <1>5 DEF ServeConfig, ServeVersions, LoadFails, Loaded
<1>6. ASSUME NEW r \in requests, LoadAnswers(r), ~r.current
      PROVE  Loaded /\ context' = context
  BY <1>1, <1>6 DEF LoadAnswers, Loaded
<1> QED BY <1>2, <1>3, <1>4, <1>5, <1>6, PageSteps

\* What the server serves.
LEMMA ServedOwn ==
    ASSUME IsServer, VersionsOwn, NEW o, IsOperation(o, versions), Serve(o),
           o.kind = "publish" => Own(o.context, o.config)
    PROVE  VersionsOwn'
<1> SUFFICES ASSUME NEW c \in Contexts, NEW i \in 1 .. Len(versions'[c])
             PROVE  StoredFor(c, versions'[c][i])
  BY DEF VersionsOwn
<1>1. /\ Grown(versions, versions')
      /\ \A d \in Contexts \ {o.context} : versions'[d] = versions[d]
      /\ o.kind = "publish" =>
            /\ Len(versions'[o.context]) = Len(versions[o.context]) + 1
            /\ versions'[o.context][Len(versions[o.context]) + 1] = o.config
  BY ServeGrows
<1>2. /\ Len(versions[c]) \in Nat /\ Len(versions'[c]) \in Nat
      /\ \A j \in 1 .. Len(versions[c]) : versions'[c][j] = versions[c][j]
  BY <1>1 DEF Grown
<1>3. CASE i \in 1 .. Len(versions[c])
  BY <1>2, <1>3 DEF VersionsOwn
<1>4. CASE i \notin 1 .. Len(versions[c])
  <2>1. c = o.context
    BY <1>1, <1>4
  <2>2. o.kind = "publish"
    <3>1. o.kind = "rollback" => versions' = versions
      BY DEF Serve
    <3> QED BY <1>4, <3>1 DEF IsOperation
  <2>3. i = Len(versions[c]) + 1
    BY <1>1, <1>2, <1>4, <2>1, <2>2
  <2> QED BY <1>1, <2>1, <2>2, <2>3, OwnStored
<1> QED BY <1>3, <1>4

LEMMA VersionsOwnStep ==
    ASSUME Shape, Owned, Next
    PROVE  VersionsOwn'
<1>1. IsServer /\ VersionsOwn
  BY DEF Shape, Owned
<1>2. CASE UNCHANGED server
  <2>1. versions' = versions
    BY <1>2 DEF server
  <2> QED BY <1>1, <2>1 DEF VersionsOwn
<1>3. CASE ServeOperation
  <2>1. Serve(operation) /\ operation.kind # "none"
    BY <1>3 DEF ServeOperation
  <2>2. IsOperation(operation, versions) /\ operation.context = context
    BY <2>1 DEF Shape, IsBusy, IsUnderWay
  <2>3. operation.kind = "publish" => Own(operation.context, operation.config)
    BY <2>2 DEF Owned, OperationsOwn, OperationOwns
  <2> QED BY <1>1, <2>1, <2>2, <2>3, ServedOwn
<1>4. ASSUME NEW o \in orphans, ServeOrphan(o) PROVE VersionsOwn'
  <2>1. Serve(o.operation) /\ IsOperation(o.operation, versions)
    BY <1>4 DEF ServeOrphan, Shape, IsOrphaned
  <2>2. o.operation.kind = "publish" => Own(o.operation.context, o.operation.config)
    BY DEF Owned, OperationsOwn, OperationOwns, Shape, IsOrphaned
  <2> QED BY <1>1, <2>1, <2>2, ServedOwn
<1> QED BY <1>2, <1>3, <1>4, ServerSteps

LEMMA RequestsOwnStep ==
    ASSUME Shape, Owned, Next
    PROVE  RequestsOwn'
<1>1. /\ \A r \in requests : r.config # None => StoredFor(r.context, r.config)
      /\ \A r \in requests : IsRequest(r, versions)
  BY DEF Owned, RequestsOwn, Shape, IsLoad
<1>2. ASSUME NEW c, Load(c) PROVE RequestsOwn'
  <2> DEFINE Outdated(r) == [r EXCEPT !.current = FALSE]
  <2>1. requests' = {Outdated(r) : r \in requests} \cup {Request(c)}
    BY <1>2 DEF Load
  <2>2. \A r \in requests : Outdated(r).context = r.context /\ Outdated(r).config = r.config
    BY <1>1, RequestOutdated
  <2>3. Request(c).config = None
    BY DEF Request
  <2> HIDE DEF Outdated
  <2> QED BY <1>1, <2>1, <2>2, <2>3 DEF RequestsOwn
<1>3. ASSUME NEW r \in requests, NEW n, requests' = (requests \ {r}) \cup {n},
             n.config # None => StoredFor(n.context, n.config)
      PROVE  RequestsOwn'
  BY <1>1, <1>3 DEF RequestsOwn
<1>4. CASE UNCHANGED page
  <2>1. requests' = requests
    BY <1>4 DEF page
  <2> QED BY <1>1, <2>1 DEF RequestsOwn
<1>5. ASSUME NEW c \in Contexts, SelectContext(c) PROVE RequestsOwn'
  BY <1>2, <1>5 DEF SelectContext
<1>6. CASE RetryLoad \/ Open \/ RollbackAnswers
  BY <1>2, <1>6 DEF RetryLoad, Open, RollbackAnswers
<1>7. CASE Leave
  BY <1>7 DEF Leave, RequestsOwn
<1>8. ASSUME NEW r \in requests, ServeConfig(r) PROVE RequestsOwn'
  <2> DEFINE n == [r EXCEPT !.config = ActiveConfig(r.context)]
  <2>1. requests' = (requests \ {r}) \cup {n}
    BY <1>8 DEF ServeConfig
  <2>2. n.context = r.context /\ n.config = ActiveConfig(r.context) /\ r.context \in Contexts
    BY <1>1, RequestConfig DEF IsRequest
  <2> HIDE DEF n
  <2>3. StoredFor(r.context, ActiveConfig(r.context))
    BY <2>2, ActiveStored DEF Shape, Owned
  <2> QED BY <1>3, <2>1, <2>2, <2>3
<1>9. ASSUME NEW r \in requests, ServeVersions(r) PROVE RequestsOwn'
  <2> DEFINE x == [count |-> Len(versions[r.context]), active |-> active[r.context]]
             n == [r EXCEPT !.versions = x]
  <2>1. requests' = (requests \ {r}) \cup {n}
    BY <1>9 DEF ServeVersions
  <2> HIDE DEF x
  <2>2. n.context = r.context /\ n.config = r.config
    BY <1>1 DEF IsRequest
  <2> HIDE DEF n
  <2> QED BY <1>1, <1>3, <2>1, <2>2
<1>10. ASSUME NEW r \in requests, LoadAnswers(r) \/ LoadFails(r) PROVE RequestsOwn'
  <2>1. requests' = requests \ {r}
    BY <1>10 DEF LoadAnswers, LoadFails
  <2> QED BY <1>1, <2>1 DEF RequestsOwn
<1> QED BY <1>4, <1>5, <1>6, <1>7, <1>8, <1>9, <1>10, PageSteps


\* A draft is saved for the context of the editor.
LEMMA SavedOwn ==
    ASSUME drafts = [c \in Contexts |-> drafts[c]],
           \A c \in Contexts : drafts[c] # NoDraft => Own(c, drafts[c]),
           NEW d \in Contexts, NEW x, x # NoDraft => Own(d, x),
           drafts' = [drafts EXCEPT ![d] = x]
    PROVE  /\ drafts' = [c \in Contexts |-> drafts'[c]] /\ drafts'[d] = x
           /\ \A c \in Contexts \ {d} : drafts'[c] = drafts[c]
           /\ \A c \in Contexts : drafts'[c] # NoDraft => Own(c, drafts'[c])
<1>1. drafts'[d] = x /\ \A c \in Contexts \ {d} : drafts'[c] = drafts[c]
  OBVIOUS
<1>2. drafts' = [c \in Contexts |-> drafts'[c]]
  OBVIOUS
<1> QED BY <1>1, <1>2

LEMMA UndoneOwn ==
    ASSUME Shape, HistoryOwns, history # <<>>
    PROVE  /\ Own(context, history[Len(history)])
           /\ \A i \in 1 .. Len(history) - 1 : SubSeq(history, 1, Len(history) - 1)[i] = history[i]
           /\ Len(SubSeq(history, 1, Len(history) - 1)) = Len(history) - 1
           /\ Len(history) \in Nat
<1>1. /\ Len(history) \in Nat \ {0}
      /\ \A i \in 1 .. Len(history) - 1 : SubSeq(history, 1, Len(history) - 1)[i] = history[i]
      /\ Len(SubSeq(history, 1, Len(history) - 1)) = Len(history) - 1
  BY ListShortened DEF Shape, IsHistory
<1> QED BY <1>1 DEF HistoryOwns

LEMMA DraftsOwnStep ==
    ASSUME Shape, Owned, Next
    PROVE  DraftsOwn'
<1>1. /\ drafts = [c \in Contexts |-> drafts[c]]
      /\ \A c \in Contexts : drafts[c] # NoDraft => Own(c, drafts[c])
      /\ context \in Contexts
  BY DEF Owned, DraftsOwn, Shape, IsPage
<1>2. Loaded => Own(context, cfg) /\ Own(context, baseline)
  BY DEF Owned, EditorOwns
<1>3. HistoryOwns
  BY DEF Owned
<1>4. ASSUME NEW next, NEW base, SaveDraft(next, base), Own(context, next)
      PROVE  DraftsOwn'
  <2>1. drafts' = [drafts EXCEPT ![context] = Draft(next, base)]
    BY <1>4 DEF SaveDraft
  <2>2. Draft(next, base) # NoDraft => Own(context, Draft(next, base))
    BY <1>4 DEF Draft
  <2> QED BY <1>1, <2>1, <2>2, SavedOwn DEF DraftsOwn
<1>5. CASE UNCHANGED <<cfg, baseline, drafts>>
  BY <1>1, <1>5 DEF DraftsOwn
<1>6. ASSUME NEW e \in Edits, Patch(e) PROVE DraftsOwn'
  <2>1. SaveDraft(Edit(cfg, e), baseline) /\ Loaded
    BY <1>6 DEF Patch, Panels
  <2>2. Own(context, Edit(cfg, e))
    BY <1>2, <2>1, EditOwn
  <2> QED BY <1>4, <2>1, <2>2
<1>7. CASE UndoDraft
  BY <1>3, <1>4, <1>7, UndoneOwn DEF UndoDraft
<1>8. CASE ResetDraft
  BY <1>2, <1>4, <1>8 DEF ResetDraft, Panels
<1>9. CASE PublishAnswers
  <2>1. operation.kind # "none" /\ SaveDraft(cfg, operation.config)
    BY <1>9 DEF PublishAnswers
  <2>2. Loaded
    BY <2>1 DEF Shape, IsBusy, IsUnderWay
  <2> QED BY <1>2, <1>4, <2>1, <2>2
<1>10. CASE RollbackAnswers
  <2>1. drafts' = [drafts EXCEPT ![operation.context] = NoDraft] /\ operation.context = context
    BY <1>10 DEF RollbackAnswers, Shape, IsBusy, IsUnderWay
  <2> QED BY <1>1, <2>1, SavedOwn DEF DraftsOwn
<1>11. CASE Leave
  BY <1>1, <1>11 DEF Leave, DraftsOwn
<1>12. ASSUME NEW r \in requests, LoadAnswers(r) PROVE DraftsOwn'
  BY <1>1, <1>12 DEF LoadAnswers, DraftsOwn
<1>13. ASSUME NEW o \in orphans, NEW ok \in BOOLEAN, OrphanAnswers(o, ok) PROVE DraftsOwn'
  <2>1. CASE ~ok
    BY <1>1, <1>13, <2>1 DEF OrphanAnswers, DraftsOwn
  <2>2. CASE ok
    <3> DEFINE x == IF o.operation.kind = "publish" THEN Draft(o.cfg, o.operation.config)
                    ELSE NoDraft
    <3>1. drafts' = [drafts EXCEPT ![o.context] = x]
      BY <1>13, <2>2 DEF OrphanAnswers
    <3>2. Own(o.context, o.cfg) /\ o.context \in Contexts
      BY DEF Owned, OperationsOwn, OperationOwns, Shape, IsOrphaned, IsOperation
    <3>3. x # NoDraft => Own(o.context, x)
      BY <3>2 DEF Draft
    <3> HIDE DEF x
    <3> QED BY <1>1, <3>1, <3>2, <3>3, SavedOwn DEF DraftsOwn
  <2> QED BY <2>1, <2>2
<1> QED BY <1>5, <1>6, <1>7, <1>8, <1>9, <1>10, <1>11, <1>12, <1>13, DraftSteps

LEMMA HistoryOwnsStep ==
    ASSUME Shape, Owned, Next
    PROVE  HistoryOwns'
<1>1. HistoryOwns /\ \A i \in 1 .. Len(history) : Own(context, history[i])
  BY DEF Owned, HistoryOwns
<1>2. Loaded => Own(context, cfg)
  BY DEF Owned, EditorOwns
<1>3. ASSUME history' = <<>> PROVE HistoryOwns'
  BY <1>3, NothingListed DEF HistoryOwns
<1>4. CASE UNCHANGED <<context, history>>
  BY <1>1, <1>4 DEF HistoryOwns
<1>5. ASSUME NEW c \in Contexts, SelectContext(c) PROVE HistoryOwns'
  BY <1>3, <1>5 DEF SelectContext, Load
<1>6. ASSUME NEW e \in Edits, Patch(e) PROVE HistoryOwns'
  <2>1. history' = Pushed(history, cfg) /\ Loaded /\ context' = context
    BY <1>6 DEF Patch, Panels, page
  <2>2. IsList(history) /\ Len(history) <= HistoryLimit
    BY DEF Shape, IsHistory
  <2>3. \A i \in 1 .. Len(Pushed(history, cfg)) :
          \/ Pushed(history, cfg)[i] = cfg
          \/ \E j \in 1 .. Len(history) : Pushed(history, cfg)[i] = history[j]
    BY <2>2, PushedHistory
  <2> QED BY <1>1, <1>2, <2>1, <2>3 DEF HistoryOwns
<1>7. CASE RetryLoad \/ Leave \/ Open \/ RollbackAnswers \/ ResetDraft
  BY <1>3, <1>7 DEF RetryLoad, Leave, Open, RollbackAnswers, ResetDraft, Load
<1>8. CASE UndoDraft
  <2>1. history # <<>> /\ history' = SubSeq(history, 1, Len(history) - 1) /\ context' = context
    BY <1>8 DEF UndoDraft, page
  <2> QED BY <1>1, <2>1, UndoneOwn DEF HistoryOwns
<1>9. CASE PublishAnswers
  <2>1. (history' = <<>> \/ history' = history) /\ context' = context
    BY <1>9 DEF PublishAnswers, page
  <2>2. ASSUME history' = history PROVE HistoryOwns'
    BY <1>1, <2>1, <2>2 DEF HistoryOwns
  <2> QED BY <1>3, <2>1, <2>2
<1> QED BY <1>4, <1>5, <1>6, <1>7, <1>8, <1>9, HistorySteps

LEMMA EditorOwnsStep ==
    ASSUME Shape, Owned, Next
    PROVE  EditorOwns'
<1>1. /\ DOMAIN cfg = Paths /\ DOMAIN baseline = Paths
      /\ Loaded => Own(context, cfg) /\ Own(context, baseline) /\ Own(context, preview.config)
      /\ context \in Contexts
  BY DEF Owned, EditorOwns, Shape, IsPage
<1>2. \A c, x : Own(c, x) => DOMAIN x = Paths
  BY NormalType DEF Own
<1>3. ASSUME NEW r \in requests, LoadAnswers(r), r.current
      PROVE  /\ Own(context, cfg') /\ Own(context, baseline') /\ context' = context
             /\ preview'.config = cfg'
  <2> DEFINE merged == MergeWidgetConfig(r.config)
             next == WithDraft(merged, drafts[r.context])
  <2>1. /\ cfg' = next /\ baseline' = merged /\ context' = context /\ r.config # None
        /\ preview' = Mount([preview EXCEPT !.config = next], r.context, context)
    BY <1>3 DEF LoadAnswers
  <2>2. r.context = context
    BY <1>3 DEF Shape, IsLoad
  <2>3. Own(context, merged)
    BY <2>1, <2>2, MergeOwn DEF Owned, RequestsOwn
  <2>4. Own(context, next)
    <3>1. drafts[context] # NoDraft => Own(context, drafts[context])
      BY <1>1 DEF Owned, DraftsOwn
    <3> HIDE DEF merged
    <3> QED BY <2>2, <2>3, <3>1, WithDraftOwn
  <2> HIDE DEF merged, next
  <2> DEFINE p == [preview EXCEPT !.config = next]
  <2>5. IsShown(p) /\ p.config = next
    BY PreviewParts DEF Shape, IsPreview, IsShown
  <2>6. preview' = Mount(p, r.context, context)
    BY <2>1
  <2> HIDE DEF p
  <2>7. preview'.config = next
    BY <2>5, <2>6, MountParts
  <2> QED BY <2>1, <2>3, <2>4, <2>7
<1>4. ASSUME Loaded, context' = context, ~Leave
      PROVE  Own(context, cfg')
  <2>1. CASE UNCHANGED <<cfg, baseline, drafts>>
    BY <1>1, <1>4, <2>1
  <2>2. ASSUME NEW e \in Edits, Patch(e) PROVE Own(context, cfg')
    <3>1. cfg' = Edit(cfg, e)
      BY <2>2 DEF Patch, SaveDraft
    <3> QED BY <1>1, <1>4, <3>1, EditOwn
  <2>3. CASE UndoDraft
    BY <2>3, UndoneOwn DEF UndoDraft, SaveDraft, Owned
  <2>4. CASE ResetDraft
    BY <1>1, <1>4, <2>4 DEF ResetDraft, SaveDraft
  <2>5. CASE PublishAnswers \/ RollbackAnswers
    BY <1>1, <1>4, <2>5 DEF PublishAnswers, RollbackAnswers, SaveDraft
  <2>6. ASSUME NEW r \in requests, LoadAnswers(r) PROVE Own(context, cfg')
    BY <1>1, <1>3, <1>4, <2>6 DEF LoadAnswers
  <2>7. ASSUME NEW o \in orphans, NEW ok \in BOOLEAN, OrphanAnswers(o, ok)
        PROVE  Own(context, cfg')
    BY <1>1, <1>4, <2>7 DEF OrphanAnswers
  <2> QED BY <1>4, <2>1, <2>2, <2>3, <2>4, <2>5, <2>6, <2>7, DraftSteps
<1>5. ASSUME Loaded, context' = context, ~Leave
      PROVE  Own(context, baseline')
  <2>1. CASE UNCHANGED <<cfg, baseline, drafts>>
    BY <1>1, <1>5, <2>1
  <2>2. ASSUME NEW e \in Edits, Patch(e) PROVE Own(context, baseline')
    BY <1>1, <1>5, <2>2 DEF Patch
  <2>3. CASE UndoDraft \/ ResetDraft \/ RollbackAnswers
    BY <1>1, <1>5, <2>3 DEF UndoDraft, ResetDraft, RollbackAnswers
  <2>4. CASE PublishAnswers
    BY <2>4 DEF PublishAnswers, Owned, OperationsOwn, OperationOwns
  <2>5. ASSUME NEW r \in requests, LoadAnswers(r) PROVE Own(context, baseline')
    BY <1>1, <1>3, <1>5, <2>5 DEF LoadAnswers
  <2>6. ASSUME NEW o \in orphans, NEW ok \in BOOLEAN, OrphanAnswers(o, ok)
        PROVE  Own(context, baseline')
    BY <1>1, <1>5, <2>6 DEF OrphanAnswers
  <2> QED BY <1>5, <2>1, <2>2, <2>3, <2>4, <2>5, <2>6, DraftSteps
<1>6. ASSUME Loaded, context' = context, ~Leave
      PROVE  Own(context, preview'.config)
  <2>1. IsShown(preview) /\ Own(context, preview.config)
    BY <1>1, <1>6 DEF Shape, IsPreview, IsShown
  <2>2. CASE UNCHANGED preview
    BY <2>1, <2>2
  <2>3. ASSUME NEW c \in Contexts, SelectContext(c) PROVE FALSE
    BY <1>6, <2>3 DEF SelectContext
  <2>4. ASSUME NEW r \in requests, LoadAnswers(r) PROVE Own(context, preview'.config)
    <3>1. CASE r.current
      BY <1>3, <2>4, <3>1
    <3>2. CASE ~r.current
      BY <2>1, <2>4, <3>2 DEF LoadAnswers, shown
    <3> QED BY <3>1, <3>2
  <2>5. CASE SwitchSource
    BY <2>1, <2>5 DEF SwitchSource, IsShown
  <2>6. CASE PreviewTimer
    <3> DEFINE p == [preview EXCEPT !.config = cfg]
    <3>1. preview' = Mount(p, loadedContext, context)
      BY <2>6 DEF PreviewTimer
    <3>2. IsShown(p) /\ p.config = cfg
      BY <2>1, PreviewParts
    <3> HIDE DEF p
    <3>3. preview'.config = cfg
      BY <3>1, <3>2, MountParts
    <3> QED BY <1>1, <1>6, <3>3
  <2>7. CASE FrameLoads
    <3> DEFINE p == [preview EXCEPT !.frame = "ready"]
    <3>1. preview' = Mount(p, loadedContext, context)
      BY <2>7 DEF FrameLoads
    <3>2. IsShown(p) /\ p.config = preview.config
      BY <2>1, PreviewParts
    <3> HIDE DEF p
    <3>3. preview'.config = preview.config
      BY <3>1, <3>2, MountParts
    <3> QED BY <2>1, <3>3
  <2> QED BY <1>6, <2>2, <2>3, <2>4, <2>5, <2>6, <2>7, PreviewSteps
<1>7. DOMAIN cfg' = Paths /\ DOMAIN baseline' = Paths
  <2>1. CASE Loaded /\ context' = context /\ ~Leave
    BY <1>2, <1>4, <1>5, <2>1
  <2>2. CASE UNCHANGED <<cfg, baseline, drafts>>
    BY <1>1, <2>2
  <2>3. ASSUME NEW e \in Edits, Patch(e) PROVE Loaded /\ context' = context /\ ~Leave
    BY <2>3 DEF Patch, Panels, Loaded, page, Leave
  <2>4. ASSUME UndoDraft \/ ResetDraft PROVE Loaded /\ context' = context /\ ~Leave
    BY <2>4 DEF UndoDraft, ResetDraft, Panels, Loaded, page, Leave
  <2>5. ASSUME PublishAnswers PROVE Loaded /\ context' = context /\ ~Leave
    <3>1. Loaded
      BY <2>5 DEF PublishAnswers, Shape, IsBusy, IsUnderWay
    <3> QED BY <2>5, <3>1 DEF PublishAnswers, Loaded, page, Leave
  <2>6. CASE RollbackAnswers
    BY <1>1, <2>6 DEF RollbackAnswers
  <2>7. CASE Leave
    BY <2>7, DefaultValues DEF Leave
  <2>8. ASSUME NEW r \in requests, LoadAnswers(r)
        PROVE  DOMAIN cfg' = Paths /\ DOMAIN baseline' = Paths
    BY <1>1, <1>2, <1>3, <2>8 DEF LoadAnswers
  <2>9. ASSUME NEW o \in orphans, NEW ok \in BOOLEAN, OrphanAnswers(o, ok)
        PROVE  DOMAIN cfg' = Paths /\ DOMAIN baseline' = Paths
    BY <1>1, <2>9 DEF OrphanAnswers
  <2> QED BY <2>1, <2>2, <2>3, <2>4, <2>5, <2>6, <2>7, <2>8, <2>9, DraftSteps
<1>8. ASSUME Loaded'
      PROVE  /\ Own(context', cfg') /\ Own(context', baseline') /\ Own(context', preview'.config)
  <2>1. ~Leave
    BY <1>8 DEF Loaded, Leave
  <2>2. CASE Loaded /\ context' = context
    BY <1>4, <1>5, <1>6, <2>1, <2>2
  <2>3. ASSUME NEW r \in requests, r.current, LoadAnswers(r)
        PROVE  Own(context', cfg') /\ Own(context', baseline') /\ Own(context', preview'.config)
    BY <1>3, <2>3
  <2> QED BY <1>8, <2>2, <2>3, LoadedSteps
<1> QED BY <1>7, <1>8 DEF EditorOwns


LEMMA OperationsOwnStep ==
    ASSUME Shape, Owned, Next
    PROVE  OperationsOwn'
<1>1. /\ operation.kind = "publish" => Own(context, operation.config)
      /\ \A o \in orphans :
            /\ DOMAIN o = {"operation", "context", "cfg"} /\ IsOperation(o.operation, versions)
            /\ Own(o.context, o.cfg)
            /\ (o.operation.kind = "publish" => Own(o.context, o.operation.config))
      /\ operation.kind # "none" =>
            Loaded /\ operation.context = context /\ IsOperation(operation, versions)
  BY DEF Owned, OperationsOwn, OperationOwns, Shape, IsBusy, IsUnderWay, IsOrphaned
<1>2. Loaded => Own(context, cfg)
  BY DEF Owned, EditorOwns
<1>3. OperationOwns'
  <2>1. ASSUME operation.kind # "none", operation'.kind = operation.kind,
               operation.kind = "publish" => operation'.config = operation.config
        PROVE  OperationOwns'
    BY <1>1, <2>1, BusyPage DEF OperationOwns
  <2>2. ASSUME operation'.kind # "publish" PROVE OperationOwns'
    BY <2>2 DEF OperationOwns
  <2>3. ASSUME operation' = operation PROVE OperationOwns'
    BY <2>1, <2>2, <2>3
  <2>4. ASSUME operation' = Touched PROVE OperationOwns'
    <3>1. CASE operation.kind = "none"
      BY <2>2, <2>4, <3>1 DEF Touched
    <3>2. CASE operation.kind # "none"
      BY <1>1, <2>1, <2>4, <3>2, TouchedFits
    <3> QED BY <3>1, <3>2
  <2>5. CASE UNCHANGED <<operation, live>>
    BY <2>3, <2>5
  <2>6. ASSUME NEW e \in Edits, Patch(e) PROVE OperationOwns'
    BY <2>4, <2>6 DEF Patch
  <2>7. ASSUME NEW c \in Contexts, SelectContext(c) PROVE OperationOwns'
    BY <2>3, <2>7 DEF SelectContext
  <2>8. ASSUME NEW v \in 1 .. live.count, Rollback(v) PROVE OperationOwns'
    BY <2>2, <2>8 DEF Rollback
  <2>9. ASSUME NEW r \in requests, LoadAnswers(r) PROVE OperationOwns'
    BY <2>3, <2>9 DEF LoadAnswers
  <2>10. CASE UndoDraft
    BY <2>4, <2>10 DEF UndoDraft
  <2>11. CASE Publish
    <3>1. Loaded /\ context' = context /\ operation'.config = cfg
      BY <2>11 DEF Publish, Panels, page
    <3> QED BY <1>2, <3>1 DEF OperationOwns
  <2>12. CASE Leave \/ PublishAnswers \/ RollbackAnswers \/ OperationFails
    BY <2>2, <2>12 DEF Leave, PublishAnswers, RollbackAnswers, OperationFails, NoOperation
  <2>13. CASE ServeOperation
    <3>1. operation.kind # "none" /\ operation' = Served(operation) /\ Serve(operation)
      BY <2>13 DEF ServeOperation
    <3>2. /\ operation'.kind = operation.kind
          /\ operation.kind = "publish" => operation'.config = operation.config
      BY <1>1, <3>1, ServedFits DEF Shape
    <3> QED BY <2>1, <3>1, <3>2
  <2> QED BY <2>5, <2>6, <2>7, <2>8, <2>9, <2>10, <2>11, <2>12, <2>13, OperationSteps
<1>4. ASSUME NEW o \in orphans'
      PROVE  Own(o.context, o.cfg) /\ (o.operation.kind = "publish" => Own(o.context, o.operation.config))
  <2>1. CASE UNCHANGED orphans
    BY <1>1, <2>1
  <2>2. CASE Leave
    <3>1. CASE operation.kind = "none"
      BY <1>1, <2>2, <3>1 DEF Leave
    <3>2. CASE operation.kind # "none"
      <4> DEFINE q == [operation |-> operation, context |-> operation.context, cfg |-> cfg]
      <4>1. orphans' = orphans \cup {q}
        BY <2>2, <3>2 DEF Leave
      <4>2. /\ q.operation = operation /\ q.context = operation.context /\ q.cfg = cfg
        OBVIOUS
      <4> HIDE DEF q
      <4> QED BY <1>1, <1>2, <3>2, <4>1, <4>2
    <3> QED BY <3>1, <3>2
  <2>3. ASSUME NEW p \in orphans, ServeOrphan(p)
        PROVE  Own(o.context, o.cfg) /\ (o.operation.kind = "publish" => Own(o.context, o.operation.config))
    <3> DEFINE q == [p EXCEPT !.operation = Served(p.operation)]
    <3>1. orphans' = (orphans \ {p}) \cup {q} /\ Serve(p.operation)
      BY <2>3 DEF ServeOrphan
    <3>2. /\ q.operation = Served(p.operation) /\ q.context = p.context /\ q.cfg = p.cfg
      BY <1>1
    <3> HIDE DEF q
    <3>3. IsOperation(p.operation, versions)
      BY <1>1
    <3>4. /\ q.operation.kind = p.operation.kind
          /\ p.operation.kind = "publish" => q.operation.config = p.operation.config
      BY <3>1, <3>2, <3>3, ServedFits DEF Shape
    <3> QED BY <1>1, <3>1, <3>2, <3>4
  <2>4. ASSUME NEW p \in orphans, NEW ok \in BOOLEAN, OrphanAnswers(p, ok)
        PROVE  Own(o.context, o.cfg) /\ (o.operation.kind = "publish" => Own(o.context, o.operation.config))
    BY <1>1, <2>4 DEF OrphanAnswers
  <2> QED BY <2>1, <2>2, <2>3, <2>4, OrphanSteps
<1> QED BY <1>3, <1>4 DEF OperationsOwn

\* What a step mounts, it mounts for a context that is loaded.
LEMMA MountedOwn ==
    ASSUME NEW p, IsShown(p), NEW c, NEW loaded,
           loaded = c => Told(c, p.config),
           p.mounted # None => IsMounted(p.mounted, c) /\ Told(c, p.mounted.config)
    PROVE  Mount(p, loaded, c).mounted # None =>
                /\ IsMounted(Mount(p, loaded, c).mounted, c)
                /\ Told(c, Mount(p, loaded, c).mounted.config)
<1> DEFINE q == Mount(p, loaded, c)
<1>1. CASE p.frame # "ready" \/ loaded # c
  <2>1. q.mounted = p.mounted
    BY <1>1, MountParts
  <2> HIDE DEF q
  <2>2. q.mounted # None => IsMounted(q.mounted, c) /\ Told(c, q.mounted.config)
    BY <2>1
  <2> QED BY <2>2 DEF q
<1>2. CASE p.frame = "ready" /\ loaded = c
  <2>1. q.mounted = [context |-> c, config |-> p.config]
    BY <1>2, MountShows
  <2> HIDE DEF q
  <2>2. IsMounted(q.mounted, c) /\ q.mounted.config = p.config
    BY <2>1 DEF IsMounted
  <2>3. Told(c, q.mounted.config)
    BY <1>2, <2>2
  <2> QED BY <2>2, <2>3 DEF q
<1> QED BY <1>1, <1>2

LEMMA MountedOwnsStep ==
    ASSUME Shape, Owned, Next
    PROVE  MountedOwns'
<1>1. /\ preview.mounted # None =>
            IsMounted(preview.mounted, context) /\ Told(context, preview.mounted.config)
      /\ IsShown(preview)
      /\ Loaded => Own(context, cfg) /\ Own(context, preview.config)
  BY DEF Owned, MountedOwns, EditorOwns, Shape, IsPreview, IsShown
<1>2. \A c, x : Own(c, x) => Told(c, x)
  BY DEF Own
<1>3. ASSUME preview'.mounted = None PROVE MountedOwns'
  BY <1>3 DEF MountedOwns
<1>4. ASSUME preview'.mounted = preview.mounted, context' = context PROVE MountedOwns'
  BY <1>1, <1>4 DEF MountedOwns
<1>5. ASSUME NEW p, IsShown(p), p.mounted = preview.mounted, NEW loaded, context' = context,
             loaded = context => Told(context, p.config), preview' = Mount(p, loaded, context)
      PROVE  MountedOwns'
  <2>1. p.mounted # None => IsMounted(p.mounted, context) /\ Told(context, p.mounted.config)
    BY <1>1, <1>5
  <2>2. preview'.mounted # None =>
            IsMounted(preview'.mounted, context) /\ Told(context, preview'.mounted.config)
    BY <1>5, <2>1, MountedOwn
  <2> QED BY <1>5, <2>2 DEF MountedOwns
<1>6. CASE UNCHANGED preview
  <2>1. context' = context \/ preview'.mounted = None
    <3>1. ASSUME NEW c \in Contexts, SelectContext(c) PROVE preview'.mounted = None
      BY <1>1, <3>1 DEF SelectContext, IsShown
    <3>2. CASE UNCHANGED page
      BY <3>2 DEF page
    <3>3. CASE RetryLoad \/ Leave \/ RollbackAnswers
      BY <3>3 DEF RetryLoad, Leave, RollbackAnswers
    <3>4. CASE Open
      BY <1>6, <3>4 DEF Open, Shape, IsClosed, NewPreview
    <3>5. ASSUME NEW r \in requests,
                 ServeConfig(r) \/ ServeVersions(r) \/ LoadAnswers(r) \/ LoadFails(r)
          PROVE  context' = context
      BY <3>5 DEF ServeConfig, ServeVersions, LoadAnswers, LoadFails
    <3> QED BY <3>1, <3>2, <3>3, <3>4, <3>5, PageSteps
  <2> QED BY <1>3, <1>4, <1>6, <2>1
<1>7. ASSUME NEW c \in Contexts, SelectContext(c) PROVE MountedOwns'
  <2>1. preview'.mounted = None
    BY <1>1, <1>7 DEF SelectContext, IsShown
  <2> QED BY <1>3, <2>1
<1>8. ASSUME NEW r \in requests, LoadAnswers(r) PROVE MountedOwns'
  <2>1. CASE r.current
    <3> DEFINE p == [preview EXCEPT !.config = cfg']
    <3>1. /\ preview' = Mount(p, r.context, context) /\ context' = context /\ loadedContext' = r.context
      BY <1>8, <2>1 DEF LoadAnswers
    <3>2. r.context = context /\ loading
      BY <2>1 DEF Shape, IsLoad
    <3>3. Loaded'
      BY <1>8, <3>1, <3>2 DEF LoadAnswers, Loaded, Shape, IsPage
    <3>4. IsShown(p) /\ p.mounted = preview.mounted /\ p.config = cfg'
      BY <1>1, PreviewParts
    <3>5. Told(context, cfg')
      BY <1>2, <3>1, <3>3, EditorOwnsStep DEF EditorOwns
    <3> HIDE DEF p
    <3> QED BY <1>5, <3>1, <3>4, <3>5
  <2>2. CASE ~r.current
    BY <1>4, <1>8, <2>2 DEF LoadAnswers, shown
  <2> QED BY <2>1, <2>2
<1>9. CASE SwitchSource
  <2>1. preview'.mounted = None
    BY <1>1, <1>9 DEF SwitchSource, IsShown
  <2> QED BY <1>3, <2>1
<1>10. CASE Leave
  BY <1>3, <1>10 DEF Leave, NewPreview
<1>11. CASE PreviewTimer
  <2> DEFINE p == [preview EXCEPT !.config = cfg]
  <2>1. preview' = Mount(p, loadedContext, context) /\ context' = context /\ open
    BY <1>11 DEF PreviewTimer, page
  <2>2. IsShown(p) /\ p.mounted = preview.mounted /\ p.config = cfg
    BY <1>1, PreviewParts
  <2> HIDE DEF p
  <2>3. loadedContext = context => Told(context, p.config)
    BY <1>1, <1>2, <2>1, <2>2 DEF Loaded
  <2> QED BY <1>5, <2>1, <2>2, <2>3
<1>12. CASE FrameLoads
  <2> DEFINE p == [preview EXCEPT !.frame = "ready"]
  <2>1. preview' = Mount(p, loadedContext, context) /\ context' = context /\ open
    BY <1>12 DEF FrameLoads, page
  <2>2. IsShown(p) /\ p.mounted = preview.mounted /\ p.config = preview.config
    BY <1>1, PreviewParts
  <2> HIDE DEF p
  <2>3. loadedContext = context => Told(context, p.config)
    BY <1>1, <1>2, <2>1, <2>2 DEF Loaded
  <2> QED BY <1>5, <2>1, <2>2, <2>3
<1> QED BY <1>6, <1>7, <1>8, <1>9, <1>10, <1>11, <1>12, PreviewSteps

LEMMA OwnedStep ==
    ASSUME Shape, Owned, [Next]_vars
    PROVE  Owned'
<1>1. CASE Next
  <2>1. VersionsOwn' /\ RequestsOwn' /\ DraftsOwn'
    BY <1>1, VersionsOwnStep, RequestsOwnStep, DraftsOwnStep
  <2>2. HistoryOwns' /\ EditorOwns' /\ OperationsOwn' /\ MountedOwns'
    BY <1>1, HistoryOwnsStep, EditorOwnsStep, OperationsOwnStep, MountedOwnsStep
  <2> QED BY <2>1, <2>2 DEF Owned
<1>2. CASE UNCHANGED vars
  <2>1. UNCHANGED <<versions, requests, drafts, history, open, context, loadedContext, cfg, baseline,
                    operation, preview, orphans>>
    BY <1>2 DEF vars, server, page, draft, shown
  <2>2. VersionsOwn' /\ RequestsOwn' /\ DraftsOwn'
    BY <2>1 DEF Owned, VersionsOwn, RequestsOwn, DraftsOwn
  <2>3. HistoryOwns' /\ EditorOwns'
    BY <2>1 DEF Owned, HistoryOwns, EditorOwns, Loaded
  <2>4. OperationsOwn' /\ MountedOwns'
    BY <2>1 DEF Owned, OperationsOwn, OperationOwns, MountedOwns
  <2> QED BY <2>2, <2>3, <2>4 DEF Owned
<1> QED BY <1>1, <1>2

LEMMA OwnedInit ==
    ASSUME Init
    PROVE  Owned
<1>1. VersionsOwn
  <2>1. PICK s \in Stored : versions = [c \in Contexts |-> IF s[c] = <<>> THEN <<>> ELSE <<s[c]>>]
    BY DEF Init
  <2>2. ASSUME NEW c \in Contexts, NEW i \in 1 .. Len(versions[c])
        PROVE  StoredFor(c, versions[c][i])
    <3>1. CASE s[c] = <<>>
      BY <2>1, <3>1, NothingListed
    <3>2. CASE s[c] # <<>>
      <4>1. versions[c] = <<s[c]>> /\ Len(<<s[c]>>) = 1 /\ <<s[c]>>[1] = s[c]
        BY <2>1, <3>2
      <4>2. i = 1
        BY <4>1
      <4>3. StoredFor(c, s[c])
        BY StoredAssumption DEF StoredFor, IsStored, Told, TitlesTell
      <4> QED BY <4>1, <4>2, <4>3
    <3> QED BY <3>1, <3>2
  <2> QED BY <2>2 DEF VersionsOwn
<1>2. RequestsOwn
  BY DEF Init, RequestsOwn, Request
<1>3. DraftsOwn
  BY DEF Init, DraftsOwn
<1>4. HistoryOwns
  BY NothingListed DEF Init, HistoryOwns
<1>5. EditorOwns
  <2>1. ~Loaded
    BY NoneAssumption DEF Init, Loaded, Contexts
  <2> QED BY <2>1, DefaultValues DEF Init, EditorOwns
<1>6. OperationsOwn
  BY DEF Init, OperationsOwn, OperationOwns, NoOperation
<1>7. MountedOwns
  BY DEF Init, MountedOwns, NewPreview
<1> QED BY <1>1, <1>2, <1>3, <1>4, <1>5, <1>6, <1>7 DEF Owned

-----------------------------------------------------------------------------
(* What is loaded came from the server, and the editor holds what would come *)
(* back.                                                                     *)

LEMMA LoadsStep ==
    ASSUME Shape, Owned, Loads, Next
    PROVE  Loads'
<1> DEFINE Came(c, x, vs) == x = <<>> \/ \E i \in 1 .. Len(vs[c]) : vs[c][i] = x
<1>1. /\ \A r \in requests : r.config # None => Came(r.context, r.config, versions)
      /\ \A r \in requests : IsRequest(r, versions) /\ r.context \in Contexts
  BY DEF Loads, Shape, IsLoad, IsRequest
<1>2. Grown(versions, versions')
  BY ServerStep
<1>3. ASSUME NEW c \in Contexts, NEW x, Came(c, x, versions) PROVE Came(c, x, versions')
  <2>1. CASE x = <<>>
    BY <2>1
  <2>2. ASSUME NEW i \in 1 .. Len(versions[c]), versions[c][i] = x PROVE Came(c, x, versions')
    <3>1. i \in 1 .. Len(versions'[c]) /\ versions'[c][i] = x
      BY <1>2, <2>2 DEF Grown
    <3> QED BY <3>1
  <2> QED BY <1>3, <2>1, <2>2
<1> HIDE DEF Came
<1>4. ASSUME \A r \in requests' : r.config # None => Came(r.context, r.config, versions')
      PROVE  Loads'
  BY <1>4 DEF Loads, Came
<1>5. \A r \in requests : r.config # None => Came(r.context, r.config, versions')
  BY <1>1, <1>3
<1>6. ASSUME NEW c, Load(c) PROVE Loads'
  <2> DEFINE Outdated(r) == [r EXCEPT !.current = FALSE]
  <2>1. requests' = {Outdated(r) : r \in requests} \cup {Request(c)}
    BY <1>6 DEF Load
  <2>2. \A r \in requests : Outdated(r).context = r.context /\ Outdated(r).config = r.config
    BY <1>1, RequestOutdated
  <2>3. Request(c).config = None
    BY DEF Request
  <2> HIDE DEF Outdated
  <2> QED BY <1>4, <1>5, <2>1, <2>2, <2>3
<1>7. CASE UNCHANGED page
  BY <1>4, <1>5, <1>7 DEF page
<1>8. ASSUME NEW c \in Contexts, SelectContext(c) PROVE Loads'
  BY <1>6, <1>8 DEF SelectContext
<1>9. CASE RetryLoad \/ Open \/ RollbackAnswers
  BY <1>6, <1>9 DEF RetryLoad, Open, RollbackAnswers
<1>10. CASE Leave
  BY <1>4, <1>10 DEF Leave
<1>11. ASSUME NEW r \in requests, ServeConfig(r) PROVE Loads'
  <2> DEFINE n == [r EXCEPT !.config = ActiveConfig(r.context)]
  <2>1. requests' = (requests \ {r}) \cup {n} /\ versions' = versions
    BY <1>11 DEF ServeConfig, server
  <2>2. n.context = r.context /\ n.config = ActiveConfig(r.context)
    BY <1>1, RequestConfig
  <2> HIDE DEF n
  <2>3. Came(r.context, ActiveConfig(r.context), versions)
    BY <1>1, ActiveStored DEF Shape, Owned, Came
  <2> QED BY <1>4, <1>5, <2>1, <2>2, <2>3
<1>12. ASSUME NEW r \in requests, ServeVersions(r) PROVE Loads'
  <2> DEFINE x == [count |-> Len(versions[r.context]), active |-> active[r.context]]
             n == [r EXCEPT !.versions = x]
  <2>1. requests' = (requests \ {r}) \cup {n}
    BY <1>12 DEF ServeVersions
  <2> HIDE DEF x
  <2>2. n.context = r.context /\ n.config = r.config
    BY <1>1 DEF IsRequest
  <2> HIDE DEF n
  <2> QED BY <1>4, <1>5, <2>1, <2>2
<1>13. ASSUME NEW r \in requests, LoadAnswers(r) \/ LoadFails(r) PROVE Loads'
  <2>1. requests' = requests \ {r}
    BY <1>13 DEF LoadAnswers, LoadFails
  <2> QED BY <1>4, <1>5, <2>1
<1> QED BY <1>7, <1>8, <1>9, <1>10, <1>11, <1>12, <1>13, PageSteps

\* As long as a context is loaded, no operation is added to those behind it.
LEMMA LoadedForeign ==
    ASSUME Shape, Next, Loaded'
    PROVE  foreign' = foreign /\ ~Leave /\ ~RollbackAnswers /\ \A c : ~Load(c)
<1>1. loadedContext' = context' /\ open' /\ context' \in Contexts /\ loadedContext' # None
  BY PageStep, NoneAssumption DEF Loaded, IsPage
<1>2. foreign' = foreign \/ loadedContext' = None
  BY DEF Next, Administrator, Answers, Patch, UndoDraft, ResetDraft, Publish, Rollback,
     Open, ServeOperation, PublishAnswers, RollbackAnswers, OperationFails, ServeOrphan,
     OrphanAnswers, ServeConfig, ServeVersions, LoadFails, RetryLoad, SelectContext,
     LoadAnswers, SwitchSource, FrameLoads, PreviewTimer, Load, Leave
<1>3. ~Leave /\ \A c : ~Load(c)
  BY <1>1 DEF Leave, Load
<1>4. ~RollbackAnswers
  BY <1>3 DEF RollbackAnswers
<1> QED BY <1>1, <1>2, <1>3, <1>4

\* What a current load makes of its answers.
LEMMA LoadTaken ==
    ASSUME Shape, Owned, NEW r \in requests, r.current, LoadAnswers(r)
    PROVE  /\ r.context = context /\ context' = context /\ versions' = versions /\ active' = active
           /\ r.config # None /\ r.versions # None
           /\ baseline' = MergeWidgetConfig(r.config) /\ live' = r.versions
           /\ drafts' = drafts /\ previewTimer' = TRUE
           /\ cfg' = IF drafts[context] = NoDraft THEN baseline' ELSE drafts[context]
           /\ preview' = Mount([preview EXCEPT !.config = cfg'], context, context)
<1> DEFINE merged == MergeWidgetConfig(r.config)
<1>1. r.context = context
  BY DEF Shape, IsLoad
<1>2. /\ cfg' = WithDraft(merged, drafts[r.context]) /\ baseline' = merged /\ live' = r.versions
      /\ r.config # None /\ r.versions # None /\ previewTimer' = TRUE
      /\ preview' = Mount([preview EXCEPT !.config = cfg'], r.context, context)
      /\ context' = context /\ drafts' = drafts /\ versions' = versions /\ active' = active
  BY DEF LoadAnswers, server
<1>3. Own(context, merged)
  BY <1>1, <1>2, MergeOwn DEF Owned, RequestsOwn
<1>4. drafts[context] # NoDraft => Own(context, drafts[context])
  BY DEF Owned, DraftsOwn, Shape, IsPage
<1> HIDE DEF merged
<1>5. WithDraft(merged, drafts[context]) = IF drafts[context] = NoDraft THEN merged ELSE drafts[context]
  BY <1>3, <1>4, WithDraftOwn
<1> QED BY <1>1, <1>2, <1>5 DEF merged

\* What is saved is what would come back.
LEMMA SavedKept ==
    ASSUME Shape, Owned, NEW next, NEW base, SaveDraft(next, base), Own(context, next)
    PROVE  cfg' = IF drafts'[context] = NoDraft THEN base ELSE drafts'[context]
<1>1. context \in Contexts /\ drafts = [c \in Contexts |-> drafts[c]]
  BY DEF Shape, IsPage, Owned, DraftsOwn
<1>2. cfg' = next /\ drafts'[context] = Draft(next, base)
  BY <1>1 DEF SaveDraft
<1>3. next # NoDraft
  BY NormalType DEF Own
<1>4. CASE next = base
  BY <1>2, <1>4 DEF Draft
<1>5. CASE next # base
  BY <1>2, <1>3, <1>5 DEF Draft
<1> QED BY <1>4, <1>5

LEMMA PublishedStep ==
    ASSUME Shape, Owned, Loads, DraftIsKept, Next, Loaded'
    PROVE  BaselineWasPublished'
<1>1. Grown(versions, versions') /\ context \in Contexts
  BY ServerStep DEF Shape, IsPage
<1>2. ASSUME NEW r \in requests, r.current, LoadAnswers(r) PROVE BaselineWasPublished'
  <2>1. /\ r.context = context /\ context' = context /\ versions' = versions /\ r.config # None
        /\ baseline' = MergeWidgetConfig(r.config)
    BY <1>2, LoadTaken
  <2>2. r.config = <<>> \/ \E i \in 1 .. Len(versions[context]) : versions[context][i] = r.config
    BY <2>1 DEF Loads
  <2>3. CASE r.config = <<>>
    BY <2>1, <2>3 DEF BaselineWasPublished
  <2>4. ASSUME NEW i \in 1 .. Len(versions[context]), versions[context][i] = r.config
        PROVE  BaselineWasPublished'
    BY <2>1, <2>4 DEF BaselineWasPublished
  <2> QED BY <2>2, <2>3, <2>4
<1>3. ASSUME Loaded, context' = context, baseline' = baseline PROVE BaselineWasPublished'
  <2>1. CASE baseline = MergeWidgetConfig(<<>>)
    BY <1>3, <2>1 DEF BaselineWasPublished
  <2>2. ASSUME NEW i \in 1 .. Len(versions[context]),
               baseline \in {versions[context][i], MergeWidgetConfig(versions[context][i])}
        PROVE  BaselineWasPublished'
    <3>1. i \in 1 .. Len(versions'[context]) /\ versions'[context][i] = versions[context][i]
      BY <1>1 DEF Grown
    <3> QED BY <1>3, <2>2, <3>1 DEF BaselineWasPublished
  <2> QED BY <1>3, <2>1, <2>2 DEF DraftIsKept, BaselineWasPublished
<1>4. CASE PublishAnswers
  <2>1. /\ operation.kind = "publish" /\ operation.reached /\ context' = context
        /\ baseline' = operation.config /\ versions' = versions
    BY <1>4 DEF PublishAnswers, page, server
  <2>2. operation.context = context /\ IsOperation(operation, versions)
    BY <2>1 DEF Shape, IsBusy, IsUnderWay
  <2>3. /\ operation.version \in 1 .. Len(versions[context])
        /\ versions[context][operation.version] = operation.config
    BY <2>1, <2>2 DEF IsOperation
  <2> QED BY <2>1, <2>3 DEF BaselineWasPublished
<1>5. ~Leave /\ ~RollbackAnswers
  BY LoadedForeign
<1>6. CASE Loaded /\ context' = context
  <2>1. CASE UNCHANGED <<cfg, baseline, drafts>>
    BY <1>3, <1>6, <2>1
  <2>2. ASSUME NEW e \in Edits, Patch(e) PROVE BaselineWasPublished'
    BY <1>3, <1>6, <2>2 DEF Patch
  <2>3. CASE UndoDraft \/ ResetDraft
    BY <1>3, <1>6, <2>3 DEF UndoDraft, ResetDraft
  <2>4. ASSUME NEW r \in requests, LoadAnswers(r) PROVE BaselineWasPublished'
    BY <1>2, <1>3, <1>6, <2>4 DEF LoadAnswers
  <2>5. ASSUME NEW o \in orphans, NEW ok \in BOOLEAN, OrphanAnswers(o, ok)
        PROVE  BaselineWasPublished'
    BY <1>3, <1>6, <2>5 DEF OrphanAnswers
  <2> QED BY <1>4, <1>5, <2>1, <2>2, <2>3, <2>4, <2>5, DraftSteps
<1> QED BY <1>2, <1>6, LoadedSteps

LEMMA KeptStep ==
    ASSUME Shape, Owned, Loads, DraftIsKept, Next
    PROVE  DraftIsKept'
<1> SUFFICES ASSUME Loaded', context' \notin foreign'
             PROVE  cfg' = IF drafts'[context'] = NoDraft THEN baseline' ELSE drafts'[context']
  BY PublishedStep DEF DraftIsKept
<1>1. foreign' = foreign /\ ~Leave /\ ~RollbackAnswers
  BY LoadedForeign
<1> DEFINE Held == cfg' = IF drafts'[context'] = NoDraft THEN baseline' ELSE drafts'[context']
<1>2. ASSUME NEW r \in requests, r.current, LoadAnswers(r) PROVE Held
  BY <1>2, LoadTaken
<1>3. ASSUME Loaded, context' = context PROVE Held
  <2>1. /\ cfg = IF drafts[context] = NoDraft THEN baseline ELSE drafts[context]
        /\ context \notin foreign /\ open
    BY <1>1, <1>3 DEF DraftIsKept, Loaded
  <2>2. Own(context, cfg) /\ Own(context, baseline)
    BY <1>3 DEF Owned, EditorOwns
  <2>3. ASSUME NEW next, NEW base, SaveDraft(next, base), Own(context, next), baseline' = base
        PROVE  Held
    BY <1>3, <2>3, SavedKept
  <2>4. ASSUME UNCHANGED <<cfg, baseline, drafts>> PROVE Held
    BY <1>3, <2>1, <2>4
  <2> HIDE DEF Held
  <2>5. ASSUME NEW e \in Edits, Patch(e) PROVE Held
    <3>1. SaveDraft(Edit(cfg, e), baseline) /\ baseline' = baseline
      BY <2>5 DEF Patch
    <3> QED BY <2>2, <2>3, <3>1, EditOwn
  <2>6. ASSUME UndoDraft PROVE Held
    BY <2>3, <2>6, UndoneOwn DEF UndoDraft, Owned
  <2>7. ASSUME ResetDraft PROVE Held
    BY <2>2, <2>3, <2>7 DEF ResetDraft
  <2>8. ASSUME PublishAnswers PROVE Held
    BY <2>2, <2>3, <2>8 DEF PublishAnswers
  <2>9. ASSUME NEW r \in requests, LoadAnswers(r) PROVE Held
    BY <1>2, <2>4, <2>9 DEF LoadAnswers
  <2>10. ASSUME NEW o \in orphans, NEW ok \in BOOLEAN, OrphanAnswers(o, ok) PROVE Held
    <3>1. o.context # context
      BY <2>1 DEF Shape, IsOrphaned
    <3>2. drafts'[context] = drafts[context] /\ UNCHANGED <<cfg, baseline>>
      <4>1. context \in Contexts /\ drafts = [c \in Contexts |-> drafts[c]]
        BY DEF Shape, IsPage, Owned, DraftsOwn
      <4> QED BY <2>10, <3>1, <4>1 DEF OrphanAnswers
    <3> QED BY <1>3, <2>1, <3>2 DEF Held
  <2> QED BY <1>1, <2>4, <2>5, <2>6, <2>7, <2>8, <2>9, <2>10, DraftSteps
<1>4. Held
  BY <1>2, <1>3, LoadedSteps
<1> QED BY <1>4

-----------------------------------------------------------------------------
(* Without operations left behind, the list and the baseline tell what is live. *)

AnswersActive ==
    \A r \in requests :
        /\ r.current /\ r.config # None => r.config = ActiveConfig(context)
        /\ r.current /\ r.versions # None => r.versions.active = active[context]

BaseIsLive == baseline \in {MergeWidgetConfig(LiveConfig), LiveConfig}

LEMMA LivesParts == Lives <=> (context \notin foreign => AnswersActive /\ (Loaded => BaseIsLive))
BY DEF Lives, AnswersActive, BaseIsLive

LEMMA LoadSteps ==
    ASSUME Next
    PROVE  \/ \E c : Load(c)
           \/ Leave
           \/ UNCHANGED <<open, context, foreign, requests>>
           \/ /\ UNCHANGED <<server, open, context, foreign>>
              /\ \E r \in requests :
                    ServeConfig(r) \/ ServeVersions(r) \/ LoadAnswers(r) \/ LoadFails(r)
BY DEF Next, Administrator, Answers, SelectContext, Patch, UndoDraft, ResetDraft, Publish,
       RetryLoad, Rollback, SwitchSource, Open, ServeConfig, ServeVersions, LoadAnswers, LoadFails,
       ServeOperation, PublishAnswers, RollbackAnswers, OperationFails, ServeOrphan, OrphanAnswers,
       PreviewTimer, FrameLoads, page

\* No operation reaches the context of a load that is under way.
LEMMA ActiveUntouched ==
    ASSUME Shape, Next, UNCHANGED <<open, context, foreign>>, context \notin foreign,
           NEW r \in requests, r.current
    PROVE  versions'[context] = versions[context] /\ active'[context] = active[context]
<1>1. open /\ loading /\ operation.kind = "none" /\ context \in Contexts
  BY DEF Shape, IsClosed, IsLoad, IsBusy, IsUnderWay, IsPage
<1>2. CASE UNCHANGED server
  BY <1>2 DEF server
<1>3. CASE ServeOperation
  BY <1>1, <1>3 DEF ServeOperation
<1>4. ASSUME NEW o \in orphans, ServeOrphan(o)
      PROVE  versions'[context] = versions[context] /\ active'[context] = active[context]
  <2>1. o.context \in foreign /\ IsOperation(o.operation, versions) /\ o.context = o.operation.context
    BY <1>1 DEF Shape, IsOrphaned
  <2>2. context \in Contexts \ {o.operation.context} /\ Serve(o.operation) /\ IsServer
    BY <1>1, <1>4, <2>1 DEF ServeOrphan, Shape
  <2> QED BY <2>1, <2>2, ServeGrows
<1> QED BY <1>2, <1>3, <1>4, ServerSteps

LEMMA AnswersStep ==
    ASSUME Shape, Lives, Next, context' \notin foreign'
    PROVE  AnswersActive'
<1>1. \A r \in requests : IsRequest(r, versions) /\ (r.current => r.context = context)
  BY DEF Shape, IsLoad
<1>2. ASSUME NEW c, Load(c) PROVE AnswersActive'
  <2> DEFINE Outdated(r) == [r EXCEPT !.current = FALSE]
  <2>1. requests' = {Outdated(r) : r \in requests} \cup {Request(c)}
    BY <1>2 DEF Load
  <2>2. \A r \in requests : ~Outdated(r).current
    BY <1>1, RequestOutdated
  <2>3. Request(c).config = None /\ Request(c).versions = None
    BY DEF Request
  <2> HIDE DEF Outdated
  <2> QED BY <2>1, <2>2, <2>3 DEF AnswersActive
<1>3. CASE Leave
  BY <1>3 DEF Leave, AnswersActive
<1>4. ASSUME UNCHANGED <<open, context, foreign>>, NEW r \in requests, r.current
      PROVE  /\ r.config # None => r.config = ActiveConfig(context)'
             /\ r.versions # None => r.versions.active = active'[context']
  <2>1. context \notin foreign
    BY <1>4
  <2>2. AnswersActive
    BY <2>1, LivesParts
  <2>3. versions'[context] = versions[context] /\ active'[context] = active[context]
    BY <1>4, <2>1, ActiveUntouched
  <2>4. ActiveConfig(context)' = ActiveConfig(context)
    BY <1>4, <2>3 DEF ActiveConfig
  <2> QED BY <1>4, <2>2, <2>3, <2>4 DEF AnswersActive
<1>5. CASE UNCHANGED <<open, context, foreign, requests>>
  BY <1>4, <1>5 DEF AnswersActive
<1>6. ASSUME UNCHANGED <<server, open, context, foreign>>, NEW r \in requests, ServeConfig(r)
      PROVE  AnswersActive'
  <2> DEFINE n == [r EXCEPT !.config = ActiveConfig(r.context)]
  <2>1. requests' = (requests \ {r}) \cup {n}
    BY <1>6 DEF ServeConfig
  <2>2. /\ n.config = ActiveConfig(r.context) /\ n.current = r.current
        /\ n.versions = r.versions
    BY <1>1, RequestConfig
  <2> HIDE DEF n
  <2>3. r.current => n.config = ActiveConfig(context)'
    BY <1>1, <1>6, <2>2 DEF ActiveConfig, server
  <2>4. n.current /\ n.versions # None => n.versions.active = active'[context']
    BY <1>4, <1>6, <2>2
  <2> QED BY <1>4, <1>6, <2>1, <2>2, <2>3, <2>4 DEF AnswersActive
<1>7. ASSUME UNCHANGED <<server, open, context, foreign>>, NEW r \in requests, ServeVersions(r)
      PROVE  AnswersActive'
  <2> DEFINE x == [count |-> Len(versions[r.context]), active |-> active[r.context]]
             n == [r EXCEPT !.versions = x]
  <2>1. requests' = (requests \ {r}) \cup {n} /\ x.active = active[r.context]
    BY <1>7 DEF ServeVersions
  <2> HIDE DEF x
  <2>2. n.config = r.config /\ n.current = r.current /\ n.versions = x
    BY <1>1 DEF IsRequest
  <2> HIDE DEF n
  <2>3. r.current => n.versions.active = active'[context']
    BY <1>1, <1>7, <2>1, <2>2 DEF server
  <2>4. n.current /\ n.config # None => n.config = ActiveConfig(context)'
    BY <1>4, <1>7, <2>2
  <2> QED BY <1>4, <1>7, <2>1, <2>2, <2>3, <2>4 DEF AnswersActive
<1>8. ASSUME UNCHANGED <<server, open, context, foreign>>, NEW r \in requests,
             LoadAnswers(r) \/ LoadFails(r)
      PROVE  AnswersActive'
  <2>1. requests' = requests \ {r}
    BY <1>8 DEF LoadAnswers, LoadFails
  <2> QED BY <1>4, <1>8, <2>1 DEF AnswersActive
<1> QED BY <1>2, <1>3, <1>5, <1>6, <1>7, <1>8, LoadSteps

LEMMA BaselineSteps ==
    ASSUME Next
    PROVE  \/ UNCHANGED <<baseline, live>>
           \/ \E c : Load(c)
           \/ \E r \in requests : r.current /\ LoadAnswers(r)
           \/ PublishAnswers \/ Leave
BY DEF Next, Administrator, Answers, SelectContext, Patch, UndoDraft, ResetDraft, Publish,
       RetryLoad, Rollback, SwitchSource, Open, ServeConfig, ServeVersions, LoadAnswers, LoadFails,
       ServeOperation, RollbackAnswers, OperationFails, ServeOrphan, OrphanAnswers,
       PreviewTimer, FrameLoads, draft

LEMMA BaseStep ==
    ASSUME Shape, Owned, Lives, Next, Loaded', context' \notin foreign'
    PROVE  BaseIsLive'
<1>1. foreign' = foreign /\ ~Leave /\ \A c : ~Load(c)
  BY LoadedForeign
<1>2. ASSUME NEW r \in requests, r.current, LoadAnswers(r) PROVE BaseIsLive'
  <2>1. /\ context' = context /\ versions' = versions /\ r.config # None /\ r.versions # None
        /\ baseline' = MergeWidgetConfig(r.config) /\ live' = r.versions
    BY <1>2, LoadTaken
  <2>2. r.config = ActiveConfig(context) /\ r.versions.active = active[context]
    BY <1>1, <1>2, <2>1, LivesParts DEF AnswersActive
  <2>3. LiveConfig' = r.config
    BY <2>1, <2>2 DEF LiveConfig, ActiveConfig
  <2> QED BY <2>1, <2>3 DEF BaseIsLive
<1>3. CASE PublishAnswers
  <2>1. /\ operation.kind = "publish" /\ operation.reached /\ context' = context
        /\ baseline' = operation.config /\ versions' = versions
        /\ live' = [count |-> live.count + 1, active |-> operation.version]
    BY <1>3 DEF PublishAnswers, page, server
  <2>2. operation.context = context /\ IsOperation(operation, versions)
    BY <2>1 DEF Shape, IsBusy, IsUnderWay
  <2>3. /\ operation.version \in 1 .. Len(versions[context])
        /\ versions[context][operation.version] = operation.config
    BY <2>1, <2>2 DEF IsOperation
  <2>4. Len(versions[context]) \in Nat
    BY ListType DEF Shape, IsServer, IsPage
  <2>5. live'.active = operation.version /\ operation.version # 0
    BY <2>1, <2>3, <2>4
  <2>6. LiveConfig' = operation.config
    BY <2>1, <2>3, <2>5 DEF LiveConfig
  <2> QED BY <2>1, <2>6 DEF BaseIsLive
<1>4. CASE Loaded /\ context' = context /\ UNCHANGED <<baseline, live>>
  <2>1. BaseIsLive
    BY <1>1, <1>4, LivesParts
  <2>2. /\ live.active \in 0 .. Len(versions[context]) /\ context \in Contexts
        /\ Len(versions[context]) \in Nat
    BY ListType DEF Shape, IsBusy, IsLive, IsPage, IsServer
  <2>3. Grown(versions, versions')
    BY ServerStep
  <2>4. live.active = 0 \/ versions'[context][live.active] = versions[context][live.active]
    BY <2>2, <2>3 DEF Grown
  <2>5. LiveConfig' = LiveConfig
    BY <1>4, <2>4 DEF LiveConfig
  <2> QED BY <1>4, <2>1, <2>5 DEF BaseIsLive
<1> QED BY <1>1, <1>2, <1>3, <1>4, LoadedSteps, BaselineSteps

LEMMA LivesStep ==
    ASSUME Shape, Owned, Lives, Next
    PROVE  Lives'
<1>1. context' \notin foreign' => AnswersActive'
  BY AnswersStep
<1>2. context' \notin foreign' /\ Loaded' => BaseIsLive'
  BY BaseStep
<1> QED BY <1>1, <1>2 DEF Lives, AnswersActive, BaseIsLive

-----------------------------------------------------------------------------
(* The preview follows. *)

\* While a context stays loaded, what changes the draft sets the debounce.
LEMMA DebounceSteps ==
    ASSUME Next
    PROVE  \/ UNCHANGED <<cfg, previewTimer>>
           \/ previewTimer' = TRUE
           \/ PreviewTimer /\ cfg' = cfg
           \/ Leave
BY DEF Next, Administrator, Answers, SelectContext, Patch, UndoDraft, ResetDraft, Publish,
       RetryLoad, Rollback, SwitchSource, Open, ServeConfig, ServeVersions, LoadAnswers, LoadFails,
       ServeOperation, PublishAnswers, RollbackAnswers, OperationFails, ServeOrphan, OrphanAnswers,
       PreviewTimer, FrameLoads, draft, shown, SaveDraft

PreviewFollows(p, c) == p.frame = "ready" => p.mounted = [context |-> c, config |-> p.config]

LEMMA MountFollows ==
    ASSUME NEW p, IsShown(p), p.mounted # None => IsMounted(p.mounted, context)
    PROVE  /\ PreviewFollows(Mount(p, context, context), context)
           /\ Mount(p, context, context).config = p.config
<1> DEFINE q == Mount(p, context, context)
<1>1. q.frame = p.frame /\ q.config = p.config
  BY MountParts
<1>2. p.frame = "ready" => q.mounted = [context |-> context, config |-> p.config]
  BY MountShows
<1> HIDE DEF q
<1> QED BY <1>1, <1>2 DEF PreviewFollows, q

LEMMA ShownStep ==
    ASSUME Shape, Owned, Shown, Next
    PROVE  Shown'
<1> SUFFICES ASSUME Loaded'
             PROVE  /\ ~previewTimer' => preview'.config = cfg'
                    /\ PreviewFollows(preview', context')
  BY DEF Shown, PreviewFollows
<1>1. IsShown(preview) /\ (preview.mounted # None => IsMounted(preview.mounted, context))
  BY DEF Shape, IsPreview, IsShown, Owned, MountedOwns
<1>2. ~Leave /\ \A c : ~Load(c)
  BY LoadedForeign
<1>3. ASSUME NEW x
      PROVE  /\ IsShown([preview EXCEPT !.config = x])
             /\ [preview EXCEPT !.config = x].config = x
             /\ [preview EXCEPT !.config = x].mounted = preview.mounted
  BY <1>1, PreviewParts
<1>4. ASSUME NEW x, context' = context,
             preview' = Mount([preview EXCEPT !.config = x], context, context)
      PROVE  preview'.config = x /\ PreviewFollows(preview', context')
  <2> DEFINE p == [preview EXCEPT !.config = x]
  <2>1. IsShown(p) /\ p.config = x /\ (p.mounted # None => IsMounted(p.mounted, context))
    BY <1>1, <1>3
  <2>2. preview' = Mount(p, context, context)
    BY <1>4
  <2> HIDE DEF p
  <2>3. PreviewFollows(preview', context) /\ preview'.config = x
    BY <2>1, <2>2, MountFollows
  <2> QED BY <1>4, <2>3 DEF PreviewFollows
<1>5. ASSUME NEW r \in requests, r.current, LoadAnswers(r)
      PROVE  previewTimer' = TRUE /\ PreviewFollows(preview', context')
  <2>1. /\ context' = context /\ previewTimer' = TRUE
        /\ preview' = Mount([preview EXCEPT !.config = cfg'], context, context)
    BY <1>5, LoadTaken
  <2> QED BY <1>4, <2>1
<1>6. ASSUME Loaded, context' = context
      PROVE  /\ ~previewTimer' => preview'.config = cfg'
             /\ PreviewFollows(preview', context')
  <2>1. (~previewTimer => preview.config = cfg) /\ PreviewFollows(preview, context)
    BY <1>6 DEF Shown, PreviewFollows
  <2>2. CASE UNCHANGED preview
    <3>1. PreviewFollows(preview', context')
      BY <1>6, <2>1, <2>2 DEF PreviewFollows
    <3>2. ~PreviewTimer \/ previewTimer = TRUE
      BY DEF PreviewTimer, Shape, IsPreview
    <3>3. CASE UNCHANGED <<cfg, previewTimer>>
      BY <2>1, <2>2, <3>1, <3>3
    <3>4. CASE previewTimer' = TRUE
      BY <3>1, <3>4
    <3>5. CASE PreviewTimer /\ cfg' = cfg
      BY <1>4, <1>6, <3>5 DEF PreviewTimer, Loaded
    <3> QED BY <1>2, <3>3, <3>4, <3>5, DebounceSteps
  <2>3. CASE PreviewTimer
    <3>1. /\ preview' = Mount([preview EXCEPT !.config = cfg], context, context)
          /\ cfg' = cfg
      BY <1>6, <2>3 DEF PreviewTimer, Loaded, draft
    <3> QED BY <1>4, <1>6, <3>1
  <2>4. CASE FrameLoads
    <3> DEFINE p == [preview EXCEPT !.frame = "ready"]
    <3>1. preview' = Mount(p, context, context) /\ UNCHANGED <<cfg, previewTimer>>
      BY <1>6, <2>4 DEF FrameLoads, Loaded, draft
    <3>2. /\ IsShown(p) /\ p.config = preview.config
          /\ (p.mounted # None => IsMounted(p.mounted, context))
      BY <1>1, PreviewParts
    <3> HIDE DEF p
    <3>3. PreviewFollows(preview', context) /\ preview'.config = preview.config
      BY <3>1, <3>2, MountFollows
    <3> QED BY <1>6, <2>1, <3>1, <3>3 DEF PreviewFollows
  <2>5. CASE SwitchSource
    <3>1. preview' = [preview EXCEPT !.frame = "loading", !.mounted = None]
      BY <2>5 DEF SwitchSource
    <3>2. preview'.frame = "loading" /\ preview'.config = preview.config
      BY <1>1, <3>1 DEF IsShown
    <3>3. UNCHANGED <<cfg, previewTimer>>
      BY <2>5 DEF SwitchSource, draft
    <3> QED BY <2>1, <3>2, <3>3 DEF PreviewFollows
  <2>6. ASSUME NEW r \in requests, LoadAnswers(r), ~r.current PROVE UNCHANGED preview
    BY <2>6 DEF LoadAnswers, shown
  <2>7. ASSUME NEW c \in Contexts, SelectContext(c) PROVE FALSE
    BY <1>2, <2>7 DEF SelectContext
  <2> QED BY <1>2, <1>5, <2>2, <2>3, <2>4, <2>5, <2>6, <2>7, PreviewSteps
<1> QED BY <1>5, <1>6, LoadedSteps

-----------------------------------------------------------------------------
(* The theorems. *)

EditorInv == Shape /\ Owned /\ Kept /\ Lives /\ Shown

LEMMA InvInit ==
    ASSUME Init
    PROVE  EditorInv
<1>1. Shape /\ Owned
  BY ShapeInit, OwnedInit
<1>2. /\ requests = {Request("product")} /\ ~Loaded
  BY NoneAssumption DEF Init, Loaded, Contexts
<1>3. Request("product").config = None /\ Request("product").versions = None
  BY DEF Request
<1>4. Loads
  BY <1>2, <1>3 DEF Loads
<1>5. Lives
  BY <1>2, <1>3 DEF Lives
<1> QED BY <1>1, <1>2, <1>4, <1>5 DEF EditorInv, Kept, DraftIsKept, Shown

LEMMA InvStep ==
    ASSUME EditorInv, [Next]_vars
    PROVE  EditorInv'
<1>1. Shape /\ Owned /\ Loads /\ DraftIsKept /\ Lives /\ Shown
  BY DEF EditorInv, Kept
<1>2. Shape' /\ Owned'
  BY <1>1, ShapeStep, OwnedStep
<1>3. CASE Next
  <2>1. Loads' /\ DraftIsKept'
    BY <1>1, <1>3, LoadsStep, KeptStep
  <2>2. Lives' /\ Shown'
    BY <1>1, <1>3, LivesStep, ShownStep
  <2> QED BY <1>2, <2>1, <2>2 DEF EditorInv, Kept
<1>4. CASE UNCHANGED vars
  <2>1. /\ UNCHANGED <<versions, active, drafts, open, context, loadedContext, requests>>
        /\ UNCHANGED <<cfg, baseline, live, previewTimer, preview, foreign>>
    BY <1>4 DEF vars, server, page, draft, shown
  <2>2. Loads' /\ Loaded' = Loaded /\ LiveConfig' = LiveConfig
    BY <1>1, <2>1 DEF Loads, Loaded, LiveConfig
  <2>3. DraftIsKept'
    BY <1>1, <2>1, <2>2 DEF DraftIsKept, BaselineWasPublished
  <2>4. Lives'
    BY <1>1, <2>1, <2>2 DEF Lives, ActiveConfig
  <2>5. Shown'
    BY <1>1, <2>1, <2>2 DEF Shown
  <2> QED BY <1>2, <2>2, <2>3, <2>4, <2>5 DEF EditorInv, Kept
<1> QED BY <1>3, <1>4

LEMMA InvHolds == Spec => []EditorInv
<1> QED BY InvInit, InvStep, PTL DEF Spec

\* Every variable has its type: no more than one load is current, the history
\* never outgrows its limit, and no version is active that was not published.
THEOREM TypeCorrect == Spec => []TypeOK
<1>1. ASSUME EditorInv PROVE TypeOK
  <2>1. Shape /\ Owned
    BY <1>1 DEF EditorInv
  <2>2. Cardinality({r \in requests : r.current}) <= 1
    <3>1. CASE \E r \in requests : r.current
      <4>1. PICK r \in requests : r.current
        BY <3>1
      <4>2. {s \in requests : s.current} = {r}
        BY <2>1, <4>1 DEF Shape, IsLoad
      <4>3. Cardinality({s \in requests : s.current}) = 1
        BY <4>2, FS_Singleton
      <4> QED BY <4>3
    <3>2. CASE ~ \E r \in requests : r.current
      <4>1. {r \in requests : r.current} = {}
        BY <3>2
      <4> QED BY <4>1, FS_EmptySet
    <3> QED BY <3>1, <3>2
  <2>3. \A c \in Contexts : active[c] \in 0 .. Len(versions[c])
    BY <2>1 DEF Shape, IsServer
  <2>4. \A c \in Contexts : drafts[c] # NoDraft => DOMAIN drafts[c] = Paths
    BY <2>1, NormalType DEF Owned, DraftsOwn, Own
  <2>5. /\ context \in Contexts /\ loadedContext \in Contexts \cup {None}
        /\ Len(history) <= HistoryLimit /\ open \in BOOLEAN /\ loading \in BOOLEAN
        /\ previewTimer \in BOOLEAN /\ preview.frame \in {"loading", "ready"}
        /\ foreign \subseteq Contexts
    BY <2>1 DEF Shape, IsPage, IsHistory, IsPreview, IsOrphaned
  <2>6. DOMAIN cfg = Paths /\ DOMAIN baseline = Paths
    BY <2>1 DEF Owned, EditorOwns
  <2> QED BY <2>2, <2>3, <2>4, <2>5, <2>6 DEF TypeOK
<1> QED BY <1>1, InvHolds, PTL

\* The two contexts never mix, where the titles tell them apart: whatever is
\* stored, however the administrator switches and edits, and however late a
\* load, a reply or the debounce comes, what is published, drafted or mounted
\* for a context was loaded and edited for it.
THEOREM ContextsKeptApart == ASSUME TitlesTell PROVE Spec => []NeverCrossed
<1>1. ASSUME EditorInv PROVE NeverCrossed
  <2>1. VersionsOwn /\ DraftsOwn /\ MountedOwns
    BY <1>1 DEF EditorInv, Owned
  <2>2. \A c \in Contexts : \A i \in 1 .. Len(versions[c]) :
            "header.title" \in DOMAIN versions[c][i] => Titled(c, versions[c][i])
    BY <2>1 DEF VersionsOwn, StoredFor, Told
  <2>3. \A c \in Contexts : drafts[c] # NoDraft => Titled(c, drafts[c])
    BY <2>1 DEF DraftsOwn, Own, Told
  <2>4. preview.mounted # None =>
            preview.mounted.context = context /\ Titled(context, preview.mounted.config)
    BY <2>1 DEF MountedOwns, IsMounted, Told
  <2> QED BY <2>2, <2>3, <2>4 DEF NeverCrossed
<1> QED BY <1>1, InvHolds, PTL

\* What the editor holds is what a reload would bring back, for every stored
\* configuration, panel and length of the history; what it calls unchanged is
\* a version of the context.
THEOREM DraftComesBack == Spec => []DraftIsKept
<1>1. EditorInv => DraftIsKept
  BY DEF EditorInv, Kept
<1> QED BY <1>1, InvHolds, PTL

\* The newest load is on its way while the rail says so, and without a debounce
\* the preview that is ready has mounted what the editor holds.
THEOREM NothingHangsEver == Spec => []NothingHangs
<1>1. ASSUME EditorInv PROVE NothingHangs
  <2>1. loading => \E r \in requests : r.current
    BY <1>1 DEF EditorInv, Shape, IsLoad
  <2>2. Loaded /\ ~previewTimer /\ preview.frame = "ready"
            => preview.mounted = [context |-> context, config |-> cfg]
    BY <1>1 DEF EditorInv, Shown
  <2> QED BY <2>1, <2>2 DEF NothingHangs
<1> QED BY <1>1, InvHolds, PTL

\* The preview of an unchanged editor is the site: the editor's reading of the
\* version called live, its defaults filled in, is read by the widget as the
\* version itself, but for the path of ReadApart.
THEOREM PreviewIsRight == Spec => []PreviewIsSite
<1>1. ASSUME EditorInv, Loaded, context \notin foreign, cfg = baseline, ~previewTimer,
             preview.mounted # None
      PROVE  \A path \in Paths \ ReadApart(LiveConfig) :
                NormalizeConfig(preview.mounted.config)[path] = NormalizeConfig(LiveConfig)[path]
  <2>1. Shape /\ Owned /\ Lives /\ Shown
    BY <1>1 DEF EditorInv
  <2>2. preview.frame = "ready"
    BY <1>1, <2>1 DEF Shape, IsPreview
  <2>3. preview.mounted.config = baseline
    BY <1>1, <2>1, <2>2 DEF Shown
  <2>4. baseline \in {MergeWidgetConfig(LiveConfig), LiveConfig}
    BY <1>1, <2>1 DEF Lives
  <2>5. IsStored(LiveConfig)
    <3>1. live.active \in 0 .. Len(versions[context]) /\ Len(versions[context]) \in Nat
      BY <2>1, ListType DEF Shape, IsBusy, IsLive, IsPage, IsServer
    <3>2. \A i \in 1 .. Len(versions[context]) : IsStored(versions[context][i])
      BY <2>1 DEF Owned, VersionsOwn, StoredFor, Shape, IsPage
    <3>3. CASE live.active = 0
      BY <3>3, NothingStored DEF LiveConfig
    <3>4. CASE live.active # 0
      <4>1. live.active \in 1 .. Len(versions[context])
        BY <3>1, <3>4
      <4> QED BY <3>2, <3>4, <4>1 DEF LiveConfig
    <3> QED BY <3>3, <3>4
  <2> QED BY <2>3, <2>4, <2>5, NormalizeMerge
<1>2. EditorInv => PreviewIsSite
  BY <1>1 DEF PreviewIsSite, LiveConfig
<1> QED BY <1>2, InvHolds, PTL

-----------------------------------------------------------------------------
(* The page of the reviews: ReviewsPage. *)

LEMMA LeastOf ==
    ASSUME NEW S \in SUBSET Nat, S # {}
    PROVE  \E m \in S : \A i \in S : m <= i
<1>1. PICK m \in S : \A i \in S : ~(<<i, m>> \in OpToRel(<, Nat))
  BY NatLessThanWellFounded, WFMin
<1>2. \A i \in S : ~(i < m)
  BY <1>1 DEF OpToRel
<1> QED BY <1>2

-----------------------------------------------------------------------------

\* s puts the members of set, as many as it has, in the order of the pairs in less.
Sorts(s, set, less) ==
    /\ s \in [1 .. Cardinality(set) -> set]
    /\ \A i, j \in 1 .. Cardinality(set) : i < j => <<s[i], s[j]>> \in less

\* An element is put before the first one it is less than.
LEMMA Inserted ==
    ASSUME NEW set, IsFiniteSet(set), NEW x, x \notin set, NEW less, NEW s,
           Sorts(s, set, less),
           \A a, b \in set \cup {x} : a # b => <<a, b>> \in less \/ <<b, a>> \in less,
           \A a, b, c \in set \cup {x} :
               <<a, b>> \in less /\ <<b, c>> \in less => <<a, c>> \in less
    PROVE  \E t : Sorts(t, set \cup {x}, less)
<1> DEFINE n == Cardinality(set)
<1>1. n \in Nat /\ IsFiniteSet(set \cup {x}) /\ Cardinality(set \cup {x}) = n + 1
  BY FS_CardinalityType, FS_AddElement
<1> HIDE DEF n
<1>2. s \in [1 .. n -> set] /\ \A i, j \in 1 .. n : i < j => <<s[i], s[j]>> \in less
  BY DEF Sorts, n
<1> DEFINE stops == {i \in 1 .. n + 1 : i = n + 1 \/ <<x, s[i]>> \in less}
<1>3. PICK p \in stops : \A i \in stops : p <= i
  <2>1. stops \in SUBSET Nat /\ n + 1 \in stops
    BY <1>1
  <2>2. stops # {}
    BY <2>1
  <2> HIDE DEF stops
  <2> QED BY <2>1, <2>2, LeastOf
<1>4. p \in 1 .. n + 1 /\ (p = n + 1 \/ <<x, s[p]>> \in less)
  OBVIOUS
<1>5. \A i \in 1 .. n : i < p => <<s[i], x>> \in less
  <2> SUFFICES ASSUME NEW i \in 1 .. n, i < p PROVE <<s[i], x>> \in less
    OBVIOUS
  <2>1. i \notin stops
    BY <1>1, <1>3, <1>4
  <2>2. ~(<<x, s[i]>> \in less)
    BY <1>1, <2>1
  <2>3. s[i] \in set /\ s[i] # x
    BY <1>2
  <2> QED BY <2>2, <2>3
<1>6. \A i \in 1 .. n : i >= p => <<x, s[i]>> \in less
  <2> SUFFICES ASSUME NEW i \in 1 .. n, i >= p PROVE <<x, s[i]>> \in less
    OBVIOUS
  <2>1. p \in 1 .. n /\ <<x, s[p]>> \in less
    BY <1>1, <1>4
  <2>2. CASE i = p
    BY <2>1, <2>2
  <2>3. CASE p < i
    <3>1. <<s[p], s[i]>> \in less
      BY <1>2, <2>1, <2>3
    <3>2. s[p] \in set /\ s[i] \in set
      BY <1>2, <2>1
    <3> QED BY <2>1, <3>1, <3>2
  <2> QED BY <1>1, <2>1, <2>2, <2>3
<1> HIDE DEF stops
<1> DEFINE t == [i \in 1 .. n + 1 |->
                   IF i < p THEN s[i] ELSE IF i = p THEN x ELSE s[i - 1]]
<1>7. ASSUME NEW i \in 1 .. n + 1
      PROVE  /\ i < p => i \in 1 .. n /\ t[i] = s[i]
             /\ i = p => t[i] = x
             /\ p < i => i - 1 \in 1 .. n /\ i - 1 >= p /\ t[i] = s[i - 1]
  BY <1>1, <1>4
<1>8. ASSUME NEW i \in 1 .. n + 1 PROVE t[i] \in set \cup {x}
  <2>1. i < p \/ i = p \/ p < i
    BY <1>1, <1>4
  <2> HIDE DEF t
  <2> QED BY <1>2, <1>7, <2>1
<1>9. ASSUME NEW i \in 1 .. n + 1, NEW j \in 1 .. n + 1, i < j
      PROVE  <<t[i], t[j]>> \in less
  <2> HIDE DEF t
  <2>1. CASE j < p
    <3>1. i < p /\ i \in 1 .. n /\ j \in 1 .. n /\ t[i] = s[i] /\ t[j] = s[j]
      BY <1>1, <1>4, <1>7, <1>9, <2>1
    <3> QED BY <1>2, <1>9, <3>1
  <2>2. CASE j = p
    <3>1. i < p /\ i \in 1 .. n /\ t[i] = s[i] /\ t[j] = x
      BY <1>1, <1>4, <1>7, <1>9, <2>2
    <3> QED BY <1>5, <3>1
  <2>3. CASE p < j /\ i = p
    <3>1. j - 1 \in 1 .. n /\ j - 1 >= p /\ t[j] = s[j - 1] /\ t[i] = x
      BY <1>1, <1>4, <1>7, <2>3
    <3> QED BY <1>6, <3>1
  <2>4. CASE p < j /\ i < p
    <3>1. j - 1 \in 1 .. n /\ i \in 1 .. n /\ i < j - 1 /\ t[j] = s[j - 1] /\ t[i] = s[i]
      BY <1>1, <1>4, <1>7, <2>4
    <3> QED BY <1>2, <3>1
  <2>5. CASE p < i
    <3>1. p < j
      BY <1>1, <1>4, <1>9, <2>5
    <3>2. /\ j - 1 \in 1 .. n /\ i - 1 \in 1 .. n
          /\ t[j] = s[j - 1] /\ t[i] = s[i - 1]
      BY <1>7, <2>5, <3>1
    <3>3. i - 1 < j - 1
      BY <1>9
    <3> QED BY <1>2, <3>2, <3>3
  <2> QED BY <1>1, <1>4, <1>9, <2>1, <2>2, <2>3, <2>4, <2>5
<1>10. Sorts(t, set \cup {x}, less)
  <2>1. t \in [1 .. n + 1 -> set \cup {x}]
    BY <1>8
  <2> HIDE DEF t
  <2> QED BY <1>1, <1>9, <2>1 DEF Sorts
<1> QED BY <1>10

\* Every finite set can be sorted by a total order.
LEMMA Sortable ==
    ASSUME NEW set, IsFiniteSet(set), NEW less,
           \A a, b \in set : a # b => <<a, b>> \in less \/ <<b, a>> \in less,
           \A a, b, c \in set : <<a, b>> \in less /\ <<b, c>> \in less => <<a, c>> \in less
    PROVE  \E s : Sorts(s, set, less)
<1> DEFINE n == Cardinality(set)
           T == {i \in 0 .. n : \A U \in SUBSET set :
                                    Cardinality(U) = i => \E s : Sorts(s, U, less)}
<1>1. n \in Nat
  BY FS_CardinalityType
<1>2. 0 \in T
  <2> SUFFICES ASSUME NEW U \in SUBSET set, Cardinality(U) = 0
               PROVE  \E s : Sorts(s, U, less)
    BY <1>1
  <2>1. Sorts([i \in 1 .. 0 |-> i], U, less)
    BY DEF Sorts
  <2> QED BY <2>1
<1>3. ASSUME NEW i \in 1 .. n, i - 1 \in T PROVE i \in T
  <2> SUFFICES ASSUME NEW U \in SUBSET set, Cardinality(U) = i
               PROVE  \E s : Sorts(s, U, less)
    BY <1>1
  <2>1. IsFiniteSet(U)
    BY FS_Subset
  <2>2. PICK x : x \in U
    <3>1. U # {}
      BY <1>1, <2>1, FS_EmptySet
    <3> QED BY <3>1
  <2> DEFINE V == U \ {x}
  <2>3. IsFiniteSet(V) /\ Cardinality(V) = i - 1
    BY <2>1, <2>2, FS_RemoveElement
  <2>4. V \in SUBSET set /\ x \notin V /\ U = V \cup {x}
    BY <2>2
  <2> HIDE DEF V
  <2>5. PICK s : Sorts(s, V, less)
    BY <1>3, <2>3, <2>4
  <2>6. \A a, b \in V \cup {x} : a # b => <<a, b>> \in less \/ <<b, a>> \in less
    BY <2>4
  <2>7. \A a, b, c \in V \cup {x} :
            <<a, b>> \in less /\ <<b, c>> \in less => <<a, c>> \in less
    BY <2>4
  <2>8. \E t : Sorts(t, V \cup {x}, less)
    BY <2>3, <2>4, <2>5, <2>6, <2>7, Inserted
  <2> QED BY <2>4, <2>8
<1> HIDE DEF T
<1>4. n \in T
  <2>1. T \in SUBSET (0 .. n)
    BY DEF T
  <2>2. T = 0 .. n
    BY <1>1, <1>2, <1>3, <2>1, Induction
  <2> QED BY <1>1, <2>2
<1> QED BY <1>4 DEF T
-----------------------------------------------------------------------------
(* What the server answers *)

PageListings ==
    {l \in Listings : Len(l.rows) <= PageSize /\ l.total <= Cardinality(Ids)}

LEMMA OrderedType ==
    ASSUME NEW db, NEW set \in SUBSET Ids, \A id \in set : db[id] \in Reviews
    PROVE  Ordered(db, set) \in [1 .. Cardinality(set) -> set]
<1> DEFINE less == {p \in set \X set : Before(db, p[1], p[2])}
<1>1. \A a, b \in set : <<a, b>> \in less <=> Before(db, a, b)
  OBVIOUS
<1> HIDE DEF less
<1>2. IsFiniteSet(set) /\ set \subseteq Nat
  BY PageAssumption, FS_Subset
<1>3. \A id \in set : db[id].pinned \in BOOLEAN
  BY DEF Reviews
<1>4. \A a, b \in set : a # b => <<a, b>> \in less \/ <<b, a>> \in less
  BY <1>1, <1>2, <1>3 DEF Before
<1>5. \A a, b, c \in set : <<a, b>> \in less /\ <<b, c>> \in less => <<a, c>> \in less
  BY <1>1, <1>2, <1>3 DEF Before
<1>6. PICK s : Sorts(s, set, less)
  BY <1>2, <1>4, <1>5, Sortable
<1>7. \E t \in [1 .. Cardinality(set) -> set] :
          \A i, j \in 1 .. Cardinality(set) : i < j => Before(db, t[i], t[j])
  BY <1>1, <1>6 DEF Sorts
<1> QED BY <1>7 DEF Ordered

\* A list is a page of reviews with the number of all.
LEMMA ListingType ==
    ASSUME NEW db, DOMAIN db \subseteq Ids, \A id \in DOMAIN db : db[id] \in Reviews,
           NEW q, NEW from \in Nat
    PROVE  Listing(db, q, from) \in PageListings
<1> DEFINE set == {id \in DOMAIN db : Matches(db, id, q)}
           found == Ordered(db, set)
           last == IF from + PageSize < Len(found) THEN from + PageSize ELSE Len(found)
           part == SubSeq(found, from + 1, last)
           lines == [i \in DOMAIN part |-> [id |-> part[i], review |-> db[part[i]]]]
<1>1. set \in SUBSET Ids
  OBVIOUS
<1>2. Cardinality(set) \in Nat /\ Cardinality(set) <= Cardinality(Ids)
  BY <1>1, PageAssumption, FS_Subset, FS_CardinalityType
<1>3. found \in [1 .. Cardinality(set) -> set]
  BY <1>1, OrderedType
<1>4. found \in Seq(set) /\ Len(found) = Cardinality(set)
  <2> HIDE DEF set, found
  <2> QED BY <1>2, <1>3
<1>5. set \subseteq DOMAIN db
  OBVIOUS
<1> HIDE DEF set, found
<1>6. PageSize \in Nat
  BY PageAssumption
<1>7. last \in Nat /\ last <= Len(found) /\ last <= from + PageSize
  BY <1>2, <1>4, <1>6
<1> HIDE DEF last
<1>8. part \in Seq(set) /\ Len(part) <= PageSize
  BY <1>4, <1>6, <1>7
<1> HIDE DEF part
<1>9. lines \in Seq([id : Ids, review : Reviews]) /\ Len(lines) = Len(part)
  <2>1. DOMAIN part = 1 .. Len(part) /\ \A i \in DOMAIN part : part[i] \in set
    BY <1>8
  <2>2. \A i \in DOMAIN part : [id |-> part[i], review |-> db[part[i]]]
                                  \in [id : Ids, review : Reviews]
    BY <1>1, <1>5, <2>1
  <2>3. Len(part) \in Nat
    BY <1>8
  <2> QED BY <2>1, <2>2, <2>3
<1> HIDE DEF lines
<1>10. Listing(db, q, from) = [rows |-> lines, total |-> Len(found)]
  BY DEF Listing, lines, part, last, found, set
<1> QED BY <1>2, <1>4, <1>8, <1>9, <1>10 DEF PageListings, Listings

Statuses == {"pending", "approved", "rejected", "deleted", "imported"}

ChangeOK(change) ==
    /\ DOMAIN change \subseteq Fields
    /\ "status" \in DOMAIN change => change["status"] \in Statuses
    /\ "visible" \in DOMAIN change => change["visible"] \in BOOLEAN
    /\ "pinned" \in DOMAIN change => change["pinned"] \in BOOLEAN
    /\ "text" \in DOMAIN change => change["text"] \in Texts
    /\ "reply" \in DOMAIN change => change["reply"] \in Texts

LEMMA ChangedType ==
    ASSUME NEW review \in Reviews, NEW change, ChangeOK(change)
    PROVE  Changed(review, change) \in Reviews
<1> DEFINE new == [f \in Fields |-> IF f \in DOMAIN change THEN change[f] ELSE review[f]]
<1>1. /\ new["status"] \in Statuses /\ new["visible"] \in BOOLEAN
      /\ new["pinned"] \in BOOLEAN /\ new["text"] \in Texts /\ new["reply"] \in Texts
  BY DEF ChangeOK, Fields, Reviews, Statuses
<1>2. new = [status |-> new["status"], visible |-> new["visible"], pinned |-> new["pinned"],
             text |-> new["text"], reply |-> new["reply"]]
  BY DEF Fields
<1> HIDE DEF new
<1>3. new \in Reviews
  BY <1>1, <1>2 DEF Reviews, Statuses
<1>4. [new EXCEPT !.visible = TRUE] \in Reviews /\ [new EXCEPT !.visible = FALSE] \in Reviews
  BY <1>3 DEF Reviews
<1> QED BY <1>3, <1>4 DEF Changed, new

LEMMA WrittenType ==
    ASSUME NEW db, DOMAIN db \subseteq Ids, \A id \in DOMAIN db : db[id] \in Reviews,
           NEW call, ChangeOK(call.change)
    PROVE  /\ DOMAIN Written(db, call) \subseteq Ids
           /\ \A id \in DOMAIN Written(db, call) : Written(db, call)[id] \in Reviews
<1>1. CASE call.kind = "purge"
  BY <1>1 DEF Written
<1>2. CASE call.kind = "write"
  <2>1. DOMAIN Written(db, call) = DOMAIN db
    BY <1>2 DEF Written
  <2>2. \A id \in DOMAIN db : Written(db, call)[id] =
            IF id \in call.ids THEN Changed(db[id], call.change) ELSE db[id]
    BY <1>2 DEF Written
  <2> QED BY <2>1, <2>2, ChangedType
<1>3. CASE call.kind \notin {"purge", "write"}
  BY <1>3 DEF Written
<1> QED BY <1>1, <1>2, <1>3
-----------------------------------------------------------------------------
(* The invariant *)

Queries == [filter : FilterValues, search : Terms \cup {""}, article : Articles \cup {""}]
Kinds == {"list", "pins", "write", "purge", "retry", "put"}

AnyChange == UNION {[D -> BOOLEAN \cup Statuses \cup Texts] : D \in SUBSET Fields}
AnyAnswer == {Nil, Failed, "ok"} \cup (SUBSET Ids) \cup PageListings

AnswerOK(c) ==
    \/ c.answer \in {Nil, Failed}
    \/ c.kind = "list" /\ c.answer \in PageListings
    \/ c.kind = "pins" /\ c.answer \subseteq Ids
    \/ c.kind \notin {"list", "pins"} /\ c.answer = "ok"

Calls == {c \in [kind : Kinds, query : Queries, offset : Nat, ids : SUBSET Ids,
                 change : AnyChange, answer : AnyAnswer] :
             ChangeOK(c.change) /\ AnswerOK(c)}

ServerTyped ==
    /\ DOMAIN stored \subseteq Ids
    /\ \A id \in DOMAIN stored : stored[id] \in Reviews
    /\ pins \in [Articles -> SUBSET Ids]

SearchTyped ==
    /\ query \in Queries
    /\ boxes \in [search : Terms \cup {"", Blank}, article : Articles \cup {"", Blank}]
    /\ timer \in BOOLEAN /\ offset \in Nat

RowsTyped ==
    /\ rows \in Seq([id : Ids, review : Reviews]) /\ Len(rows) <= PageSize
    /\ total \in 0 .. Cardinality(Ids)
    /\ editDrafts \in [OnPage -> Texts] /\ replyDrafts \in [OnPage -> Texts]
    /\ typed \subseteq Ids

MarksTyped ==
    /\ selected \subseteq Ids /\ blind \subseteq Ids /\ articlePins \subseteq Ids
    /\ publishing \in BOOLEAN /\ doubt \in BOOLEAN

CallsTyped == calls \in Seq(Calls) /\ Len(calls) <= MaxCalls

ViewerTyped ==
    viewer = Nil \/ (viewer \in [count : Nat, index : Nat] /\ viewer.index < viewer.count)

Typed == ServerTyped /\ SearchTyped /\ RowsTyped /\ MarksTyped /\ CallsTyped /\ ViewerTyped

\* What is ticked is on the page, or may be gone with the list on its way.
TicksHeld == SelectionShown /\ (UnderWay({"list"}) => selected \subseteq blind)

RowsFresh == [rows |-> rows, total |-> total] = Listing(stored, query, offset)
PinsFresh == articlePins = PinsOf(query.article)

\* A single request without doubt is one of the state in force, and its answer
\* still true.
CallFresh(c) ==
    /\ c.query = query /\ c.answer # Failed
    /\ c.kind \in {"list", "write", "purge", "retry"} => c.offset = offset
    /\ c.kind = "list" => c.answer \in {Nil, Listing(stored, query, offset)}
    /\ c.kind \in {"pins", "put"} => RowsFresh
    /\ c.kind = "pins" => c.answer \in {Nil, PinsOf(query.article)}
    /\ c.kind = "put" =>
          /\ query.article \in Articles \ {""}
          /\ c.answer # Nil => pins[query.article] = c.ids
          /\ c.answer = Nil => \E id \in Ids : \/ c.ids = pins[query.article] \cup {id}
                                               \/ c.ids = pins[query.article] \ {id}

Undoubted ==
    ~doubt => /\ Len(calls) <= 1
              /\ calls = <<>> => RowsFresh /\ PinsFresh
              /\ \A i \in DOMAIN calls : CallFresh(calls[i])

ReviewsInv == Typed /\ TicksHeld /\ DraftsFollowRows /\ SearchSettles /\ Undoubted

-----------------------------------------------------------------------------
(* The actions of the page, in four kinds.  The history of doubt and the typing *)
(* are the same for all of a kind.                                              *)

LEMMA ListLengths ==
    /\ Len(calls) = 0 => (CallsTyped => calls = <<>>)
    /\ CallsTyped => Len(calls) \in Nat /\ DOMAIN calls = 1 .. Len(calls)
                     /\ \A i \in DOMAIN calls : calls[i] \in Calls
  BY DEF CallsTyped

LEMMA RowOnPage ==
    ASSUME RowsTyped, NEW id \in OnPage
    PROVE  id \in Ids /\ Row(id) \in Reviews /\ \E i \in DOMAIN rows : rows[i].id = id
<1>1. \E i \in DOMAIN rows : rows[i].id = id
  BY DEF OnPage
<1> DEFINE at == CHOOSE i \in DOMAIN rows : rows[i].id = id
<1>2. at \in DOMAIN rows /\ rows[at].id = id
  BY <1>1
<1> HIDE DEF at
<1>3. rows[at] \in [id : Ids, review : Reviews]
  <2>1. rows \in Seq([id : Ids, review : Reviews])
    BY DEF RowsTyped
  <2> DEFINE X == [id : Ids, review : Reviews]
  <2> HIDE DEF X
  <2>2. \A s \in Seq(X) : \A i \in DOMAIN s : s[i] \in X
    OBVIOUS
  <2> USE DEF X
  <2> QED BY <1>2, <2>1, <2>2
<1>4. Row(id) = rows[at].review
  BY DEF Row, at
<1> QED BY <1>1, <1>2, <1>3, <1>4

LEMMA NewCall ==
    ASSUME NEW kind \in Kinds, NEW q \in Queries, NEW from \in Nat, NEW ids \in SUBSET Ids,
           NEW change \in AnyChange, ChangeOK(change)
    PROVE  Call(kind, q, from, ids, change) \in Calls
<1>1. Nil \in AnyAnswer
  BY DEF AnyAnswer
<1> QED BY <1>1 DEF Call, Calls, AnswerOK

LEMMA NothingChanges == NoChange \in AnyChange /\ ChangeOK(NoChange)
<1>1. NoChange \in [{} -> BOOLEAN \cup Statuses \cup Texts]
  BY DEF NoChange
<1> QED BY <1>1 DEF AnyChange, ChangeOK, NoChange

\* The changes the page asks for.
LEMMA PageChanges ==
    /\ \A b \in BOOLEAN : [visible |-> b] \in AnyChange /\ ChangeOK([visible |-> b])
    /\ \A b \in BOOLEAN : [pinned |-> b] \in AnyChange /\ ChangeOK([pinned |-> b])
    /\ \A s \in Statuses : [status |-> s] \in AnyChange /\ ChangeOK([status |-> s])
    /\ \A x \in Texts : [text |-> x] \in AnyChange /\ ChangeOK([text |-> x])
    /\ \A x \in Texts : [reply |-> x] \in AnyChange /\ ChangeOK([reply |-> x])
    /\ \A x \in Texts, s \in Statuses :
          [text |-> x, status |-> s] \in AnyChange /\ ChangeOK([text |-> x, status |-> s])
<1> DEFINE Values == BOOLEAN \cup Statuses \cup Texts
<1>1. ASSUME NEW D \in SUBSET Fields, NEW c \in [D -> Values] PROVE c \in AnyChange
  BY <1>1 DEF AnyChange
<1>2. /\ \A b \in BOOLEAN : [visible |-> b] \in [{"visible"} -> Values]
      /\ \A b \in BOOLEAN : [pinned |-> b] \in [{"pinned"} -> Values]
      /\ \A s \in Statuses : [status |-> s] \in [{"status"} -> Values]
      /\ \A x \in Texts : [text |-> x] \in [{"text"} -> Values]
      /\ \A x \in Texts : [reply |-> x] \in [{"reply"} -> Values]
      /\ \A x \in Texts, s \in Statuses :
            [text |-> x, status |-> s] \in [{"text", "status"} -> Values]
  OBVIOUS
<1> HIDE DEF Values
<1>3. /\ {"visible"} \in SUBSET Fields /\ {"pinned"} \in SUBSET Fields
      /\ {"status"} \in SUBSET Fields /\ {"text"} \in SUBSET Fields
      /\ {"reply"} \in SUBSET Fields /\ {"text", "status"} \in SUBSET Fields
  BY DEF Fields
<1>4. /\ \A b \in BOOLEAN : ChangeOK([visible |-> b]) /\ ChangeOK([pinned |-> b])
      /\ \A s \in Statuses : ChangeOK([status |-> s])
      /\ \A x \in Texts : ChangeOK([text |-> x]) /\ ChangeOK([reply |-> x])
      /\ \A x \in Texts, s \in Statuses : ChangeOK([text |-> x, status |-> s])
  BY DEF ChangeOK, Fields
<1> QED BY <1>1, <1>2, <1>3, <1>4

\* Filters, boxes and pager: either they leave the list alone or load it anew.
SearchStep ==
    /\ StillPage
    /\ SearchTyped'
    /\ SearchSettles'
    /\ \/ LoadList(calls, query', offset') /\ Len(calls) < MaxCalls
       \/ UNCHANGED <<query, offset, calls, marks, doubt>>

TickStep ==
    /\ \E ids \in SUBSET (selected \cup OnPage) : Ticked(ids)
    /\ UNCHANGED <<search, calls, doubt>>
    /\ StillPage

WriteStep ==
    /\ StillPage /\ UNCHANGED <<search, marks>>
    /\ Len(calls) < MaxCalls
    /\ doubt' = (doubt \/ calls # <<>>)
    /\ \E call \in Calls :
        /\ Send(calls, call)
        /\ call.query = query /\ call.offset = offset /\ call.answer = Nil
        /\ \/ call.kind \in {"write", "purge", "retry"}
           \/ /\ call.kind = "put" /\ query.article # ""
              /\ \E id \in Ids : \/ call.ids = articlePins \cup {id}
                                 \/ call.ids = articlePins \ {id}

LEMMA WatchedLoads ==
    ASSUME Watched PROVE
        \/ LoadList(calls, query', offset')
        \/ UNCHANGED <<query, offset, calls, marks, doubt>>
  BY DEF Watched

LEMMA TrimType ==
    /\ \A text \in Terms \cup {"", Blank} : Trim(text) \in Terms \cup {""}
    /\ \A text \in Articles \cup {"", Blank} : Trim(text) \in Articles \cup {""}
  BY DEF Trim

LEMMA SearchedType ==
    ASSUME SearchTyped
    PROVE  /\ Searched \in Queries
           /\ Searched.search = Trim(boxes.search) /\ Searched.article = Trim(boxes.article)
<1>1. Trim(boxes.search) \in Terms \cup {""} /\ Trim(boxes.article) \in Articles \cup {""}
  BY TrimType DEF SearchTyped
<1> QED BY <1>1 DEF SearchTyped, Searched, Queries

LEMMA Searching ==
    ASSUME Typed, SearchSettles,
           \/ SetFilter \/ TypeSearch \/ TypeArticle \/ Debounce
           \/ RunSearch \/ Clear \/ TurnPage
    PROVE  SearchStep
<1> USE DEF Typed
<1>1. CASE SetFilter
  <2>1. query' \in Queries /\ query'.search = query.search /\ query'.article = query.article
    BY <1>1 DEF SetFilter, SearchTyped, Queries
  <2>2. SearchTyped' /\ SearchSettles'
    BY <1>1, <2>1 DEF SetFilter, SearchTyped, SearchSettles
  <2> QED BY <1>1, <2>2, WatchedLoads DEF SetFilter, SearchStep, Act
<1>2. CASE TypeSearch
  BY <1>2 DEF TypeSearch, SearchStep, SearchTyped, SearchSettles
<1>3. CASE TypeArticle
  BY <1>3 DEF TypeArticle, SearchStep, SearchTyped, SearchSettles
<1>4. CASE Debounce
  <2>1. SearchTyped' /\ SearchSettles'
    BY <1>4, SearchedType DEF Debounce, SearchTyped, SearchSettles
  <2> QED BY <1>4, <2>1, WatchedLoads DEF Debounce, SearchStep
<1>5. CASE RunSearch
  <2>1. SearchTyped' /\ SearchSettles'
    BY <1>5, SearchedType DEF RunSearch, SearchTyped, SearchSettles
  <2>2. LoadList(calls, query', offset') \/ UNCHANGED <<query, offset, calls, marks, doubt>>
    BY <1>5, WatchedLoads DEF RunSearch
  <2> QED BY <1>5, <2>1, <2>2 DEF RunSearch, SearchStep, Act
<1>6. CASE Clear
  <2>1. query' \in Queries /\ boxes' \in [search : Terms \cup {"", Blank},
                                          article : Articles \cup {"", Blank}]
    BY <1>6 DEF Clear, SearchTyped, Queries
  <2>2. SearchTyped' /\ SearchSettles'
    BY <1>6, <2>1 DEF Clear, SearchTyped, SearchSettles
  <2> QED BY <1>6, <2>2, WatchedLoads DEF Clear, SearchStep, Act
<1>7. CASE TurnPage
  <2>1. offset' \in Nat
    <3>1. offset \in Nat /\ PageSize \in Nat
      BY PageAssumption DEF SearchTyped
    <3>2. offset' \in {0, offset - PageSize, offset + PageSize}
          /\ (offset' = offset - PageSize => offset' = 0 \/ offset > PageSize)
      BY <1>7, <3>1 DEF TurnPage
    <3> QED BY <3>1, <3>2
  <2>2. SearchTyped' /\ SearchSettles'
    BY <1>7, <2>1 DEF TurnPage, SearchTyped, SearchSettles
  <2> QED BY <1>7, <2>2, WatchedLoads DEF TurnPage, SearchStep, Act
<1> QED BY <1>1, <1>2, <1>3, <1>4, <1>5, <1>6, <1>7

LEMMA Ticking ==
    ASSUME Typed, ToggleOne \/ ToggleAllOnPage \/ ClearSelection
    PROVE  TickStep
<1>1. CASE ToggleOne
  BY <1>1 DEF ToggleOne, TickStep
<1>2. CASE ToggleAllOnPage
  BY <1>2 DEF ToggleAllOnPage, TickStep
<1>3. CASE ClearSelection
  BY <1>3 DEF ClearSelection, TickStep
<1> QED BY <1>1, <1>2, <1>3

LEMMA Writes ==
    ASSUME Typed, Len(calls) < MaxCalls, NEW kind \in {"write", "purge", "retry"},
           NEW ids \in SUBSET Ids, NEW change \in AnyChange, ChangeOK(change),
           Write(kind, ids, change)
    PROVE  WriteStep
<1> DEFINE call == Call(kind, query, offset, ids, change)
<1>1. call \in Calls
  BY NewCall DEF Kinds, Typed, SearchTyped
<1>2. /\ call.query = query /\ call.offset = offset /\ call.answer = Nil
      /\ call.kind = kind
  BY DEF Call
<1>3. Send(calls, call) /\ StillPage /\ UNCHANGED <<search, marks>>
      /\ doubt' = (doubt \/ calls # <<>>)
  BY DEF Write
<1> HIDE DEF call
<1> QED BY <1>1, <1>2, <1>3 DEF WriteStep

LEMMA Writing ==
    ASSUME Typed, \/ Moderate \/ SaveReviewEdits \/ RemoveReview \/ SaveReply
                  \/ BulkModerate \/ ToggleArticlePin
    PROVE  WriteStep
<1> DEFINE Asks == \E kind \in {"write", "purge", "retry"}, ids \in SUBSET Ids :
                       \E change \in AnyChange : ChangeOK(change) /\ Write(kind, ids, change)
<1>1. Len(calls) < MaxCalls
  BY DEF Moderate, SaveReviewEdits, RemoveReview, SaveReply, BulkModerate, ToggleArticlePin,
         Act
<1>2. \A id \in OnPage :
          /\ {id} \in SUBSET Ids /\ Row(id) \in Reviews
          /\ editDrafts[id] \in Texts /\ replyDrafts[id] \in Texts
  BY RowOnPage DEF Typed, RowsTyped
<1>3. CASE Moderate
  <2>1. \A id \in OnPage : (~Row(id).visible) \in BOOLEAN /\ (~Row(id).pinned) \in BOOLEAN
    <3>1. \A v \in BOOLEAN : (~v) \in BOOLEAN
      OBVIOUS
    <3>2. \A id \in OnPage : Row(id).visible \in BOOLEAN /\ Row(id).pinned \in BOOLEAN
      BY <1>2 DEF Reviews
    <3> QED BY <3>1, <3>2
  <2> Asks
    BY <1>2, <1>3, <2>1, PageChanges DEF Moderate
  <2> QED BY <1>1, Writes
<1>4. CASE SaveReviewEdits
  <2> Asks
    BY <1>2, <1>4, PageChanges DEF SaveReviewEdits, Statuses
  <2> QED BY <1>1, Writes
<1>5. CASE RemoveReview
  <2> Asks
    BY <1>2, <1>5, PageChanges, NothingChanges DEF RemoveReview, Statuses
  <2> QED BY <1>1, Writes
<1>6. CASE SaveReply
  <2> Asks
    BY <1>2, <1>6, PageChanges, NothingChanges DEF SaveReply
  <2> QED BY <1>1, Writes
<1>7. CASE BulkModerate
  <2>1. selected \in SUBSET Ids
    BY DEF Typed, MarksTyped
  <2> Asks
    BY <1>7, <2>1, PageChanges DEF BulkModerate, Statuses
  <2> QED BY <1>1, Writes
<1>8. CASE ToggleArticlePin
  <2>1. PICK id \in OnPage :
            Write("put", IF id \in articlePins THEN articlePins \ {id}
                         ELSE articlePins \cup {id}, NoChange)
    BY <1>8 DEF ToggleArticlePin
  <2> DEFINE ids == IF id \in articlePins THEN articlePins \ {id} ELSE articlePins \cup {id}
             call == Call("put", query, offset, ids, NoChange)
  <2>2. id \in Ids /\ ids \in SUBSET Ids
    BY <1>2 DEF Typed, MarksTyped
  <2>3. call \in Calls
    BY <2>2, NewCall, NothingChanges DEF Kinds, Typed, SearchTyped
  <2>4. /\ call.query = query /\ call.offset = offset /\ call.answer = Nil
        /\ call.kind = "put" /\ call.ids = ids
    BY DEF Call
  <2>5. Send(calls, call) /\ StillPage /\ UNCHANGED <<search, marks>>
        /\ doubt' = (doubt \/ calls # <<>>)
    BY <2>1 DEF Write
  <2>6. query.article # ""
    BY <1>8 DEF ToggleArticlePin
  <2>7. ids = articlePins \cup {id} \/ ids = articlePins \ {id}
    OBVIOUS
  <2> HIDE DEF call, ids
  <2> QED BY <1>1, <2>2, <2>3, <2>4, <2>5, <2>6, <2>7 DEF WriteStep
<1> QED BY <1>3, <1>4, <1>5, <1>6, <1>7, <1>8

\* Pictures and the publish button touch nothing else.
QuietStep ==
    /\ UNCHANGED <<backend, search, table, marks, articlePins, calls, doubt>>
    /\ publishing' \in BOOLEAN
    /\ ViewerTyped'

LEMMA Quiet ==
    ASSUME Typed, \/ PublishChanges \/ ExportAnswers \/ OpenMedia \/ ShiftMedia \/ CloseMedia
                  \/ UNCHANGED reviewsVars
    PROVE  QuietStep
<1>1. ViewerTyped /\ publishing \in BOOLEAN
  BY DEF Typed, MarksTyped
<1>2. CASE PublishChanges \/ ExportAnswers
  BY <1>1, <1>2 DEF PublishChanges, ExportAnswers, QuietStep, ViewerTyped
<1>3. CASE UNCHANGED reviewsVars
  BY <1>1, <1>3 DEF reviewsVars, QuietStep, ViewerTyped, backend, search, table, marks
<1>4. CASE OpenMedia
  <2>1. PICK id \in OnPage : \E i \in 0 .. MediaOf[id] - 1 :
            viewer' = [count |-> MediaOf[id], index |-> i]
    BY <1>4 DEF OpenMedia
  <2>2. MediaOf[id] \in Nat
    BY RowOnPage, PageAssumption DEF Typed
  <2>3. ViewerTyped'
    BY <2>1, <2>2 DEF ViewerTyped
  <2> QED BY <1>1, <1>4, <2>3 DEF OpenMedia, QuietStep
<1>5. CASE ShiftMedia
  <2>1. /\ viewer \in [count : Nat, index : Nat] /\ viewer.index < viewer.count
        /\ \E d \in {1, viewer.count - 1} :
               viewer' = [viewer EXCEPT !.index = (@ + d) % viewer.count]
    BY <1>1, <1>5 DEF ShiftMedia, ViewerTyped
  <2> DEFINE n == viewer.count
  <2>2. PICK d \in {1, n - 1} : viewer' = [viewer EXCEPT !.index = (viewer.index + d) % n]
    BY <2>1
  <2>3. n \in Nat /\ n > 0 /\ viewer.index + d \in Nat
    BY <2>1
  <2>4. (viewer.index + d) % n \in 0 .. n - 1
    <3> HIDE DEF n
    <3> QED BY <2>3
  <2>5. ViewerTyped'
    BY <2>1, <2>2, <2>3, <2>4 DEF ViewerTyped
  <2> QED BY <1>1, <1>5, <2>5 DEF ShiftMedia, StillViewer, QuietStep
<1>6. CASE CloseMedia
  BY <1>1, <1>6 DEF CloseMedia, StillViewer, QuietStep, ViewerTyped
<1> QED BY <1>2, <1>3, <1>4, <1>5, <1>6

LEMMA StepKinds ==
    ASSUME Typed, SearchSettles, [ReviewsNext]_reviewsVars
    PROVE  \/ SearchStep \/ TickStep \/ WriteStep \/ QuietStep
           \/ TypeDraft \/ ServeCall \/ RefuseCall \/ CallEnds
<1>1. CASE \/ SetFilter \/ TypeSearch \/ TypeArticle \/ Debounce
           \/ RunSearch \/ Clear \/ TurnPage
  BY <1>1, Searching
<1>2. CASE ToggleOne \/ ToggleAllOnPage \/ ClearSelection
  BY <1>2, Ticking
<1>3. CASE \/ Moderate \/ SaveReviewEdits \/ RemoveReview \/ SaveReply
           \/ BulkModerate \/ ToggleArticlePin
  BY <1>3, Writing
<1>4. CASE \/ PublishChanges \/ ExportAnswers \/ OpenMedia \/ ShiftMedia \/ CloseMedia
           \/ UNCHANGED reviewsVars
  BY <1>4, Quiet
<1> QED BY <1>1, <1>2, <1>3, <1>4 DEF ReviewsNext, Admin

-----------------------------------------------------------------------------
(* Requests sent and ended *)

LEMMA Sent ==
    ASSUME NEW rest \in Seq(Calls), Len(rest) < MaxCalls, NEW call \in Calls,
           Send(rest, call)
    PROVE  /\ CallsTyped'
           /\ Len(calls') = Len(rest) + 1
           /\ calls'[Len(rest) + 1] = call
           /\ \A i \in 1 .. Len(rest) : calls'[i] = rest[i]
<1>1. calls' = Append(rest, call) /\ MaxCalls \in Nat
  BY PageAssumption DEF Send
<1> HIDE DEF Calls
<1> QED BY <1>1 DEF CallsTyped

\* A load sent alone for the state in force answers for it.
LEMMA LoadUndoubted ==
    ASSUME NEW rest \in Seq(Calls), NEW q, NEW from, LoadList(rest, q, from)
    PROVE  Undoubted'
<1> SUFFICES ASSUME ~doubt' PROVE Undoubted'
  BY DEF Undoubted
<1>1. rest = <<>> /\ q = query' /\ from = offset'
  BY DEF LoadList
<1>2. calls' = <<ListCall(q, from)>>
  BY <1>1 DEF LoadList, Send
<1>3. /\ ListCall(q, from).query = q /\ ListCall(q, from).offset = from
      /\ ListCall(q, from).kind = "list" /\ ListCall(q, from).answer = Nil
  BY DEF ListCall, Call
<1>4. Len(calls') = 1 /\ DOMAIN calls' = {1} /\ calls'[1] = ListCall(q, from)
  BY <1>2
<1>5. ASSUME NEW i \in DOMAIN calls' PROVE CallFresh(calls[i])'
  <2>1. calls'[i] = ListCall(q, from)
    BY <1>4
  <2> QED BY <1>1, <1>3, <2>1, FailedAssumption DEF CallFresh
<1>6. Len(calls') <= 1
  BY <1>4
<1>7. calls' # <<>>
  BY <1>2
<1> QED BY <1>5, <1>6, <1>7 DEF Undoubted

LEMMA LoadKeeps ==
    ASSUME NEW rest \in Seq(Calls), Len(rest) < MaxCalls, NEW q \in Queries,
           NEW from \in Nat, LoadList(rest, q, from)
    PROVE  /\ CallsTyped'
           /\ selected' = {} /\ blind' = {} /\ doubt' \in BOOLEAN
           /\ TicksHeld'
<1>1. ListCall(q, from) \in Calls
  BY NewCall, NothingChanges DEF ListCall, Kinds
<1>2. Send(rest, ListCall(q, from)) /\ selected' = {} /\ blind' = {} /\ doubt' \in BOOLEAN
  BY DEF LoadList
<1>3. TicksHeld'
  BY <1>2 DEF TicksHeld, SelectionShown
<1> QED BY <1>1, <1>2, <1>3, Sent

\* The requests that stay when one ends.
LEMMA Ended ==
    ASSUME CallsTyped, NEW i \in DOMAIN calls
    PROVE  /\ RemoveAt(calls, i) \in Seq(Calls)
           /\ Len(RemoveAt(calls, i)) = Len(calls) - 1
           /\ Len(calls) \in Nat /\ Len(calls) > 0
           /\ \A j \in DOMAIN RemoveAt(calls, i) :
                  \E k \in DOMAIN calls : RemoveAt(calls, i)[j] = calls[k]
<1> HIDE DEF Calls
<1>1. calls \in Seq(Calls) /\ Len(calls) \in Nat /\ i \in 1 .. Len(calls)
  BY DEF CallsTyped
<1> DEFINE head == SubSeq(calls, 1, i - 1)
           tail == SubSeq(calls, i + 1, Len(calls))
<1>2. /\ head \in Seq(Calls) /\ Len(head) = i - 1
      /\ \A j \in 1 .. i - 1 : head[j] = calls[j]
  BY <1>1
<1>3. /\ tail \in Seq(Calls) /\ Len(tail) = Len(calls) - i
      /\ \A j \in 1 .. Len(calls) - i : tail[j] = calls[i + j]
  BY <1>1
<1> HIDE DEF head, tail
<1>4. RemoveAt(calls, i) = head \o tail
  BY DEF RemoveAt, head, tail
<1>5. head \o tail \in Seq(Calls) /\ Len(head \o tail) = Len(calls) - 1
  BY <1>1, <1>2, <1>3
<1>6. ASSUME NEW j \in 1 .. Len(calls) - 1
      PROVE  \E k \in DOMAIN calls : (head \o tail)[j] = calls[k]
  <2>1. CASE j < i
    <3>1. (head \o tail)[j] = calls[j] /\ j \in DOMAIN calls
      BY <1>1, <1>2, <1>3, <2>1
    <3> QED BY <3>1
  <2>2. CASE j >= i
    <3>1. (head \o tail)[j] = tail[j - (i - 1)] /\ j - (i - 1) \in 1 .. Len(calls) - i
      BY <1>1, <1>2, <1>3, <2>2
    <3>2. (head \o tail)[j] = calls[j + 1] /\ j + 1 \in DOMAIN calls
      <4>1. tail[j - (i - 1)] = calls[i + (j - (i - 1))] /\ i + (j - (i - 1)) = j + 1
        BY <1>1, <1>3, <3>1
      <4> QED BY <1>1, <3>1, <4>1
    <3> QED BY <3>2
  <2>3. j < i \/ j >= i
    BY <1>1
  <2> QED BY <2>1, <2>2, <2>3
<1> DEFINE left == head \o tail
<1>7. left \in Seq(Calls) /\ Len(left) = Len(calls) - 1
  BY <1>5
<1>8. \A j \in 1 .. Len(calls) - 1 : \E k \in DOMAIN calls : left[j] = calls[k]
  BY <1>6
<1>9. RemoveAt(calls, i) = left
  BY <1>4
<1> HIDE DEF left
<1>10. DOMAIN left = 1 .. Len(calls) - 1
  BY <1>7
<1>11. Len(calls) > 0
  BY <1>1
<1> QED BY <1>1, <1>7, <1>8, <1>9, <1>10, <1>11

-----------------------------------------------------------------------------
(* What a step leaves as it was *)

LEMMA TableStill ==
    ASSUME UNCHANGED table
    PROVE  /\ RowsTyped' <=> RowsTyped
           /\ DraftsFollowRows' <=> DraftsFollowRows
           /\ OnPage' = OnPage
  BY DEF table, RowsTyped, DraftsFollowRows, OnPage, Row

LEMMA TicksStill ==
    ASSUME TicksHeld, UNCHANGED marks, OnPage' = OnPage,
           UnderWay({"list"})' => UnderWay({"list"})
    PROVE  TicksHeld'
  BY DEF TicksHeld, SelectionShown, marks

LEMMA UndoubtedStill ==
    ASSUME Undoubted,
           UNCHANGED <<backend, query, offset, rows, total, articlePins, calls, doubt>>
    PROVE  Undoubted'
  BY DEF Undoubted, RowsFresh, PinsFresh, PinsOf, CallFresh, backend

LEMMA SearchStill ==
    ASSUME UNCHANGED search
    PROVE  /\ SearchTyped' <=> SearchTyped
           /\ SearchSettles' <=> SearchSettles
  BY DEF search, SearchTyped, SearchSettles

-----------------------------------------------------------------------------
(* The invariant, step by step *)

LEMMA SearchKeeps ==
    ASSUME ReviewsInv, SearchStep
    PROVE  ReviewsInv'
<1> USE DEF ReviewsInv
<1>1. /\ UNCHANGED <<backend, table, articlePins, publishing, viewer>>
      /\ SearchTyped' /\ SearchSettles'
  BY DEF SearchStep, StillPage
<1>2. RowsTyped' /\ DraftsFollowRows' /\ OnPage' = OnPage
  BY <1>1, TableStill DEF Typed
<1>3. ServerTyped' /\ ViewerTyped'
  BY <1>1 DEF Typed, ServerTyped, ViewerTyped, backend
<1>4. CASE LoadList(calls, query', offset') /\ Len(calls) < MaxCalls
  <2>1. query' \in Queries /\ offset' \in Nat
    BY <1>1 DEF SearchTyped
  <2>2. calls \in Seq(Calls)
    BY DEF Typed, CallsTyped
  <2>3. CallsTyped' /\ selected' = {} /\ blind' = {} /\ doubt' \in BOOLEAN /\ TicksHeld'
    BY <1>4, <2>1, <2>2, LoadKeeps
  <2>4. MarksTyped'
    BY <1>1, <2>3 DEF Typed, MarksTyped
  <2>5. Undoubted'
    BY <1>4, <2>2, LoadUndoubted
  <2> QED BY <1>1, <1>2, <1>3, <2>3, <2>4, <2>5 DEF Typed
<1>5. CASE UNCHANGED <<query, offset, calls, marks, doubt>>
  <2>1. CallsTyped'
    BY <1>5 DEF Typed, CallsTyped
  <2>2. MarksTyped'
    BY <1>1, <1>5 DEF Typed, MarksTyped, marks
  <2>3. TicksHeld'
    BY <1>2, <1>5, TicksStill DEF UnderWay
  <2>4. Undoubted'
    BY <1>1, <1>5, UndoubtedStill DEF table
  <2> QED BY <1>1, <1>2, <1>3, <2>1, <2>2, <2>3, <2>4 DEF Typed
<1> QED BY <1>4, <1>5 DEF SearchStep

LEMMA TickKeeps ==
    ASSUME ReviewsInv, TickStep
    PROVE  ReviewsInv'
<1> USE DEF ReviewsInv
<1>1. UNCHANGED <<backend, table, articlePins, publishing, viewer, search, calls, doubt>>
  BY DEF TickStep, StillPage
<1>2. PICK ids \in SUBSET (selected \cup OnPage) : Ticked(ids)
  BY DEF TickStep
<1>3. RowsTyped' /\ DraftsFollowRows' /\ OnPage' = OnPage
  BY <1>1, TableStill DEF Typed
<1>4. ServerTyped' /\ ViewerTyped' /\ CallsTyped'
  BY <1>1 DEF Typed, ServerTyped, ViewerTyped, CallsTyped, backend
<1>5. SearchTyped' /\ SearchSettles'
  BY <1>1, SearchStill DEF Typed
<1>6. OnPage \subseteq Ids
  BY RowOnPage DEF Typed
<1>7. MarksTyped'
  BY <1>1, <1>2, <1>6 DEF Typed, MarksTyped, Ticked
<1>8. UnderWay({"list"})' <=> UnderWay({"list"})
  BY <1>1 DEF UnderWay
<1>9. TicksHeld'
  BY <1>2, <1>3, <1>8 DEF TicksHeld, SelectionShown, Ticked
<1>10. Undoubted'
  BY <1>1, UndoubtedStill DEF table, search
<1> QED BY <1>3, <1>4, <1>5, <1>7, <1>9, <1>10 DEF Typed

LEMMA WriteKeeps ==
    ASSUME ReviewsInv, WriteStep
    PROVE  ReviewsInv'
<1> USE DEF ReviewsInv
<1>1. UNCHANGED <<backend, table, articlePins, publishing, viewer, search, marks>>
      /\ Len(calls) < MaxCalls /\ doubt' = (doubt \/ calls # <<>>)
  BY DEF WriteStep, StillPage
<1>2. PICK call \in Calls :
        /\ Send(calls, call)
        /\ call.query = query /\ call.offset = offset /\ call.answer = Nil
        /\ \/ call.kind \in {"write", "purge", "retry"}
           \/ /\ call.kind = "put" /\ query.article # ""
              /\ \E id \in Ids : \/ call.ids = articlePins \cup {id}
                                 \/ call.ids = articlePins \ {id}
  BY DEF WriteStep
<1>3. RowsTyped' /\ DraftsFollowRows' /\ OnPage' = OnPage
  BY <1>1, TableStill DEF Typed
<1>4. ServerTyped' /\ ViewerTyped'
  BY <1>1 DEF Typed, ServerTyped, ViewerTyped, backend
<1>5. SearchTyped' /\ SearchSettles'
  BY <1>1, SearchStill DEF Typed
<1>6. calls \in Seq(Calls) /\ Len(calls) \in Nat /\ DOMAIN calls = 1 .. Len(calls)
  BY ListLengths DEF Typed, CallsTyped
<1>7. /\ CallsTyped' /\ Len(calls') = Len(calls) + 1
      /\ calls'[Len(calls) + 1] = call
      /\ \A i \in 1 .. Len(calls) : calls'[i] = calls[i]
  BY <1>1, <1>2, <1>6, Sent
<1>8. DOMAIN calls' = 1 .. Len(calls) + 1
  BY <1>7 DEF CallsTyped
<1>9. MarksTyped'
  BY <1>1 DEF Typed, MarksTyped, marks
<1>10. TicksHeld'
  <2>1. UnderWay({"list"})' => UnderWay({"list"})
    <3> SUFFICES ASSUME NEW i \in DOMAIN calls', calls'[i].kind = "list"
                 PROVE  i \in DOMAIN calls /\ calls[i].kind = "list"
      BY DEF UnderWay
    <3>1. i # Len(calls) + 1
      BY <1>2, <1>7
    <3> QED BY <1>6, <1>7, <1>8, <3>1
  <2> QED BY <1>1, <1>3, <2>1, TicksStill
<1>11. Undoubted'
  <2> SUFFICES ASSUME ~doubt' PROVE Undoubted'
    BY DEF Undoubted
  <2>1. ~doubt /\ calls = <<>>
    BY <1>1
  <2>2. RowsFresh /\ PinsFresh
    BY <2>1 DEF Undoubted
  <2>3. Len(calls') = 1 /\ calls'[1] = call /\ DOMAIN calls' = {1}
    BY <1>7, <1>8, <2>1
  <2>4. calls' # <<>>
    BY <2>3
  <2>5. RowsFresh'
    BY <1>1, <2>2 DEF RowsFresh, backend, table, search
  <2>6. CASE call.kind \in {"write", "purge", "retry"}
    <3>1. ASSUME NEW i \in DOMAIN calls' PROVE CallFresh(calls[i])'
      <4>1. calls'[i] = call
        BY <2>3
      <4> QED BY <1>1, <1>2, <2>6, <4>1, FailedAssumption DEF CallFresh, search
    <3> QED BY <2>3, <2>4, <3>1 DEF Undoubted
  <2>7. CASE call.kind = "put"
    <3>1. query.article \in Articles \ {""}
      BY <1>2, <2>7 DEF Typed, SearchTyped, Queries
    <3>2. articlePins = pins[query.article]
      BY <2>2, <3>1 DEF PinsFresh, PinsOf
    <3>3. \E id \in Ids : \/ call.ids = pins[query.article] \cup {id}
                          \/ call.ids = pins[query.article] \ {id}
      BY <1>2, <2>7, <3>2
    <3>4. ASSUME NEW i \in DOMAIN calls' PROVE CallFresh(calls[i])'
      <4>1. calls'[i] = call
        BY <2>3
      <4>2. UNCHANGED <<stored, pins, query, offset>>
        BY <1>1 DEF backend, search
      <4> QED BY <1>2, <2>5, <2>7, <3>1, <3>3, <4>1, <4>2, FailedAssumption DEF CallFresh
    <3> QED BY <2>3, <2>4, <3>4 DEF Undoubted
  <2> QED BY <1>2, <2>6, <2>7
<1> QED BY <1>3, <1>4, <1>5, <1>7, <1>9, <1>10, <1>11 DEF Typed

LEMMA QuietKeeps ==
    ASSUME ReviewsInv, QuietStep
    PROVE  ReviewsInv'
<1> USE DEF ReviewsInv
<1>1. UNCHANGED <<backend, table, articlePins, search, marks, calls, doubt>>
      /\ publishing' \in BOOLEAN /\ ViewerTyped'
  BY DEF QuietStep
<1>2. RowsTyped' /\ DraftsFollowRows' /\ OnPage' = OnPage
  BY <1>1, TableStill DEF Typed
<1>3. ServerTyped' /\ CallsTyped' /\ MarksTyped'
  BY <1>1 DEF Typed, ServerTyped, CallsTyped, MarksTyped, backend, marks
<1>4. SearchTyped' /\ SearchSettles'
  BY <1>1, SearchStill DEF Typed
<1>5. TicksHeld'
  BY <1>1, <1>2, TicksStill DEF UnderWay
<1>6. Undoubted'
  BY <1>1, UndoubtedStill DEF table, search
<1> QED BY <1>1, <1>2, <1>3, <1>4, <1>5, <1>6 DEF Typed

LEMMA TypingKeeps ==
    ASSUME ReviewsInv, TypeDraft
    PROVE  ReviewsInv'
<1> USE DEF ReviewsInv
<1>1. UNCHANGED <<backend, search, rows, total, marks, articlePins, publishing, viewer,
                  calls, doubt>>
  BY DEF TypeDraft
<1>2. PICK id \in OnPage, text \in Texts :
        /\ typed' = typed \cup {id}
        /\ \/ /\ editDrafts' = [editDrafts EXCEPT ![id] = text]
              /\ UNCHANGED replyDrafts
           \/ /\ replyDrafts' = [replyDrafts EXCEPT ![id] = text]
              /\ UNCHANGED editDrafts
  BY DEF TypeDraft
<1>3. OnPage' = OnPage /\ \A d : Row(d)' = Row(d)
  BY <1>1 DEF OnPage, Row
<1>4. id \in Ids
  BY RowOnPage DEF Typed
<1>5. editDrafts' \in [OnPage -> Texts] /\ replyDrafts' \in [OnPage -> Texts]
  BY <1>2 DEF Typed, RowsTyped
<1>6. RowsTyped'
  BY <1>1, <1>2, <1>3, <1>4, <1>5 DEF Typed, RowsTyped
<1>7. DraftsFollowRows'
  <2> SUFFICES ASSUME NEW d \in OnPage \ typed'
               PROVE  editDrafts'[d] = Row(d).text /\ replyDrafts'[d] = Row(d).reply
    BY <1>3 DEF DraftsFollowRows
  <2>1. d # id /\ d \notin typed
    BY <1>2
  <2>2. editDrafts'[d] = editDrafts[d] /\ replyDrafts'[d] = replyDrafts[d]
    BY <1>2, <2>1 DEF Typed, RowsTyped
  <2> QED BY <2>1, <2>2 DEF DraftsFollowRows
<1>8. ServerTyped' /\ CallsTyped' /\ MarksTyped' /\ ViewerTyped'
  BY <1>1 DEF Typed, ServerTyped, CallsTyped, MarksTyped, ViewerTyped, backend, marks
<1>9. SearchTyped' /\ SearchSettles'
  BY <1>1, SearchStill DEF Typed
<1>10. TicksHeld'
  BY <1>1, <1>3, TicksStill DEF UnderWay
<1>11. Undoubted'
  BY <1>1, UndoubtedStill DEF search
<1> QED BY <1>6, <1>7, <1>8, <1>9, <1>10, <1>11 DEF Typed

-----------------------------------------------------------------------------
(* Answers *)

LEMMA Answered ==
    ASSUME CallsTyped, NEW i \in DOMAIN calls, NEW x, [calls[i] EXCEPT !.answer = x] \in Calls,
           calls' = [calls EXCEPT ![i].answer = x]
    PROVE  /\ CallsTyped' /\ DOMAIN calls' = DOMAIN calls /\ Len(calls') = Len(calls)
           /\ calls'[i] = [calls[i] EXCEPT !.answer = x]
           /\ UnderWay({"list"})' => UnderWay({"list"})
<1>1. calls \in Seq(Calls) /\ Len(calls) <= MaxCalls
  BY DEF CallsTyped
<1> DEFINE new == [calls[i] EXCEPT !.answer = x]
<1>2. calls' = [calls EXCEPT ![i] = new]
  OBVIOUS
<1>3. new \in Calls
  OBVIOUS
<1>4. new.kind = calls[i].kind
  <2>1. calls[i] \in Calls
    BY ListLengths
  <2> QED BY <2>1 DEF Calls
<1> HIDE DEF new, Calls
<1>5. calls' \in Seq(Calls) /\ Len(calls') = Len(calls) /\ DOMAIN calls' = DOMAIN calls
  BY <1>1, <1>2, <1>3
<1>6. calls'[i] = new /\ \A j \in DOMAIN calls \ {i} : calls'[j] = calls[j]
  BY <1>1, <1>2
<1>7. \A j \in DOMAIN calls : calls'[j].kind = calls[j].kind
  BY <1>4, <1>6
<1>8. UnderWay({"list"})' => UnderWay({"list"})
  BY <1>5, <1>7 DEF UnderWay
<1> QED BY <1>1, <1>5, <1>6, <1>8 DEF CallsTyped, new

\* A call of these that has been answered is one of them.
LEMMA AnsweredType ==
    ASSUME NEW c \in Calls, NEW x \in AnyAnswer,
           \/ x = Failed
           \/ c.kind = "list" /\ x \in PageListings
           \/ c.kind = "pins" /\ x \subseteq Ids
           \/ c.kind \notin {"list", "pins"} /\ x = "ok"
    PROVE  [c EXCEPT !.answer = x] \in Calls
  BY DEF Calls, AnswerOK

LEMMA AnswerType ==
    ASSUME ServerTyped, NEW c \in Calls
    PROVE  /\ Answer(c) \in AnyAnswer /\ Answer(c) # Failed
           /\ \/ c.kind = "list" /\ Answer(c) \in PageListings
              \/ c.kind = "pins" /\ Answer(c) \subseteq Ids
              \/ c.kind \notin {"list", "pins"} /\ Answer(c) = "ok"
<1>1. c.offset \in Nat /\ c.query \in Queries
  BY DEF Calls
<1>2. CASE c.kind = "list"
  <2>1. Answer(c) = Listing(stored, c.query, c.offset)
    BY <1>2 DEF Answer
  <2>2. Answer(c) \in PageListings
    BY <1>1, <2>1, ListingType DEF ServerTyped
  <2>3. Answer(c) \in AnyAnswer
    BY <2>2 DEF AnyAnswer
  <2>4. Answer(c) \in Listings
    BY <2>2 DEF PageListings
  <2>5. Answer(c) # Failed
    BY <2>4, FailedAssumption
  <2> QED BY <1>2, <2>2, <2>3, <2>5
<1>3. CASE c.kind = "pins"
  <2>1. Answer(c) = PinsOf(c.query.article)
    BY <1>3 DEF Answer
  <2>2. Answer(c) \in SUBSET Ids
    BY <1>1, <2>1 DEF PinsOf, Queries, ServerTyped
  <2> QED BY <1>3, <2>2, FailedAssumption DEF AnyAnswer
<1>4. CASE c.kind \notin {"list", "pins"}
  BY <1>4, FailedAssumption DEF Answer, AnyAnswer
<1> QED BY <1>2, <1>3, <1>4

LEMMA StillAppKeeps ==
    ASSUME ReviewsInv, StillApp, ServerTyped', CallsTyped', doubt' \in BOOLEAN,
           UnderWay({"list"})' => UnderWay({"list"}), Undoubted'
    PROVE  ReviewsInv'
<1> USE DEF ReviewsInv
<1>1. UNCHANGED <<search, table, marks, articlePins, publishing, viewer>>
  BY DEF StillApp
<1>2. RowsTyped' /\ DraftsFollowRows' /\ OnPage' = OnPage
  BY <1>1, TableStill DEF Typed
<1>3. SearchTyped' /\ SearchSettles'
  BY <1>1, SearchStill DEF Typed
<1>4. MarksTyped' /\ ViewerTyped'
  BY <1>1 DEF Typed, MarksTyped, ViewerTyped, marks
<1>5. TicksHeld'
  BY <1>1, <1>2, TicksStill
<1> QED BY <1>2, <1>3, <1>4, <1>5 DEF Typed

LEMMA ServingKeeps ==
    ASSUME ReviewsInv, ServeCall
    PROVE  ReviewsInv'
<1> USE DEF ReviewsInv
<1>1. PICK i \in DOMAIN calls :
        /\ calls[i].answer = Nil
        /\ stored' = Written(stored, calls[i])
        /\ pins' = IF calls[i].kind = "put"
                   THEN [pins EXCEPT ![calls[i].query.article] = calls[i].ids] ELSE pins
        /\ \/ /\ calls' = [calls EXCEPT ![i].answer = Answer(calls[i])]
              /\ UNCHANGED <<faults, doubt>>
           \/ /\ calls' = [calls EXCEPT ![i].answer = Failed]
              /\ doubt' = TRUE
  BY DEF ServeCall
<1> DEFINE c == calls[i]
<1>2. c \in Calls /\ CallsTyped
  BY ListLengths DEF Typed
<1>3. StillApp /\ doubt' \in BOOLEAN
  BY <1>1 DEF ServeCall, Typed, MarksTyped
<1>4. ServerTyped'
  <2>1. ChangeOK(c.change) /\ c.ids \in SUBSET Ids
    BY <1>2 DEF Calls
  <2>2. /\ DOMAIN stored' \subseteq Ids
        /\ \A id \in DOMAIN stored' : stored'[id] \in Reviews
    BY <1>1, <2>1, WrittenType DEF Typed, ServerTyped
  <2>3. pins' \in [Articles -> SUBSET Ids]
    BY <1>1, <2>1 DEF Typed, ServerTyped
  <2> QED BY <2>2, <2>3 DEF ServerTyped
<1>5. /\ Answer(c) \in AnyAnswer /\ Answer(c) # Failed
      /\ \/ c.kind = "list" /\ Answer(c) \in PageListings
         \/ c.kind = "pins" /\ Answer(c) \subseteq Ids
         \/ c.kind \notin {"list", "pins"} /\ Answer(c) = "ok"
  BY <1>2, AnswerType DEF Typed
<1>6. CASE calls' = [calls EXCEPT ![i].answer = Failed] /\ doubt' = TRUE
  <2>1. Failed \in AnyAnswer
    BY DEF AnyAnswer
  <2>2. [c EXCEPT !.answer = Failed] \in Calls
    BY <1>2, <2>1, AnsweredType
  <2>3. CallsTyped' /\ (UnderWay({"list"})' => UnderWay({"list"}))
    BY <1>2, <1>6, <2>2, Answered
  <2>4. Undoubted'
    BY <1>6 DEF Undoubted
  <2> QED BY <1>3, <1>4, <2>3, <2>4, StillAppKeeps
<1>7. CASE calls' = [calls EXCEPT ![i].answer = Answer(calls[i])] /\ UNCHANGED doubt
  <2>1. [c EXCEPT !.answer = Answer(c)] \in Calls
    BY <1>2, <1>5, AnsweredType
  <2>2. /\ CallsTyped' /\ DOMAIN calls' = DOMAIN calls /\ Len(calls') = Len(calls)
        /\ calls'[i] = [c EXCEPT !.answer = Answer(c)]
        /\ UnderWay({"list"})' => UnderWay({"list"})
    BY <1>2, <1>7, <2>1, Answered
  <2>3. Undoubted'
    <3> SUFFICES ASSUME ~doubt' PROVE Undoubted'
      BY DEF Undoubted
    <3>1. Len(calls) <= 1 /\ CallFresh(c)
      BY <1>7 DEF Undoubted
    <3>2. DOMAIN calls' = {i}
      BY <1>2, <2>2, <3>1, ListLengths
    <3>3. calls' # <<>>
      BY <3>2
    <3> DEFINE new == [c EXCEPT !.answer = Answer(c)]
    <3>4. PICK d : d = new
      OBVIOUS
    <3>5. /\ d.kind = c.kind /\ d.query = c.query /\ d.offset = c.offset /\ d.ids = c.ids
          /\ d.answer = Answer(c)
      BY <1>2, <3>4 DEF Calls
    <3>6. UNCHANGED <<query, offset, rows, total>>
      BY <1>3 DEF StillApp, search, table
    <3>7. CallFresh(d)'
      <4> HIDE DEF new, c
      <4>1. CASE c.kind = "list"
        <5>1. stored' = stored
          BY <1>1, <4>1 DEF Written, c
        <5>2. Answer(c) = Listing(stored', query, offset)
          BY <3>1, <4>1, <5>1 DEF Answer, CallFresh
        <5> QED BY <1>5, <3>1, <3>5, <3>6, <4>1, <5>2 DEF CallFresh
      <4>2. CASE c.kind \in {"write", "purge", "retry"}
        BY <1>5, <3>1, <3>5, <3>6, <4>2 DEF CallFresh
      <4>3. CASE c.kind = "pins"
        <5>1. UNCHANGED <<stored, pins>>
          BY <1>1, <4>3 DEF Written, c
        <5>2. Answer(c) = PinsOf(query.article)'
          BY <3>1, <3>6, <4>3, <5>1 DEF Answer, CallFresh, PinsOf
        <5>3. RowsFresh'
          BY <3>1, <3>6, <4>3, <5>1 DEF CallFresh, RowsFresh
        <5> QED BY <1>5, <3>1, <3>5, <3>6, <4>3, <5>2, <5>3 DEF CallFresh
      <4>4. CASE c.kind = "put"
        <5>1. stored' = stored /\ pins' = [pins EXCEPT ![c.query.article] = c.ids]
          BY <1>1, <4>4 DEF Written, c
        <5>2. c.query = query /\ query.article \in Articles \ {""}
          BY <3>1, <4>4 DEF CallFresh
        <5>3. pins'[query.article] = c.ids
          BY <5>1, <5>2 DEF Typed, ServerTyped
        <5>4. RowsFresh'
          BY <3>1, <3>6, <4>4, <5>1 DEF CallFresh, RowsFresh
        <5>5. Answer(c) # Nil
          BY <1>5, <4>4, FailedAssumption
        <5> QED BY <1>5, <3>5, <3>6, <4>4, <5>2, <5>3, <5>4, <5>5 DEF CallFresh
      <4>5. c.kind \in Kinds
        BY <1>2 DEF Calls, c
      <4> QED BY <4>1, <4>2, <4>3, <4>4, <4>5 DEF Kinds
    <3>8. ASSUME NEW j \in DOMAIN calls' PROVE CallFresh(calls[j])'
      <4>1. calls'[j] = d
        BY <2>2, <3>2, <3>4
      <4> QED BY <3>7, <4>1
    <3>9. Len(calls') <= 1
      BY <2>2, <3>1
    <3> QED BY <3>3, <3>8, <3>9 DEF Undoubted
  <2> QED BY <1>3, <1>4, <2>2, <2>3, StillAppKeeps
<1> QED BY <1>1, <1>6, <1>7

LEMMA RefusingKeeps ==
    ASSUME ReviewsInv, RefuseCall
    PROVE  ReviewsInv'
<1> USE DEF ReviewsInv
<1>1. PICK i \in DOMAIN calls : calls' = [calls EXCEPT ![i].answer = Failed]
  BY DEF RefuseCall
<1>2. StillApp /\ doubt' = TRUE /\ UNCHANGED backend
  BY DEF RefuseCall
<1>3. calls[i] \in Calls /\ CallsTyped /\ Failed \in AnyAnswer
  BY ListLengths DEF Typed, AnyAnswer
<1>4. [calls[i] EXCEPT !.answer = Failed] \in Calls
  BY <1>3, AnsweredType
<1>5. CallsTyped' /\ (UnderWay({"list"})' => UnderWay({"list"}))
  BY <1>1, <1>3, <1>4, Answered
<1>6. ServerTyped' /\ Undoubted'
  BY <1>2 DEF Typed, ServerTyped, Undoubted, backend
<1> QED BY <1>2, <1>5, <1>6, StillAppKeeps

LEMMA Fewer ==
    ASSUME NEW S, NEW rest \in Seq(S), Len(rest) < MaxCalls
    PROVE  Len(rest) \in Nat /\ Len(rest) <= MaxCalls /\ DOMAIN rest = 1 .. Len(rest)
<1>1. Len(rest) \in Nat /\ DOMAIN rest = 1 .. Len(rest)
  OBVIOUS
<1>2. MaxCalls \in Nat
  BY PageAssumption
<1> QED BY <1>1, <1>2

LEMMA CallEnding ==
    ASSUME ReviewsInv, CallEnds
    PROVE  \E i \in DOMAIN calls : \E c \in Calls, rest \in Seq(Calls) :
        /\ c = calls[i] /\ c.answer # Nil
        /\ Len(rest) = Len(calls) - 1 /\ Len(rest) < MaxCalls
        /\ \A j \in DOMAIN rest : \E k \in DOMAIN calls : rest[j] = calls[k]
        /\ \/ ListAnswers(c, rest) \/ PinsAnswer(c, rest)
           \/ WriteAnswers(c, rest) \/ FailureAnswers(c, rest)
        /\ ~doubt => rest = <<>> /\ CallFresh(c)
<1> USE DEF ReviewsInv
<1>1. PICK i \in DOMAIN calls :
        /\ calls[i].answer # Nil
        /\ \/ ListAnswers(calls[i], RemoveAt(calls, i))
           \/ PinsAnswer(calls[i], RemoveAt(calls, i))
           \/ WriteAnswers(calls[i], RemoveAt(calls, i))
           \/ FailureAnswers(calls[i], RemoveAt(calls, i))
  BY DEF CallEnds
<1>2. PICK c \in Calls : c = calls[i]
  BY ListLengths DEF Typed
<1>3. PICK rest \in Seq(Calls) : rest = RemoveAt(calls, i)
  BY Ended DEF Typed
<1>4. /\ Len(rest) = Len(calls) - 1 /\ Len(calls) \in Nat
      /\ \A j \in DOMAIN rest : \E k \in DOMAIN calls : rest[j] = calls[k]
  BY <1>3, Ended DEF Typed
<1>5. Len(calls) <= MaxCalls /\ MaxCalls \in Nat
  BY PageAssumption DEF Typed, CallsTyped
<1>6. Len(rest) < MaxCalls
  BY <1>4, <1>5
<1>7. ASSUME ~doubt PROVE rest = <<>> /\ CallFresh(c)
  <2>1. Len(calls) <= 1 /\ CallFresh(c)
    BY <1>2, <1>7 DEF Undoubted
  <2>2. Len(rest) = 0 \/ Len(rest) < 0
    BY <1>4, <2>1
  <2> HIDE DEF Calls
  <2> QED BY <2>1, <2>2
<1> QED BY <1>1, <1>2, <1>3, <1>4, <1>6, <1>7

\* What any of the answers leaves as it was.
LEMMA EndingStill ==
    ASSUME ReviewsInv, CallEnds
    PROVE  /\ UNCHANGED <<stored, pins, query, boxes, timer, offset, publishing, viewer>>
           /\ ServerTyped' /\ SearchTyped' /\ SearchSettles' /\ ViewerTyped'
<1> USE DEF ReviewsInv
<1>1. UNCHANGED <<backend, search, publishing, viewer>>
  BY DEF CallEnds
<1>2. SearchTyped' /\ SearchSettles'
  BY <1>1, SearchStill DEF Typed
<1> QED BY <1>1, <1>2 DEF Typed, ServerTyped, ViewerTyped, backend, search

\* Fewer requests, or one more that is not a list.
LEMMA NoNewList ==
    ASSUME NEW rest, \A j \in DOMAIN rest : \E k \in DOMAIN calls : rest[j] = calls[k],
           \/ calls' = rest
           \/ /\ DOMAIN calls' = 1 .. Len(rest) + 1
              /\ calls'[Len(rest) + 1].kind # "list"
              /\ \A i \in 1 .. Len(rest) : i \in DOMAIN rest /\ calls'[i] = rest[i],
           Len(rest) \in Nat
    PROVE  UnderWay({"list"})' => UnderWay({"list"})
<1> SUFFICES ASSUME NEW i \in DOMAIN calls', calls'[i].kind = "list"
             PROVE  \E k \in DOMAIN calls : calls[k].kind = "list"
  BY DEF UnderWay
<1>1. i \in DOMAIN rest /\ calls'[i] = rest[i]
  <2>1. CASE calls' = rest
    BY <2>1
  <2>2. CASE /\ DOMAIN calls' = 1 .. Len(rest) + 1
             /\ calls'[Len(rest) + 1].kind # "list"
             /\ \A j \in 1 .. Len(rest) : j \in DOMAIN rest /\ calls'[j] = rest[j]
    <3>1. i # Len(rest) + 1
      BY <2>2
    <3>2. i \in 1 .. Len(rest)
      BY <2>2, <3>1
    <3> QED BY <2>2, <3>2
  <2> QED BY <2>1, <2>2
<1> QED BY <1>1

\* The drafts of a list: one for each of its reviews, with what that one says.
LEMMA DraftsType ==
    ASSUME NEW l \in PageListings, NEW field \in {"text", "reply"}, NEW old
    PROVE  Drafted(l, field, old) \in [{l.rows[i].id : i \in DOMAIN l.rows} -> Texts]
<1> DEFINE X == [id : Ids, review : Reviews]
<1>1. l.rows \in Seq(X)
  BY DEF PageListings, Listings
<1>2. \A i \in DOMAIN l.rows : l.rows[i] \in X
  <2>1. \A s \in Seq(X) : \A i \in DOMAIN s : s[i] \in X
    <3> HIDE DEF X
    <3> QED OBVIOUS
  <2> QED BY <1>1, <2>1
<1>3. \A i \in DOMAIN l.rows : l.rows[i].review[field] \in Texts
  BY <1>2 DEF Reviews
<1>4. \A id \in {l.rows[i].id : i \in DOMAIN l.rows} :
        (CHOOSE i \in DOMAIN l.rows : l.rows[i].id = id) \in DOMAIN l.rows
  OBVIOUS
<1> QED BY <1>3, <1>4 DEF Drafted

LEMMA ListAnswersKeeps ==
    ASSUME ReviewsInv, CallEnds, NEW c \in Calls, NEW rest \in Seq(Calls),
           NEW i \in DOMAIN calls, c = calls[i], c.answer # Nil,
           Len(rest) < MaxCalls,
           \A j \in DOMAIN rest : \E k \in DOMAIN calls : rest[j] = calls[k],
           ~doubt => rest = <<>> /\ CallFresh(c),
           ListAnswers(c, rest)
    PROVE  ReviewsInv'
<1> USE DEF ReviewsInv
<1> DEFINE l == c.answer
<1>1. /\ UNCHANGED <<stored, pins, query, boxes, timer, offset, publishing, viewer>>
      /\ ServerTyped' /\ SearchTyped' /\ SearchSettles' /\ ViewerTyped'
  BY EndingStill
<1>2. /\ c.kind = "list" /\ l # Failed
      /\ rows' = l.rows /\ total' = l.total /\ typed' = {}
      /\ replyDrafts' = Drafted(l, "reply", replyDrafts)
      /\ editDrafts' = Drafted(l, "text", editDrafts)
      /\ LoadPins(rest, c.query) /\ UNCHANGED <<marks, doubt>>
  BY DEF ListAnswers
<1>3. l \in PageListings /\ c.query \in Queries
  BY <1>2 DEF Calls, AnswerOK
<1>4. OnPage' = {l.rows[k].id : k \in DOMAIN l.rows}
  BY <1>2 DEF OnPage
<1> HIDE DEF l
<1>5. RowsTyped'
  <2>1. editDrafts' \in [OnPage' -> Texts] /\ replyDrafts' \in [OnPage' -> Texts]
    BY <1>2, <1>3, <1>4, DraftsType
  <2>2. /\ l.rows \in Seq([id : Ids, review : Reviews]) /\ Len(l.rows) <= PageSize
        /\ l.total \in Nat /\ l.total <= Cardinality(Ids)
    BY <1>3 DEF PageListings, Listings
  <2>3. Cardinality(Ids) \in Nat
    BY PageAssumption, FS_CardinalityType
  <2> QED BY <1>2, <2>1, <2>2, <2>3 DEF RowsTyped
<1>6. DraftsFollowRows'
  <2>1. \A id \in OnPage' :
            /\ editDrafts'[id] = l.rows[CHOOSE k \in DOMAIN l.rows : l.rows[k].id = id].review["text"]
            /\ replyDrafts'[id] = l.rows[CHOOSE k \in DOMAIN l.rows : l.rows[k].id = id].review["reply"]
    BY <1>2, <1>4 DEF Drafted
  <2>2. \A id : Row(id)' = l.rows[CHOOSE k \in DOMAIN l.rows : l.rows[k].id = id].review
    BY <1>2 DEF Row
  <2> QED BY <2>1, <2>2 DEF DraftsFollowRows
<1>7. articlePins' \subseteq Ids
  BY <1>2 DEF LoadPins, Typed, MarksTyped
<1>8. MarksTyped'
  BY <1>1, <1>2, <1>7 DEF Typed, MarksTyped, marks
<1>9. Len(rest) \in Nat /\ Len(rest) <= MaxCalls /\ DOMAIN rest = 1 .. Len(rest)
  BY Fewer
<1>10. SelectionShown' /\ (TicksHeld' <=> (UnderWay({"list"})' => selected \subseteq blind))
  <2>1. UnderWay({"list"})
    BY <1>2 DEF UnderWay
  <2> QED BY <1>2, <2>1 DEF TicksHeld, SelectionShown, marks
<1>11. selected \subseteq blind
  BY <1>2 DEF TicksHeld, UnderWay
<1>12. ASSUME ~doubt
       PROVE  /\ rest = <<>> /\ c.query = query
              /\ RowsFresh'
  <2>1. rest = <<>> /\ c.query = query /\ l = Listing(stored, query, offset)
    BY <1>2, <1>12 DEF CallFresh, l
  <2>2. [rows |-> l.rows, total |-> l.total] = l
    BY <1>3 DEF PageListings, Listings
  <2> QED BY <1>1, <1>2, <2>1, <2>2 DEF RowsFresh
<1>13. CASE c.query.article = ""
  <2>1. calls' = rest /\ articlePins' = {}
    BY <1>2, <1>13 DEF LoadPins
  <2>2. CallsTyped'
    BY <1>9, <2>1 DEF CallsTyped
  <2>3. Undoubted'
    <3> SUFFICES ASSUME ~doubt' PROVE Undoubted'
      BY DEF Undoubted
    <3>1. ~doubt
      BY <1>2
    <3>2. PinsFresh'
      BY <1>1, <1>12, <1>13, <2>1, <3>1 DEF PinsFresh, PinsOf
    <3>3. calls' = <<>> /\ Len(calls') <= 1 /\ DOMAIN calls' = {}
      BY <1>12, <2>1, <3>1
    <3> QED BY <1>12, <3>1, <3>2, <3>3 DEF Undoubted
  <2> QED BY <1>1, <1>5, <1>6, <1>8, <1>10, <1>11, <2>2, <2>3 DEF Typed
<1>14. CASE c.query.article # ""
  <2> DEFINE p == PinsCall(c.query)
  <2>1. Send(rest, p) /\ UNCHANGED articlePins
    BY <1>2, <1>14 DEF LoadPins
  <2>2. p \in Calls /\ p.kind = "pins" /\ p.query = c.query /\ p.answer = Nil
    BY <1>3, NewCall, NothingChanges DEF PinsCall, Kinds, Call
  <2> HIDE DEF p
  <2>3. /\ CallsTyped' /\ Len(calls') = Len(rest) + 1
        /\ calls'[Len(rest) + 1] = p
    BY <2>1, <2>2, Sent
  <2>4. Undoubted'
    <3> SUFFICES ASSUME ~doubt' PROVE Undoubted'
      BY DEF Undoubted
    <3>1. ~doubt
      BY <1>2
    <3>2. rest = <<>> /\ c.query = query /\ RowsFresh'
      BY <1>12, <3>1
    <3>3. Len(calls') = 1 /\ calls'[1] = p
      BY <2>3, <3>2
    <3>4. DOMAIN calls' = {1}
      BY <2>3, <3>3 DEF CallsTyped
    <3>5. calls' # <<>>
      <4>1. calls' = <<p>>
        BY <2>1, <3>2 DEF Send
      <4> QED BY <4>1
    <3>6. ASSUME NEW j \in DOMAIN calls' PROVE CallFresh(calls[j])'
      <4>1. calls'[j] = p
        BY <3>3, <3>4
      <4> QED BY <1>1, <2>2, <3>2, <4>1, FailedAssumption DEF CallFresh
    <3> QED BY <3>3, <3>5, <3>6 DEF Undoubted
  <2> QED BY <1>1, <1>5, <1>6, <1>8, <1>10, <1>11, <2>3, <2>4 DEF Typed
<1> QED BY <1>13, <1>14

LEMMA PinsAnswerKeeps ==
    ASSUME ReviewsInv, CallEnds, NEW c \in Calls, NEW rest \in Seq(Calls),
           c.answer # Nil, Len(rest) < MaxCalls,
           \A j \in DOMAIN rest : \E k \in DOMAIN calls : rest[j] = calls[k],
           ~doubt => rest = <<>> /\ CallFresh(c),
           PinsAnswer(c, rest)
    PROVE  ReviewsInv'
<1> USE DEF ReviewsInv
<1>1. /\ UNCHANGED <<stored, pins, query, boxes, timer, offset, publishing, viewer>>
      /\ ServerTyped' /\ SearchTyped' /\ SearchSettles' /\ ViewerTyped'
  BY EndingStill
<1>2. /\ c.answer # Failed /\ calls' = rest /\ UNCHANGED <<table, marks, doubt>>
      /\ \/ c.kind = "pins" /\ articlePins' = c.answer
         \/ c.kind = "put" /\ articlePins' = c.ids
  BY DEF PinsAnswer
<1>3. articlePins' \subseteq Ids
  BY <1>2 DEF Calls, AnswerOK
<1>4. RowsTyped' /\ DraftsFollowRows' /\ OnPage' = OnPage
  BY <1>2, TableStill DEF Typed
<1>5. MarksTyped'
  BY <1>1, <1>2, <1>3 DEF Typed, MarksTyped, marks
<1>6. Len(rest) \in Nat /\ Len(rest) <= MaxCalls
  BY Fewer
<1>7. CallsTyped'
  BY <1>2, <1>6 DEF CallsTyped
<1>8. TicksHeld'
  BY <1>2, <1>4, <1>6, NoNewList, TicksStill
<1>9. Undoubted'
  <2> SUFFICES ASSUME ~doubt' PROVE Undoubted'
    BY DEF Undoubted
  <2>1. rest = <<>> /\ CallFresh(c)
    BY <1>2
  <2>2. RowsFresh
    BY <1>2, <2>1 DEF CallFresh
  <2>3. RowsFresh'
    BY <1>1, <1>2, <2>2 DEF RowsFresh, table
  <2>4. articlePins' = PinsOf(query.article)
    BY <1>2, <2>1 DEF CallFresh, PinsOf
  <2>5. PinsFresh'
    BY <1>1, <2>4 DEF PinsFresh, PinsOf
  <2>6. calls' = <<>> /\ Len(calls') <= 1 /\ DOMAIN calls' = {}
    BY <1>2, <2>1
  <2> QED BY <2>3, <2>5, <2>6 DEF Undoubted
<1> QED BY <1>1, <1>4, <1>5, <1>7, <1>8, <1>9 DEF Typed

LEMMA WriteAnswersKeeps ==
    ASSUME ReviewsInv, CallEnds, NEW c \in Calls, NEW rest \in Seq(Calls),
           Len(rest) < MaxCalls, WriteAnswers(c, rest)
    PROVE  ReviewsInv'
<1> USE DEF ReviewsInv
<1>1. /\ UNCHANGED <<stored, pins, query, boxes, timer, offset, publishing, viewer>>
      /\ ServerTyped' /\ SearchTyped' /\ SearchSettles' /\ ViewerTyped'
  BY EndingStill
<1>2. LoadList(rest, c.query, c.offset) /\ UNCHANGED <<table, articlePins>>
  BY DEF WriteAnswers
<1>3. c.query \in Queries /\ c.offset \in Nat
  BY DEF Calls
<1>4. CallsTyped' /\ selected' = {} /\ blind' = {} /\ doubt' \in BOOLEAN /\ TicksHeld'
  BY <1>2, <1>3, LoadKeeps
<1>5. RowsTyped' /\ DraftsFollowRows'
  BY <1>2, TableStill DEF Typed
<1>6. MarksTyped'
  BY <1>1, <1>2, <1>4 DEF Typed, MarksTyped
<1>7. Undoubted'
  BY <1>2, LoadUndoubted
<1> QED BY <1>1, <1>4, <1>5, <1>6, <1>7 DEF Typed

LEMMA FailureAnswersKeeps ==
    ASSUME ReviewsInv, CallEnds, NEW c \in Calls, NEW rest \in Seq(Calls),
           Len(rest) < MaxCalls,
           \A j \in DOMAIN rest : \E k \in DOMAIN calls : rest[j] = calls[k],
           ~doubt => CallFresh(c),
           FailureAnswers(c, rest)
    PROVE  ReviewsInv'
<1> USE DEF ReviewsInv
<1>1. /\ UNCHANGED <<stored, pins, query, boxes, timer, offset, publishing, viewer>>
      /\ ServerTyped' /\ SearchTyped' /\ SearchSettles' /\ ViewerTyped'
  BY EndingStill
<1>2. c.answer = Failed /\ calls' = rest /\ UNCHANGED <<table, marks, articlePins, doubt>>
  BY DEF FailureAnswers
<1>3. RowsTyped' /\ DraftsFollowRows' /\ OnPage' = OnPage
  BY <1>2, TableStill DEF Typed
<1>4. MarksTyped'
  BY <1>1, <1>2 DEF Typed, MarksTyped, marks
<1>5. Len(rest) \in Nat /\ Len(rest) <= MaxCalls
  BY Fewer
<1>6. CallsTyped'
  BY <1>2, <1>5 DEF CallsTyped
<1>7. TicksHeld'
  BY <1>2, <1>3, <1>5, NoNewList, TicksStill
<1>8. Undoubted'
  BY <1>2 DEF Undoubted, CallFresh
<1> QED BY <1>1, <1>3, <1>4, <1>6, <1>7, <1>8 DEF Typed

LEMMA EndingKeeps ==
    ASSUME ReviewsInv, CallEnds
    PROVE  ReviewsInv'
<1>1. PICK i \in DOMAIN calls : \E c \in Calls, rest \in Seq(Calls) :
        /\ c = calls[i] /\ c.answer # Nil
        /\ Len(rest) = Len(calls) - 1 /\ Len(rest) < MaxCalls
        /\ \A j \in DOMAIN rest : \E k \in DOMAIN calls : rest[j] = calls[k]
        /\ \/ ListAnswers(c, rest) \/ PinsAnswer(c, rest)
           \/ WriteAnswers(c, rest) \/ FailureAnswers(c, rest)
        /\ ~doubt => rest = <<>> /\ CallFresh(c)
  BY CallEnding
<1>2. PICK c \in Calls, rest \in Seq(Calls) :
        /\ c = calls[i] /\ c.answer # Nil
        /\ Len(rest) = Len(calls) - 1 /\ Len(rest) < MaxCalls
        /\ \A j \in DOMAIN rest : \E k \in DOMAIN calls : rest[j] = calls[k]
        /\ \/ ListAnswers(c, rest) \/ PinsAnswer(c, rest)
           \/ WriteAnswers(c, rest) \/ FailureAnswers(c, rest)
        /\ ~doubt => rest = <<>> /\ CallFresh(c)
  BY <1>1
<1> QED BY <1>2, ListAnswersKeeps, PinsAnswerKeeps, WriteAnswersKeeps, FailureAnswersKeeps

-----------------------------------------------------------------------------

LEMMA ReviewsInitInv == ReviewsInit => ReviewsInv
<1> SUFFICES ASSUME ReviewsInit PROVE ReviewsInv
  OBVIOUS
<1>1. NoQuery \in Queries
  BY PageAssumption DEF NoQuery, Queries
<1>2. OnPage = {}
  BY DEF ReviewsInit, OnPage
<1>3. ServerTyped /\ SearchTyped
  BY <1>1, PageAssumption DEF ReviewsInit, ServerTyped, SearchTyped, EmptyBoxes
<1>4. RowsTyped
  <2>1. Cardinality(Ids) \in Nat /\ PageSize \in Nat
    BY PageAssumption, FS_CardinalityType
  <2>2. NoRows \in [{} -> Texts]
    BY DEF NoRows
  <2> QED BY <1>2, <2>1, <2>2 DEF ReviewsInit, RowsTyped
<1>5. MarksTyped /\ ViewerTyped
  BY DEF ReviewsInit, MarksTyped, ViewerTyped
<1>6. /\ ListCall(NoQuery, 0) \in Calls /\ ListCall(NoQuery, 0).query = NoQuery
      /\ ListCall(NoQuery, 0).offset = 0 /\ ListCall(NoQuery, 0).kind = "list"
      /\ ListCall(NoQuery, 0).answer = Nil
  BY <1>1, NewCall, NothingChanges DEF ListCall, Kinds, Call
<1>7. /\ Len(calls) = 1 /\ DOMAIN calls = {1} /\ calls # <<>>
      /\ calls[1] = ListCall(NoQuery, 0)
  BY DEF ReviewsInit
<1>8. CallsTyped
  <2> HIDE DEF Calls
  <2>1. calls \in Seq(Calls)
    BY <1>6 DEF ReviewsInit
  <2>2. Len(calls) <= MaxCalls
    <3>1. MaxCalls \in Nat /\ MaxCalls # 0
      BY PageAssumption
    <3> QED BY <1>7, <3>1
  <2> QED BY <2>1, <2>2 DEF CallsTyped
<1>9. TicksHeld /\ DraftsFollowRows /\ SearchSettles
  BY <1>2 DEF ReviewsInit, TicksHeld, SelectionShown, DraftsFollowRows, SearchSettles
<1>10. Undoubted
  <2>1. ASSUME NEW i \in DOMAIN calls PROVE CallFresh(calls[i])
    <3>1. calls[i] = ListCall(NoQuery, 0)
      BY <1>7
    <3> QED BY <1>6, <3>1, FailedAssumption DEF CallFresh, ReviewsInit
  <2>2. Len(calls) <= 1
    BY <1>7
  <2> QED BY <1>7, <2>1, <2>2 DEF Undoubted
<1> QED BY <1>3, <1>4, <1>5, <1>8, <1>9, <1>10 DEF ReviewsInv, Typed

LEMMA ReviewsStep == ReviewsInv /\ [ReviewsNext]_reviewsVars => ReviewsInv'
<1> SUFFICES ASSUME ReviewsInv, [ReviewsNext]_reviewsVars PROVE ReviewsInv'
  OBVIOUS
<1>1. \/ SearchStep \/ TickStep \/ WriteStep \/ QuietStep
      \/ TypeDraft \/ ServeCall \/ RefuseCall \/ CallEnds
  BY StepKinds DEF ReviewsInv
<1> QED BY <1>1, SearchKeeps, TickKeeps, WriteKeeps, QuietKeeps, TypingKeeps,
           ServingKeeps, RefusingKeeps, EndingKeeps

\* The invariant of the moderation page (Reviews.tsx): everything below follows
\* from it.
THEOREM ReviewsInvariant == ReviewsSpec => []ReviewsInv
  BY ReviewsInitInv, ReviewsStep, PTL DEF ReviewsSpec

LEMMA RowsAgree == ReviewsInv => RowsAreTheQuerys
  BY DEF ReviewsInv, Undoubted, RowsFresh, RowsAreTheQuerys

LEMMA PinsAgree == ReviewsInv => OnePinAtATime
<1> SUFFICES ASSUME ReviewsInv, NEW i \in DOMAIN calls, Len(calls) = 1, ~doubt,
                    calls[i].kind = "put", calls[i].answer = Nil
             PROVE  \E id \in Ids : \/ calls[i].ids = pins[calls[i].query.article] \cup {id}
                                    \/ calls[i].ids = pins[calls[i].query.article] \ {id}
  BY DEF OnePinAtATime
<1>1. CallFresh(calls[i])
  BY DEF ReviewsInv, Undoubted
<1> QED BY <1>1 DEF CallFresh

LEMMA TableAgrees == ReviewsInv => PageAgrees
<1> SUFFICES ASSUME ReviewsInv PROVE PageAgrees
  OBVIOUS
<1> USE DEF ReviewsInv, Typed
<1>1. \A i \in DOMAIN rows : rows[i].id \in Ids /\ rows[i].review \in Reviews
  <2> DEFINE X == [id : Ids, review : Reviews]
  <2>1. rows \in Seq(X)
    BY DEF RowsTyped
  <2>2. \A s \in Seq(X) : \A i \in DOMAIN s : s[i] \in X
    <3> HIDE DEF X
    <3> QED OBVIOUS
  <2> QED BY <2>1, <2>2
<1>2. viewer = Nil \/ viewer.index \in 0 .. viewer.count - 1
  <2>1. CASE viewer \in [count : Nat, index : Nat] /\ viewer.index < viewer.count
    <3>1. viewer.count \in Nat /\ viewer.index \in Nat
      BY <2>1
    <3> QED BY <2>1, <3>1
  <2> QED BY <2>1 DEF ViewerTyped
<1>3. DOMAIN replyDrafts = OnPage /\ DOMAIN editDrafts = OnPage
  BY DEF RowsTyped
<1>4. TableOK
  BY <1>1, <1>2, <1>3 DEF TableOK, ServerTyped, SearchTyped, RowsTyped, MarksTyped,
                          CallsTyped, Queries
<1> QED BY <1>4 DEF PageAgrees, TicksHeld

\* Once nothing is on its way the table of the moderation page holds what the
\* server lists for the filters, the search and the page in force (load and
\* apiWrite), unless answers crossed or failed.
THEOREM TableIsTheServers == ReviewsSpec => []RowsAreTheQuerys
  BY ReviewsInvariant, RowsAgree, PTL

\* A lone request that puts a review on an article's page or takes it off
\* (toggleArticlePin) replaces the article's list by one that differs in that
\* review only.
THEOREM PinsChangeOneByOne == ReviewsSpec => []OnePinAtATime
  BY ReviewsInvariant, PinsAgree, PTL

\* The selection and the drafts of the moderation page belong to its rows, and
\* the search in force to its boxes once the debounce is over.
THEOREM PartsAgree == ReviewsSpec => []PageAgrees
  BY ReviewsInvariant, TableAgrees, PTL
====
