---------------------------- MODULE Pages_proofs ----------------------------
(***************************************************************************)
(* Proofs about the planning form, the pages of saved trips, the groups    *)
(* page and the answer to a plan, for any number of countries, days,       *)
(* amounts, tabs, trips, activities, writes, groups, requests and offers.  *)
(***************************************************************************)
EXTENDS TripPages, GroupsPage, PlanForm, PlanAnswer, FiniteSetTheorems, SequenceTheorems,
        WellFoundedInduction, TLAPS

-----------------------------------------------------------------------------
(* Lists that are sorted or filtered.  The number of places before a place *)
(* is where its element goes, so each element goes to a place of its own.  *)

(* R is a strict total order on the places I.                              *)
IsOrder(R, I) ==
  /\ \A i \in I : <<i, i>> \notin R
  /\ \A i, j, k \in I : <<i, j>> \in R /\ <<j, k>> \in R => <<i, k>> \in R
  /\ \A i, j \in I : i # j => <<i, j>> \in R \/ <<j, i>> \in R

(* How many places of I come before the place i.                           *)
Earlier(R, I, i) == Cardinality({j \in I : <<j, i>> \in R})

(* Fewer places come before a place than there are.                        *)
LEMMA EarlierBounded ==
  ASSUME NEW I, IsFiniteSet(I), NEW R, IsOrder(R, I), NEW i \in I
  PROVE  Earlier(R, I, i) \in 0..(Cardinality(I) - 1)
<1> DEFINE B == {j \in I : <<j, i>> \in R}
<1>1. B \subseteq I \ {i}
  BY DEF IsOrder
<1>2. IsFiniteSet(I \ {i}) /\ Cardinality(I \ {i}) = Cardinality(I) - 1
  BY FS_RemoveElement
<1>3. IsFiniteSet(B) /\ Cardinality(B) <= Cardinality(I \ {i})
  BY <1>1, <1>2, FS_Subset
<1>4. Cardinality(B) \in Nat /\ Cardinality(I) \in Nat
  BY <1>3, FS_CardinalityType
<1> HIDE DEF B
<1>5. Cardinality(B) \in 0..(Cardinality(I) - 1)
  BY <1>2, <1>3, <1>4
<1> QED
  BY <1>5 DEF B, Earlier

(* The later of two places has more places before it.                      *)
LEMMA EarlierGrows ==
  ASSUME NEW I, IsFiniteSet(I), NEW R, IsOrder(R, I), NEW i \in I, NEW j \in I, <<i, j>> \in R
  PROVE  Earlier(R, I, i) < Earlier(R, I, j)
<1> DEFINE B(k) == {l \in I : <<l, k>> \in R}
<1>1. B(i) \subseteq B(j) /\ i \in B(j) /\ i \notin B(i)
  BY DEF IsOrder
<1>2. IsFiniteSet(B(j)) /\ B(j) \subseteq I
  BY FS_Subset
<1>3. B(i) \in SUBSET B(j) /\ B(i) # B(j)
  BY <1>1, Zenon
<1> HIDE DEF B
<1>4. /\ Cardinality(B(i)) <= Cardinality(B(j))
      /\ Cardinality(B(i)) # Cardinality(B(j))
      /\ IsFiniteSet(B(i))
  BY <1>2, <1>3, FS_Subset
<1>5. Cardinality(B(i)) \in Nat /\ Cardinality(B(j)) \in Nat
  BY <1>2, <1>4, FS_CardinalityType
<1>6. Cardinality(B(i)) < Cardinality(B(j))
  BY <1>4, <1>5
<1> QED
  BY <1>6 DEF B, Earlier

(* Each number of earlier places is that of one place, and only of one.    *)
LEMMA EarlierExact ==
  ASSUME NEW I, IsFiniteSet(I), NEW R, IsOrder(R, I), NEW k \in 1..Cardinality(I)
  PROVE  /\ \E i \in I : Earlier(R, I, i) = k - 1
         /\ \A i, j \in I : Earlier(R, I, i) = Earlier(R, I, j) => i = j
<1> DEFINE n == Cardinality(I)
<1>1. n \in Nat
  BY FS_CardinalityType
<1>2. \A i \in I : Earlier(R, I, i) \in 0..(n - 1)
  BY EarlierBounded
<1>3. ASSUME NEW i \in I, NEW j \in I, Earlier(R, I, i) = Earlier(R, I, j), i # j
      PROVE  FALSE
  <2>1. <<i, j>> \in R \/ <<j, i>> \in R
    BY <1>3 DEF IsOrder
  <2>2. Earlier(R, I, i) < Earlier(R, I, j) \/ Earlier(R, I, j) < Earlier(R, I, i)
    BY <2>1, EarlierGrows
  <2>3. Earlier(R, I, i) \in Nat
    BY <1>2, <1>1
  <2> QED
    BY <1>3, <2>2, <2>3
<1>4. ASSUME \A i \in I : Earlier(R, I, i) # k - 1
      PROVE  FALSE
  <2> DEFINE T == (0..(n - 1)) \ {k - 1}
             f == [i \in I |-> Earlier(R, I, i)]
  <2>1. f \in [I -> T]
    BY <1>2, <1>4
  <2>2. IsFiniteSet(0..(n - 1)) /\ Cardinality(0..(n - 1)) = n
    <3>1. n - 1 \in Int /\ 0 \in Int /\ ~(0 > n - 1) /\ (n - 1) - 0 + 1 = n
      BY <1>1
    <3> HIDE DEF n
    <3> QED
      BY <3>1, FS_Interval
  <2>3. k - 1 \in 0..(n - 1)
    BY <1>1
  <2>4. IsFiniteSet(T) /\ Cardinality(T) = n - 1
    <3> DEFINE N == 0..(n - 1)
    <3>1. IsFiniteSet(N) /\ Cardinality(N) = n /\ k - 1 \in N
      BY <2>2, <2>3
    <3> HIDE DEF n, N
    <3>2. IsFiniteSet(N \ {k - 1}) /\ Cardinality(N \ {k - 1}) = n - 1
      BY <3>1, FS_RemoveElement
    <3> QED
      BY <3>2 DEF N
  <2>5. Cardinality(T) < Cardinality(I)
    BY <1>1, <2>4
  <2> HIDE DEF T
  <2>6. \E i, j \in I : i # j /\ f[i] = f[j]
    <3> HIDE DEF f
    <3> QED
      BY <2>1, <2>4, <2>5, FS_PigeonHole
  <2> QED
    BY <1>3, <2>6
<1> QED
  BY <1>3, <1>4

(* Which place comes k-th.                                                 *)
Nth(R, I, k) == CHOOSE i \in I : Earlier(R, I, i) = k - 1

(* Every place comes once, an earlier one first.                           *)
LEMMA NthOrders ==
  ASSUME NEW I, IsFiniteSet(I), NEW R, IsOrder(R, I)
  PROVE  /\ Cardinality(I) \in Nat
         /\ \A k \in 1..Cardinality(I) : Nth(R, I, k) \in I
         /\ \A i \in I : \E k \in 1..Cardinality(I) : Nth(R, I, k) = i
         /\ \A k, l \in 1..Cardinality(I) : k < l => <<Nth(R, I, k), Nth(R, I, l)>> \in R
<1> DEFINE n == Cardinality(I)
<1>1. n \in Nat
  BY FS_CardinalityType
<1>2. ASSUME NEW k \in 1..n PROVE Nth(R, I, k) \in I /\ Earlier(R, I, Nth(R, I, k)) = k - 1
  BY <1>2, EarlierExact DEF Nth
<1>3. ASSUME NEW i \in I PROVE \E k \in 1..n : Nth(R, I, k) = i
  <2>1. Earlier(R, I, i) \in 0..(n - 1)
    BY EarlierBounded
  <2>2. PICK k \in 1..n : Earlier(R, I, i) = k - 1
    <3>1. Earlier(R, I, i) + 1 \in 1..n /\ Earlier(R, I, i) = (Earlier(R, I, i) + 1) - 1
      BY <1>1, <2>1
    <3> QED
      BY <3>1
  <2>3. Nth(R, I, k) \in I /\ Earlier(R, I, Nth(R, I, k)) = k - 1
    BY <1>2
  <2>4. Nth(R, I, k) = i
    BY <2>2, <2>3, EarlierExact
  <2> QED
    BY <2>4
<1>4. ASSUME NEW k \in 1..n, NEW l \in 1..n, k < l
      PROVE  <<Nth(R, I, k), Nth(R, I, l)>> \in R
  <2> DEFINE x == Nth(R, I, k)
             y == Nth(R, I, l)
  <2>1. /\ x \in I /\ Earlier(R, I, x) = k - 1
        /\ y \in I /\ Earlier(R, I, y) = l - 1
    BY <1>2
  <2> HIDE DEF x, y
  <2>2. x # y
    BY <1>1, <1>4, <2>1
  <2>3. <<x, y>> \in R \/ <<y, x>> \in R
    BY <2>1, <2>2 DEF IsOrder
  <2>4. ~(<<y, x>> \in R)
    <3>1. <<y, x>> \in R => l - 1 < k - 1
      BY <2>1, EarlierGrows
    <3> QED
      BY <1>1, <1>4, <3>1
  <2> QED
    BY <2>3, <2>4 DEF x, y
<1> QED
  BY <1>1, <1>2, <1>3, <1>4

(* The list r has the elements of s at the places I, each place once and   *)
(* an earlier one first.                                                   *)
Arranges(r, s, I, R) ==
  \E at \in [DOMAIN r -> I] :
    /\ \A k \in DOMAIN r : r[k] = s[at[k]]
    /\ \A i \in I : \E k \in DOMAIN r : at[k] = i
    /\ \A k, l \in DOMAIN r : k < l => <<at[k], at[l]>> \in R

(* What Arranged returns.                                                  *)
LEMMA Arrangement ==
  ASSUME NEW S, NEW s \in Seq(S), NEW I \in SUBSET DOMAIN s, NEW R, IsOrder(R, I)
  PROVE  Arranged(s, I, R) \in Seq(S) /\ Arranges(Arranged(s, I, R), s, I, R)
<1> DEFINE n  == Cardinality(I)
           at == [k \in 1..n |-> Nth(R, I, k)]
<1>1. IsFiniteSet(I)
  <2>1. DOMAIN s = 1..Len(s) /\ Len(s) \in Nat
    OBVIOUS
  <2>2. IsFiniteSet(1..Len(s))
    BY <2>1, FS_Interval
  <2> QED
    BY <2>1, <2>2, FS_Subset
<1>2. Arranged(s, I, R) = [k \in 1..n |-> s[Nth(R, I, k)]]
  BY DEF Arranged, Nth, Earlier
<1>3. /\ n \in Nat
      /\ \A k \in 1..n : Nth(R, I, k) \in I
      /\ \A i \in I : \E k \in 1..n : Nth(R, I, k) = i
      /\ \A k, l \in 1..n : k < l => <<Nth(R, I, k), Nth(R, I, l)>> \in R
  BY <1>1, NthOrders
<1>4. \A i \in DOMAIN s : s[i] \in S
  OBVIOUS
<1> HIDE DEF n
<1>5. [k \in 1..n |-> s[Nth(R, I, k)]] \in [1..n -> S]
  BY <1>3, <1>4
<1>6. Arranged(s, I, R) \in Seq(S) /\ DOMAIN Arranged(s, I, R) = 1..n
  BY <1>2, <1>3, <1>5
<1>7. at \in [1..n -> I] /\ DOMAIN at = 1..n
  BY <1>3
<1>8. /\ \A k \in 1..n : Arranged(s, I, R)[k] = s[at[k]]
      /\ \A i \in I : \E k \in 1..n : at[k] = i
      /\ \A k, l \in 1..n : k < l => <<at[k], at[l]>> \in R
  BY <1>2, <1>3
<1> HIDE DEF at
<1> QED
  BY <1>6, <1>7, <1>8 DEF Arranges

(* A list that is in order stays as it is.                                 *)
LEMMA InPlace ==
  ASSUME NEW S, NEW s \in Seq(S), NEW R,
         \A i, j \in DOMAIN s : <<i, j>> \in R <=> i < j
  PROVE  Arranged(s, DOMAIN s, R) = s
<1> DEFINE I == DOMAIN s
<1>1. I = 1..Len(s) /\ Len(s) \in Nat
  OBVIOUS
<1>2. Cardinality(I) = Len(s)
  BY <1>1, FS_Interval
<1>3. ASSUME NEW k \in I PROVE Earlier(R, I, k) = k - 1
  <2>1. {j \in I : <<j, k>> \in R} = 1..(k - 1)
    BY <1>1
  <2>2. Cardinality(1..(k - 1)) = k - 1
    BY <1>1, FS_Interval
  <2> QED
    BY <2>1, <2>2 DEF Earlier
<1>4. ASSUME NEW k \in I PROVE Nth(R, I, k) = k
  <2>1. \A i \in I : Earlier(R, I, i) = k - 1 <=> i = k
    BY <1>1, <1>3
  <2> HIDE DEF I
  <2> QED
    BY <2>1 DEF Nth
<1>5. Arranged(s, I, R) = [k \in I |-> s[Nth(R, I, k)]]
  BY <1>1, <1>2 DEF Arranged, Nth, Earlier
<1>6. [k \in I |-> s[Nth(R, I, k)]] = [k \in I |-> s[k]]
  BY <1>4
<1> QED
  BY <1>5, <1>6

(* The places of a list, from the first to the last.                       *)
LEMMA PlacesInOrder ==
  ASSUME NEW S, NEW s \in Seq(S), NEW I \in SUBSET DOMAIN s
  PROVE  IsOrder({p \in Pairs(s) : p[1] < p[2]}, I)
<1>1. DOMAIN s \subseteq Nat
  OBVIOUS
<1>2. \A i, j \in I : <<i, j>> \in {p \in Pairs(s) : p[1] < p[2]} <=> i < j
  BY DEF Pairs
<1>3. I \subseteq Nat
  BY <1>1
<1> HIDE DEF Pairs
<1> QED
  BY <1>2, <1>3 DEF IsOrder

(* A filter that drops nothing changes nothing.                            *)
LEMMA NothingDropped ==
  ASSUME NEW S, NEW s \in Seq(S)
  PROVE  Arranged(s, DOMAIN s, {p \in Pairs(s) : p[1] < p[2]}) = s
<1> DEFINE R == {p \in Pairs(s) : p[1] < p[2]}
<1>1. \A i, j \in DOMAIN s : <<i, j>> \in R <=> i < j
  BY DEF Pairs
<1> HIDE DEF R
<1>2. Arranged(s, DOMAIN s, R) = s
  BY <1>1, InPlace
<1> QED
  BY <1>2 DEF R

(* A list has as many elements as places that were kept.                   *)
LEMMA ArrangedLen ==
  ASSUME NEW S, NEW s \in Seq(S), NEW I \in SUBSET DOMAIN s, NEW R
  PROVE  /\ Len(Arranged(s, I, R)) \in 0..Len(s)
         /\ I = DOMAIN s => Len(Arranged(s, I, R)) = Len(s)
<1>1. DOMAIN s = 1..Len(s) /\ Len(s) \in Nat
  OBVIOUS
<1>2. IsFiniteSet(DOMAIN s) /\ Cardinality(DOMAIN s) = Len(s)
  <2> DEFINE n == Len(s)
  <2>1. n \in Int /\ 1 \in Int /\ (IF 1 > n THEN 0 ELSE n - 1 + 1) = n
    BY <1>1
  <2> HIDE DEF n
  <2>2. IsFiniteSet(1..n) /\ Cardinality(1..n) = n
    BY <2>1, FS_Interval
  <2> QED
    BY <1>1, <2>2 DEF n
<1>3. Cardinality(I) <= Len(s) /\ Cardinality(I) \in Nat
  BY <1>2, FS_Subset, FS_CardinalityType
<1>4. Len(Arranged(s, I, R)) = Cardinality(I)
  BY <1>3 DEF Arranged
<1> QED
  BY <1>1, <1>2, <1>3, <1>4

-----------------------------------------------------------------------------
(* The planning form.  Each requirement of PlanIsCoherent holds for one    *)
(* reason of its own.                                                      *)

(* What one of the two searches holds, and what the form holds.            *)
Codes  == {""} \cup {Hub[c] : c \in Countries}
SearchPlaces == [term : Terms, code : Codes]
Forms  ==
  [country : [Ends -> SearchPlaces], start : 0..MaxDay, end : 0..(MaxDay + 1), min : Amounts,
   max : Amounts, typing : BOOLEAN, checked : BOOLEAN, loads : 0..MaxLoads]

(* A code is that of the country which is named.                           *)
CodeFits(picked) ==
  picked.code # "" => picked.term \in Countries /\ Hub[picked.term] = picked.code

(* The budgets are a range, or the stored ones, or about to be corrected;  *)
(* nobody types while the box is checked.                                  *)
BudgetsFit(f) ==
  /\ f.checked => ~f.typing
  /\ f.typing \/ f.min <= f.max \/ [min |-> f.min, max |-> f.max] \in stored

Fits(f) == f \in Forms /\ (\A e \in Ends : CodeFits(f.country[e])) /\ BudgetsFit(f)

FormInv == FormTypeOK /\ Fits(form) /\ PlanIsCoherent

(* The type of the form in the names above.                                *)
LEMMA FormsTyped ==
  FormTypeOK <=> form \in Forms /\ stored \subseteq Preferences /\ planned \in BOOLEAN
BY DEF FormTypeOK, Forms, SearchPlaces, Codes

(* The empty form fits, and nothing is planned.                            *)
LEMMA FormStarts == FormInit => FormInv
<1> SUFFICES ASSUME FormInit PROVE FormInv
  OBVIOUS
<1>1. /\ form = [country |-> [e \in Ends |-> [term |-> "", code |-> ""]],
                 start |-> 1, end |-> 1, min |-> 0, max |-> 0,
                 typing |-> FALSE, checked |-> FALSE, loads |-> 0]
      /\ stored \subseteq Preferences /\ planned = FALSE
  BY DEF FormInit
<1>2. [e \in Ends |-> [term |-> "", code |-> ""]] \in [Ends -> SearchPlaces]
  BY DEF SearchPlaces, Terms, Codes
<1>3. form \in Forms
  <2>1. 1 \in 0..MaxDay /\ 1 \in 0..(MaxDay + 1) /\ 0 \in Amounts /\ 0 \in 0..MaxLoads
    BY FormAssumption DEF Amounts
  <2> QED
    BY <1>1, <1>2, <2>1 DEF Forms
<1>4. \A e \in Ends : CodeFits(form.country[e])
  BY <1>1 DEF CodeFits
<1>5. form.checked = FALSE /\ form.min = 0 /\ form.max = 0
  BY <1>1
<1>6. BudgetsFit(form)
  BY <1>5 DEF BudgetsFit
<1> QED
  BY <1>1, <1>3, <1>4, <1>6, FormsTyped DEF FormInv, Fits, PlanIsCoherent

(* An input leaves a form that fits, before anything is planned.           *)
LEMMA InputKeeps ==
  ASSUME FormInv, NEW f, Input(f), Fits(f)
  PROVE  FormInv'
<1>1. form' = f /\ stored' = stored /\ planned' = planned /\ ~planned
  BY DEF Input
<1>2. FormTypeOK'
  BY <1>1, FormsTyped DEF FormInv, Fits, FormTypeOK, Forms, SearchPlaces, Codes
<1>3. Fits(form)'
  BY <1>1 DEF Fits, BudgetsFit, CodeFits
<1> QED
  BY <1>1, <1>2, <1>3 DEF FormInv, PlanIsCoherent

(* Changing what a search holds, and changing the dates.                   *)
LEMMA PlaceKeeps ==
  ASSUME FormInv, NEW e \in Ends, NEW picked \in SearchPlaces, CodeFits(picked)
  PROVE  Fits([form EXCEPT !.country[e] = picked])
<1> DEFINE f == [form EXCEPT !.country[e] = picked]
<1>1. form \in Forms /\ form.country \in [Ends -> SearchPlaces]
  BY DEF FormInv, Fits, Forms
<1>2. f = [form EXCEPT !.country = [form.country EXCEPT ![e] = picked]]
  BY <1>1 DEF Forms
<1>3. f \in Forms /\ f.country = [form.country EXCEPT ![e] = picked]
  BY <1>1, <1>2 DEF Forms
<1>4. \A o \in Ends : CodeFits(f.country[o])
  BY <1>1, <1>3 DEF FormInv, Fits
<1>5. BudgetsFit(f)
  BY <1>1, <1>2 DEF FormInv, Fits, BudgetsFit, Forms
<1> QED
  BY <1>3, <1>4, <1>5 DEF Fits

(* Nothing but their types is asked of the dates before the button.        *)
LEMMA DatesKeep ==
  ASSUME FormInv, NEW d \in 0..MaxDay, NEW n \in 0..(MaxDay + 1)
  PROVE  Fits([form EXCEPT !.start = d, !.end = n])
<1>1. form \in Forms
  BY DEF FormInv, Fits
<1> QED
  BY <1>1 DEF FormInv, Fits, BudgetsFit, Forms

(* Each input of the form, one by one; the button checks the rest.         *)
LEMMA FormKept == FormInv /\ [FormStep]_formVars => FormInv'
<1> SUFFICES ASSUME FormInv, [FormStep]_formVars PROVE FormInv'
  OBVIOUS
<1> USE FormAssumption
<1>1. /\ form \in Forms /\ stored \subseteq Preferences /\ Fits(form)
      /\ form.start \in 0..MaxDay /\ form.end \in 0..(MaxDay + 1)
      /\ form.min \in Amounts /\ form.max \in Amounts /\ form.loads \in 0..MaxLoads
      /\ form.typing \in BOOLEAN /\ form.checked \in BOOLEAN
      /\ Amounts \subseteq Nat
  BY FormsTyped DEF FormInv, Fits, Forms, Amounts
<1>2. ASSUME NEW e \in Ends, NEW term \in Terms, TypeCountry(e, term)
      PROVE  FormInv'
  <2>1. Searched(e, term) \in SearchPlaces /\ CodeFits(Searched(e, term))
    BY DEF Searched, SearchPlaces, Codes, CodeFits
  <2> QED
    BY <1>2, <2>1, PlaceKeeps, InputKeeps DEF TypeCountry
<1>3. ASSUME NEW e \in Ends, NEW c \in Countries, SelectCountry(e, c)
      PROVE  FormInv'
  <2> DEFINE picked == [term |-> c, code |-> Hub[c]]
  <2>1. picked \in SearchPlaces /\ CodeFits(picked)
    BY DEF SearchPlaces, Codes, Terms, CodeFits
  <2> QED
    BY <1>3, <2>1, PlaceKeeps, InputKeeps DEF SelectCountry
<1>4. ASSUME NEW d \in 0..MaxDay, SetStart(d)
      PROVE  FormInv'
  <2>1. CASE d # 0 /\ form.end <= d
    <3>1. PICK n \in NextDays(d) : Input([form EXCEPT !.start = d, !.end = n])
      BY <1>4, <2>1 DEF SetStart
    <3>2. n \in 0..(MaxDay + 1)
      BY DEF NextDays
    <3> QED
      BY <3>1, <3>2, DatesKeep, InputKeeps
  <2>2. CASE ~(d # 0 /\ form.end <= d)
    <3>1. Input([form EXCEPT !.start = d])
      BY <1>4, <2>2 DEF SetStart
    <3>2. [form EXCEPT !.start = d] = [form EXCEPT !.start = d, !.end = form.end]
      BY <1>1 DEF Forms
    <3> QED
      BY <1>1, <3>1, <3>2, DatesKeep, InputKeeps
  <2> QED
    BY <2>1, <2>2
<1>5. ASSUME NEW d \in 0..MaxDay, SetEnd(d)
      PROVE  FormInv'
  <2>1. [form EXCEPT !.end = d] = [form EXCEPT !.start = form.start, !.end = d]
    BY <1>1 DEF Forms
  <2>2. d \in 0..(MaxDay + 1)
    OBVIOUS
  <2> QED
    BY <1>1, <1>5, <2>1, <2>2, DatesKeep, InputKeeps DEF SetEnd
<1>6. ASSUME NEW b \in Amounts, SetMin(b)
      PROVE  FormInv'
  <2> DEFINE m == IF b >= form.max THEN b ELSE form.max
  <2>1. m \in Amounts /\ b <= m
    <3>1. b \in Nat /\ form.max \in Nat
      BY <1>1
    <3>2. CASE b >= form.max
      BY <3>1, <3>2
    <3>3. CASE ~(b >= form.max)
      BY <1>1, <3>1, <3>3
    <3> QED
      BY <3>2, <3>3
  <2>2. Fits([form EXCEPT !.min = b, !.max = m])
    BY <1>1, <1>6, <2>1 DEF Fits, BudgetsFit, Forms, SetMin
  <2> QED
    BY <1>6, <2>2, InputKeeps DEF SetMin
<1>7. ASSUME NEW b \in Amounts, SetMax(b)
      PROVE  FormInv'
  <2>1. Fits([form EXCEPT !.max = b, !.typing = TRUE])
    BY <1>1, <1>7 DEF Fits, BudgetsFit, Forms, SetMax
  <2> QED
    BY <1>7, <2>1, InputKeeps DEF SetMax
<1>8. CASE LeaveMax
  <2>1. Raised(form.max) \in Amounts /\ form.min <= Raised(form.max)
    <3>1. form.min \in Nat /\ form.max \in Nat
      BY <1>1
    <3> QED
      BY <1>1, <3>1 DEF Raised
  <2>2. Fits([form EXCEPT !.max = Raised(form.max), !.typing = FALSE])
    BY <1>1, <2>1 DEF Fits, BudgetsFit, Forms
  <2> QED
    BY <1>8, <2>2, InputKeeps DEF LeaveMax
<1>9. CASE Check
  <2>1. form.loads + 1 \in 0..MaxLoads
    BY <1>1, <1>9 DEF Check
  <2>2. Fits([form EXCEPT !.checked = TRUE, !.loads = @ + 1])
    BY <1>1, <1>9, <2>1 DEF Fits, BudgetsFit, Forms, Check
  <2> QED
    BY <1>9, <2>2, InputKeeps DEF Check
<1>10. CASE Uncheck
  <2>1. Fits([form EXCEPT !.checked = FALSE])
    BY <1>1 DEF Fits, BudgetsFit, Forms
  <2> QED
    BY <1>10, <2>1, InputKeeps DEF Uncheck
<1>11. CASE PreferencesArrive
  <2>1. form.loads - 1 \in 0..MaxLoads
    <3>1. form.loads > 0
      BY <1>11 DEF PreferencesArrive
    <3> QED
      BY <1>1, <3>1
  <2>2. ASSUME NEW p \in stored,
               Input([form EXCEPT !.loads = @ - 1, !.min = p.min, !.max = p.max])
        PROVE  FormInv'
    <3> DEFINE f == [form EXCEPT !.loads = @ - 1, !.min = p.min, !.max = p.max]
    <3>1. p = [min |-> p.min, max |-> p.max] /\ p.min \in Amounts /\ p.max \in Amounts
      BY <1>1 DEF Preferences
    <3>2. f \in Forms /\ f.country = form.country /\ f.min = p.min /\ f.max = p.max
          /\ f.checked = form.checked /\ f.typing = form.typing
      BY <1>1, <2>1, <3>1 DEF Forms
    <3>3. [min |-> f.min, max |-> f.max] \in stored
      BY <3>1, <3>2
    <3>4. Fits(f)
      BY <1>1, <3>2, <3>3 DEF Fits, BudgetsFit
    <3> QED
      BY <2>2, <3>4, InputKeeps
  <2>3. CASE Input([form EXCEPT !.loads = @ - 1, !.checked = FALSE])
    <3>1. Fits([form EXCEPT !.loads = @ - 1, !.checked = FALSE])
      BY <1>1, <2>1 DEF Fits, BudgetsFit, Forms
    <3> QED
      BY <2>3, <3>1, InputKeeps
  <2> QED
    BY <1>11, <2>2, <2>3 DEF PreferencesArrive
<1>12. CASE Submit
  <2>1. form' = form /\ stored' = stored /\ planned' = TRUE /\ Valid
    BY <1>12 DEF Submit
  <2>2. form.start <= form.end
    BY <1>1, <2>1 DEF Valid
  <2>3. form.min <= form.max \/ [min |-> form.min, max |-> form.max] \in stored
    BY <1>1, <2>1 DEF Valid, Fits, BudgetsFit
  <2>4. PlanIsCoherent'
    BY <1>1, <2>1, <2>2, <2>3 DEF PlanIsCoherent, Fits, CodeFits
  <2>5. FormTypeOK' /\ Fits(form)'
    BY <1>1, <2>1, FormsTyped DEF FormTypeOK, Forms, SearchPlaces, Codes, Fits, BudgetsFit, CodeFits
  <2> QED
    BY <2>4, <2>5 DEF FormInv
<1>13. CASE UNCHANGED formVars
  BY <1>13 DEF formVars, FormInv, FormTypeOK, Fits, BudgetsFit, CodeFits, PlanIsCoherent
<1> QED
  BY <1>2, <1>3, <1>4, <1>5, <1>6, <1>7, <1>8, <1>9, <1>10, <1>11, <1>12, <1>13 DEF FormStep

(* The form keeps its type, the days and the amounts within their bounds.  *)
THEOREM FormTypeSafety == FormSpec => []FormTypeOK
<1>1. FormInv => FormTypeOK
  BY DEF FormInv
<1> QED
  BY <1>1, FormStarts, FormKept, PTL DEF FormSpec

(* Whatever is typed, selected, checked, cleared and answered late before  *)
(* the button is pressed, the plan that is asked for is coherent.          *)
THEOREM PlansAreCoherent == FormSpec => []PlanIsCoherent
<1>1. FormInv => PlanIsCoherent
  BY DEF FormInv
<1> QED
  BY <1>1, FormStarts, FormKept, PTL DEF FormSpec

-----------------------------------------------------------------------------
(* The pages of saved trips.  The inductive invariant is stated of records *)
(* and of a table sv of trips at write n, so that what a step leaves alone *)
(* can be carried over to the table after it.                              *)

TripRecords(x, n) ==
  [day : {x.day}, stays : SUBSET Stays, version : 1..n, dragged : BOOLEAN]

TableOK(sv, c, n) ==
  /\ DOMAIN sv = Trips /\ c \in 0..MaxTrips /\ n \in 0..MaxWrites
  /\ \A id \in Trips :
       /\ sv[id] # None => sv[id] \in TripRecords(sv[id], n)
       /\ id > c => sv[id] = None

(* Whoever has read a trip has each of its stays that was there by then.   *)
KeptBy(sv, id, stays, read) ==
  sv[id] # None =>
    \A s \in sv[id].stays : s.row <= read => \E z \in stays : z.added = s.added

(* What the page in a tab holds.                                           *)
ViewRecords(x, n) ==
  [view : Views, trip : {None} \cup Trips, day : {x.day}, slots : {x.slots},
   stays : SUBSET Stays, read : 0..n, changed : BOOLEAN, stay : {x.stay},
   card : {None} \cup Trips]

ViewOK(x, sv, n) ==
  /\ x \in ViewRecords(x, n)
  /\ x.view \in {"loading", "timeline", "hotels", "detail"} => x.trip \in Trips
  /\ x.view = "plan" => x.trip = None
  /\ x.view = "timeline" => KeptBy(sv, x.trip, x.stays, x.read)

(* What a save or an update carries.                                       *)
CallRecords(w, n) ==
  [leg : {"idle", "sent", "served", "failed", "left"}, trip : {None} \cup Trips,
   day : {w.day}, stays : SUBSET Stays, read : 0..n]

CallOK(w, sv, n) ==
  /\ w \in CallRecords(w, n)
  /\ w.leg \in {"sent", "left"} /\ w.trip # None => KeptBy(sv, w.trip, w.stays, w.read)

(* What a dialog is about, and what it has read.                           *)
DialogRecords(d, n) ==
  [leg : {"closed", "asking", "reading", "read", "served"},
   does : {None, "add", "remove", "delete"}, trip : {None} \cup Trips, what : {d.what},
   day : {d.day}, stays : SUBSET Stays, read : 0..n, dragged : BOOLEAN]

DialogOK(d, sv, n) ==
  /\ d \in DialogRecords(d, n)
  /\ d.leg # "closed" => d.trip \in Trips /\ (d.does = "add" => d.what \in Hotels)
  /\ d.leg = "read" => d.does = "add" /\ KeptBy(sv, d.trip, d.stays, d.read)

BoundsOK ==
  /\ remembered \in {None} \cup Trips /\ shown \subseteq Stays
  /\ drags \in 0..MaxDrags /\ visits \in 0..MaxVisits /\ troubles \in 0..MaxTroubles

TabsOK ==
  /\ DOMAIN tab = Tabs /\ DOMAIN writing = Tabs /\ DOMAIN dialog = Tabs
  /\ \A t \in Tabs :
       /\ ViewOK(tab[t], saved, writes)
       /\ CallOK(writing[t], saved, writes)
       /\ DialogOK(dialog[t], saved, writes)

TripInv == TableOK(saved, created, writes) /\ BoundsOK /\ TabsOK

(* How the table may change: stays go, or every row is newer than what     *)
(* anybody has read.                                                       *)
Evolved(sv, sw, n, m) ==
  /\ n \in Nat /\ m \in Nat /\ n <= m
  /\ \A id \in Trips : sw[id] # None =>
       \/ sv[id] # None /\ sw[id].stays \subseteq sv[id].stays
       \/ \A s \in sw[id].stays : s.row \in Nat /\ s.row > n

(* What a reader has read of a trip stays good in the table after a step.  *)
LEMMA KeptLasts ==
  ASSUME NEW sv, NEW sw, NEW n, NEW m, Evolved(sv, sw, n, m),
         NEW id \in Trips, NEW stays, NEW read \in 0..n, KeptBy(sv, id, stays, read)
  PROVE  KeptBy(sw, id, stays, read)
BY DEF Evolved, KeptBy

(* So do a page, a request and a dialog that the step leaves alone.        *)
LEMMA ViewLasts ==
  ASSUME NEW sv, NEW sw, NEW n, NEW m, Evolved(sv, sw, n, m), NEW x, ViewOK(x, sv, n)
  PROVE  ViewOK(x, sw, m)
<1>1. x \in ViewRecords(x, n) /\ n \in Nat /\ m \in Nat /\ n <= m
  BY DEF ViewOK, Evolved
<1>2. x \in ViewRecords(x, m) /\ x.read \in 0..n
  BY <1>1 DEF ViewRecords
<1>3. x.view = "timeline" => KeptBy(sw, x.trip, x.stays, x.read)
  BY <1>2, KeptLasts DEF ViewOK
<1> QED
  BY <1>2, <1>3 DEF ViewOK

(* ... a request under way ...                                             *)
LEMMA CallLasts ==
  ASSUME NEW sv, NEW sw, NEW n, NEW m, Evolved(sv, sw, n, m), NEW w, CallOK(w, sv, n)
  PROVE  CallOK(w, sw, m)
<1>1. w \in CallRecords(w, n) /\ n \in Nat /\ m \in Nat /\ n <= m
  BY DEF CallOK, Evolved
<1>2. w \in CallRecords(w, m) /\ w.read \in 0..n /\ w.trip \in {None} \cup Trips
  BY <1>1 DEF CallRecords
<1>3. w.leg \in {"sent", "left"} /\ w.trip # None => KeptBy(sw, w.trip, w.stays, w.read)
  BY <1>2, KeptLasts DEF CallOK
<1> QED
  BY <1>2, <1>3 DEF CallOK

(* ... and an open dialog.                                                 *)
LEMMA DialogLasts ==
  ASSUME NEW sv, NEW sw, NEW n, NEW m, Evolved(sv, sw, n, m), NEW d, DialogOK(d, sv, n)
  PROVE  DialogOK(d, sw, m)
<1>1. d \in DialogRecords(d, n) /\ n \in Nat /\ m \in Nat /\ n <= m
  BY DEF DialogOK, Evolved
<1>2. d \in DialogRecords(d, m) /\ d.read \in 0..n
  BY <1>1 DEF DialogRecords
<1>3. d.leg = "read" => KeptBy(sw, d.trip, d.stays, d.read)
  BY <1>2, KeptLasts DEF DialogOK
<1> QED
  BY <1>2, <1>3 DEF DialogOK

(* Empty tabs, and tables with the same plan in each trip or none.         *)
LEMMA TripsStart == TripInit => TripInv
<1> SUFFICES ASSUME TripInit PROVE TripInv
  OBVIOUS
<1> USE TripAssumption
<1>1. PICK p \in Plans :
        saved = [id \in Trips |-> IF id <= created
          THEN [day |-> p, stays |-> {}, version |-> id, dragged |-> FALSE] ELSE None]
  BY DEF TripInit
<1>2. created \in 0..MaxTrips /\ writes = created /\ writes \in 0..MaxWrites /\ 0 \in 0..writes
  BY DEF TripInit
<1>3. TableOK(saved, created, writes)
  <2>1. ASSUME NEW id \in Trips, id <= created
        PROVE  saved[id] \in TripRecords(saved[id], writes)
    <3>1. saved[id] = [day |-> p, stays |-> {}, version |-> id, dragged |-> FALSE]
      BY <1>1, <2>1
    <3>2. id \in 1..writes
      BY <1>2, <2>1 DEF Trips
    <3> QED
      BY <3>1, <3>2 DEF TripRecords
  <2>2. ASSUME NEW id \in Trips, id > created
        PROVE  saved[id] = None
    BY <1>1, <1>2, <2>2 DEF Trips
  <2> QED
    BY <1>1, <1>2, <2>1, <2>2 DEF TableOK, Trips
<1>4. BoundsOK
  BY DEF TripInit, BoundsOK
<1>5. /\ ViewOK(Empty, saved, writes) /\ CallOK(Silent, saved, writes)
      /\ DialogOK(Closed, saved, writes)
  BY <1>2 DEF Empty, Silent, Closed, ViewOK, CallOK, DialogOK, ViewRecords, CallRecords,
     DialogRecords, Views
<1> QED
  BY <1>3, <1>4, <1>5 DEF TripInv, TabsOK, TripInit

(* A step is that of one tab.                                              *)
Alone(t) ==
  /\ DOMAIN tab' = DOMAIN tab /\ DOMAIN writing' = DOMAIN writing
  /\ DOMAIN dialog' = DOMAIN dialog
  /\ \A u \in Tabs \ {t} :
       tab'[u] = tab[u] /\ writing'[u] = writing[u] /\ dialog'[u] = dialog[u]

(* Each action changes the page, request and dialog of its own tab.        *)
LEMMA StepsAreAlone ==
  ASSUME NEW t \in Tabs, TripInv, TripStep(t)
  PROVE  Alone(t)
<1>1. DOMAIN tab = Tabs /\ DOMAIN writing = Tabs /\ DOMAIN dialog = Tabs
  BY DEF TripInv, TabsOK
<1> USE <1>1 DEF Alone
<1>2. ASSUME NEW p, OpenPlan(t, p) PROVE Alone(t)
  BY <1>2 DEF OpenPlan
<1>3. ASSUME NEW id, OpenTrip(t, id) PROVE Alone(t)
  BY <1>3 DEF OpenTrip, NewDocument
<1>4. CASE TripLoaded(t)
  BY <1>4 DEF TripLoaded
<1>5. CASE LoadFails(t)
  BY <1>5 DEF LoadFails
<1>6. ASSUME NEW i, NEW k, Drag(t, i, k) PROVE Alone(t)
  BY <1>6 DEF Drag
<1>7. CASE SendWrite(t)
  BY <1>7 DEF SendWrite
<1>8. CASE WriteServed(t)
  BY <1>8 DEF WriteServed
<1>9. CASE WriteFails(t)
  BY <1>9 DEF WriteFails
<1>10. CASE WriteArrives(t)
  BY <1>10 DEF WriteArrives
<1>11. CASE GoToHotels(t)
  BY <1>11 DEF GoToHotels
<1>12. CASE SuggestionRead(t) \/ CardsRendered(t)
  BY <1>12 DEF SuggestionRead, CardsRendered
<1>13. ASSUME NEW s, GoToStay(t, s) PROVE Alone(t)
  BY <1>13 DEF GoToStay
<1>15. ASSUME NEW s, ReloadStay(t, s) PROVE Alone(t)
  BY <1>15 DEF ReloadStay, NewDocument
<1>14. CASE Dialogs(t)
  <2>1. ASSUME NEW does, NEW trip, NEW what, Ask(t, does, trip, what) PROVE Alone(t)
    BY <2>1 DEF Ask
  <2>2. CASE Dismiss(t) \/ ReadForStay(t)
    BY <2>2 DEF Dismiss, ReadForStay
  <2>3. CASE AddStay(t)
    BY <2>3 DEF AddStay
  <2>4. CASE RemoveStay(t) \/ DeleteTrip(t)
    BY <2>4 DEF RemoveStay, DeleteTrip
  <2>5. CASE DialogFails(t)
    BY <2>5 DEF DialogFails
  <2>6. CASE DialogDone(t)
    BY <2>6 DEF DialogDone
  <2> QED
    BY <1>14, <2>1, <2>2, <2>3, <2>4, <2>5, <2>6 DEF Dialogs, AskToAdd, AskToRemove, AskToDelete
<1> QED
  BY <1>2, <1>3, <1>4, <1>5, <1>6, <1>7, <1>8, <1>9, <1>10, <1>11, <1>12, <1>13, <1>14,
     <1>15 DEF TripStep

(* What has to be shown of a step of tab t.                                *)
LEMMA OneTab ==
  ASSUME TripInv, NEW t \in Tabs, Alone(t),
         TableOK(saved', created', writes'), Evolved(saved, saved', writes, writes'),
         ViewOK(tab'[t], saved', writes'), CallOK(writing'[t], saved', writes'),
         DialogOK(dialog'[t], saved', writes'), BoundsOK'
  PROVE  TripInv'
<1>1. ASSUME NEW u \in Tabs
      PROVE  /\ ViewOK(tab'[u], saved', writes')
             /\ CallOK(writing'[u], saved', writes')
             /\ DialogOK(dialog'[u], saved', writes')
  <2>1. CASE u = t
    BY <2>1
  <2>2. CASE u # t
    <3>1. tab'[u] = tab[u] /\ writing'[u] = writing[u] /\ dialog'[u] = dialog[u]
      BY <2>2 DEF Alone
    <3>2. /\ ViewOK(tab[u], saved, writes) /\ CallOK(writing[u], saved, writes)
          /\ DialogOK(dialog[u], saved, writes)
      BY DEF TripInv, TabsOK
    <3> QED
      BY <3>1, <3>2, ViewLasts, CallLasts, DialogLasts
  <2> QED
    BY <2>1, <2>2
<1>2. DOMAIN tab' = Tabs /\ DOMAIN writing' = Tabs /\ DOMAIN dialog' = Tabs
  BY DEF Alone, TripInv, TabsOK
<1>3. TabsOK'
  BY <1>1, <1>2 DEF TabsOK, ViewOK, CallOK, DialogOK, ViewRecords, CallRecords, DialogRecords,
     KeptBy
<1>4. TableOK(saved, created, writes)'
  BY DEF TableOK, TripRecords
<1> QED
  BY <1>3, <1>4 DEF TripInv

(* A step that leaves the tables alone.                                    *)
LEMMA OnPages ==
  ASSUME TripInv, NEW t \in Tabs, Alone(t), saved' = saved, created' = created, writes' = writes,
         ViewOK(tab'[t], saved, writes), CallOK(writing'[t], saved, writes),
         DialogOK(dialog'[t], saved, writes), BoundsOK'
  PROVE  TripInv'
<1>1. TableOK(saved', created', writes') /\ Evolved(saved, saved', writes, writes')
  BY DEF TripInv, TableOK, Evolved, TripRecords
<1> QED
  BY <1>1, OneTab

(* What is known of a tab, and of the page that it shows first.            *)
LEMMA TabFacts ==
  ASSUME TripInv, NEW t \in Tabs
  PROVE  /\ t \in DOMAIN tab /\ t \in DOMAIN writing /\ t \in DOMAIN dialog
         /\ ViewOK(tab[t], saved, writes) /\ tab[t] \in ViewRecords(tab[t], writes)
         /\ CallOK(writing[t], saved, writes) /\ writing[t] \in CallRecords(writing[t], writes)
         /\ DialogOK(dialog[t], saved, writes) /\ dialog[t] \in DialogRecords(dialog[t], writes)
         /\ created \in 0..MaxTrips /\ writes \in 0..MaxWrites /\ 0 \in 0..writes
         /\ BoundsOK
BY TripAssumption DEF TripInv, TabsOK, TableOK, ViewOK, CallOK, DialogOK

FreshRecords(x) ==
  [view : Views, trip : {None} \cup Trips, day : {x.day}, slots : {x.slots}, stays : {{}},
   read : {0}, changed : {FALSE}, stay : {x.stay}, card : {None}]

(* A page that has just been opened has read nothing.                      *)
LEMMA FreshPage ==
  ASSUME TripInv, NEW x, x \in FreshRecords(x), x.view # "timeline",
         x.view = "plan" => x.trip = None,
         x.view \in {"loading", "hotels", "detail"} => x.trip \in Trips
  PROVE  ViewOK(x, saved, writes)
<1>1. 0 \in 0..writes
  BY TripAssumption DEF TripInv, TableOK
<1> QED
  BY <1>1 DEF FreshRecords, ViewOK, ViewRecords

(* The profile, and a tab with no request and no dialog.                   *)
LEMMA FirstPage ==
  ASSUME TripInv
  PROVE  /\ ViewOK(Empty, saved, writes) /\ CallOK(Silent, saved, writes)
         /\ DialogOK(Closed, saved, writes)
<1>1. 0 \in 0..writes
  BY TripAssumption DEF TripInv, TableOK
<1> QED
  BY <1>1 DEF Empty, Silent, Closed, ViewOK, CallOK, DialogOK, ViewRecords, CallRecords,
     DialogRecords, Views

(* The bounds count one visit, one trouble, one drag, or nothing.          *)
LEMMA BoundsKept ==
  ASSUME BoundsOK, remembered' = remembered, shown' \subseteq Stays,
         Visit \/ Trouble \/ UNCHANGED bounds
  PROVE  BoundsOK'
BY TripAssumption DEF BoundsOK, Visit, Trouble, bounds

(* Opening, loading and dragging.                                          *)
LEMMA OpenKeeps ==
  ASSUME TripInv, NEW t \in Tabs, Alone(t),
         \/ \E p \in Plans : OpenPlan(t, p)
         \/ \E id \in 1..created : OpenTrip(t, id)
         \/ GoToHotels(t)
         \/ \E s \in tab[t].stays : GoToStay(t, s)
         \/ \E s \in shown : ReloadStay(t, s)
  PROVE  TripInv'
<1>0. /\ t \in DOMAIN tab /\ t \in DOMAIN writing /\ BoundsOK
      /\ ViewOK(tab[t], saved, writes) /\ tab[t] \in ViewRecords(tab[t], writes)
      /\ CallOK(writing[t], saved, writes) /\ writing[t] \in CallRecords(writing[t], writes)
      /\ DialogOK(dialog[t], saved, writes) /\ created \in 0..MaxTrips
  BY TabFacts
<1>1. /\ remembered' = remembered /\ Visit
      /\ saved' = saved /\ created' = created /\ writes' = writes /\ dialog' = dialog
  BY DEF OpenPlan, OpenTrip, NewDocument, GoToHotels, GoToStay, ReloadStay, storage
<1>2. ASSUME ViewOK(tab'[t], saved, writes), CallOK(writing'[t], saved, writes),
             shown' \subseteq Stays
      PROVE  TripInv'
  <2>1. BoundsOK'
    BY <1>0, <1>1, <1>2, BoundsKept
  <2> QED
    BY <1>0, <1>1, <1>2, <2>1, OnPages
<1>7. ASSUME UNCHANGED storage PROVE shown' \subseteq Stays
  BY <1>0, <1>7 DEF storage, BoundsOK
<1>8. ASSUME NewDocument(t) PROVE CallOK(writing'[t], saved, writes)
  <2>1. writing'[t] = IF writing[t].leg = "sent" THEN [writing[t] EXCEPT !.leg = "left"]
                      ELSE Silent
    BY <1>0, <1>8 DEF NewDocument
  <2>2. CASE writing[t].leg = "sent"
    BY <1>0, <2>1, <2>2 DEF CallOK, CallRecords
  <2>3. CASE writing[t].leg # "sent"
    BY <2>1, <2>3, FirstPage
  <2> QED
    BY <2>2, <2>3
<1>3. ASSUME NEW p \in Plans, OpenPlan(t, p)
      PROVE  TripInv'
  <2> DEFINE slots == [i \in DOMAIN p |-> p[i].at]
  <2>1. writing' = writing /\ tab'[t] = [Empty EXCEPT !.view = "plan", !.day = p, !.slots = slots]
    BY <1>0, <1>3 DEF OpenPlan
  <2>3. shown' \subseteq Stays
    BY <1>3, <1>7 DEF OpenPlan
  <2> HIDE DEF slots
  <2>2. tab'[t] \in FreshRecords(tab'[t]) /\ tab'[t].view = "plan" /\ tab'[t].trip = None
    BY <2>1 DEF Empty, FreshRecords, Views
  <2> QED
    BY <1>0, <1>2, <2>1, <2>2, <2>3, FreshPage
<1>4. ASSUME NEW id \in 1..created, OpenTrip(t, id)
      PROVE  TripInv'
  <2>1. tab'[t] = [Empty EXCEPT !.view = "loading", !.trip = id]
    BY <1>0, <1>4 DEF OpenTrip
  <2>2. id \in Trips
    BY <1>0, TripAssumption DEF Trips
  <2>3. tab'[t] \in FreshRecords(tab'[t]) /\ tab'[t].view = "loading" /\ tab'[t].trip \in Trips
    BY <2>1, <2>2 DEF Empty, FreshRecords, Views
  <2>4. CallOK(writing'[t], saved, writes) /\ shown' \subseteq Stays
    BY <1>4, <1>7, <1>8 DEF OpenTrip
  <2> QED
    BY <1>2, <2>3, <2>4, FreshPage
<1>5. CASE GoToHotels(t)
  <2>1. /\ tab'[t] = [Empty EXCEPT !.view = "hotels", !.trip = tab[t].trip]
        /\ tab[t].view = "timeline" /\ writing' = writing /\ shown' \subseteq Stays
    BY <1>0, <1>5, <1>7 DEF GoToHotels
  <2>2. tab[t].trip \in Trips
    BY <1>0, <2>1 DEF ViewOK
  <2>3. tab'[t] \in FreshRecords(tab'[t]) /\ tab'[t].view = "hotels" /\ tab'[t].trip \in Trips
    BY <2>1, <2>2 DEF Empty, FreshRecords, Views
  <2> QED
    BY <1>0, <1>2, <2>1, <2>3, FreshPage
<1>6. ASSUME NEW s \in tab[t].stays, GoToStay(t, s)
      PROVE  TripInv'
  <2>1. /\ tab'[t] = [Empty EXCEPT !.view = "detail", !.trip = tab[t].trip, !.stay = s]
        /\ tab[t].view = "timeline" /\ writing' = writing /\ shown' = shown \cup {s}
    BY <1>0, <1>6 DEF GoToStay
  <2>4. shown' \subseteq Stays
    BY <1>0, <1>6, <2>1 DEF ViewRecords, BoundsOK
  <2>2. tab[t].trip \in Trips
    BY <1>0, <2>1 DEF ViewOK
  <2>3. tab'[t] \in FreshRecords(tab'[t]) /\ tab'[t].view = "detail" /\ tab'[t].trip \in Trips
    BY <2>1, <2>2 DEF Empty, FreshRecords, Views
  <2> QED
    BY <1>0, <1>2, <2>1, <2>3, <2>4, FreshPage
<1>9. ASSUME NEW s, ReloadStay(t, s)
      PROVE  TripInv'
  <2>1. tab'[t] = [tab[t] EXCEPT !.stay = s]
    BY <1>0, <1>9 DEF ReloadStay
  <2>2. CallOK(writing'[t], saved, writes) /\ shown' \subseteq Stays
    BY <1>7, <1>8, <1>9 DEF ReloadStay
  <2>3. ViewOK(tab'[t], saved, writes)
    BY <1>0, <2>1 DEF ViewOK, ViewRecords
  <2> QED
    BY <1>2, <2>2, <2>3
<1> QED
  BY <1>3, <1>4, <1>5, <1>6, <1>9

(* Reading what a page shows, and dragging.                                *)
LEMMA ReadKeeps ==
  ASSUME TripInv, NEW t \in Tabs, Alone(t),
         \/ TripLoaded(t) \/ LoadFails(t) \/ SuggestionRead(t) \/ CardsRendered(t)
         \/ \E i, k \in DOMAIN tab[t].day : Drag(t, i, k)
  PROVE  TripInv'
<1>0. /\ t \in DOMAIN tab /\ BoundsOK
      /\ ViewOK(tab[t], saved, writes) /\ tab[t] \in ViewRecords(tab[t], writes)
      /\ CallOK(writing[t], saved, writes) /\ DialogOK(dialog[t], saved, writes)
      /\ writes \in 0..MaxWrites
  BY TabFacts
<1>1. /\ saved' = saved /\ created' = created /\ writes' = writes
      /\ writing' = writing /\ dialog' = dialog
  BY DEF TripLoaded, LoadFails, SuggestionRead, CardsRendered, Drag
<1>2. ASSUME ViewOK(tab'[t], saved, writes), BoundsOK'
      PROVE  TripInv'
  BY <1>0, <1>1, <1>2, OnPages
<1>8. ASSUME UNCHANGED storage PROVE remembered' = remembered /\ shown' \subseteq Stays
  BY <1>0, <1>8 DEF storage, BoundsOK
<1>3. CASE TripLoaded(t)
  <2> DEFINE id == tab[t].trip
  <2>1. id \in Trips
    BY <1>0, <1>3 DEF TripLoaded, ViewOK
  <2>2. CASE saved[id] = None
    <3>1. tab'[t] = [tab[t] EXCEPT !.view = "missing"]
      BY <1>0, <1>3, <2>2 DEF TripLoaded
    <3>2. ViewOK(tab'[t], saved, writes)
      BY <1>0, <3>1 DEF ViewOK, ViewRecords, Views
    <3> QED
      BY <1>0, <1>2, <1>3, <1>8, <3>2, BoundsKept DEF TripLoaded
  <2>3. CASE saved[id] # None
    <3> DEFINE day == ByTime(saved[id].day)
               slots == [i \in DOMAIN day |-> day[i].at]
    <3>1. tab'[t] = [tab[t] EXCEPT !.view = "timeline", !.day = day, !.slots = slots,
                       !.stays = saved[id].stays, !.read = saved[id].version]
      BY <1>0, <1>3, <2>3 DEF TripLoaded
    <3>2. saved[id].stays \in SUBSET Stays /\ saved[id].version \in 0..writes
      BY <2>1, <2>3 DEF TripInv, TableOK, TripRecords
    <3>3. KeptBy(saved, id, saved[id].stays, saved[id].version)
      BY DEF KeptBy
    <3> HIDE DEF day, slots
    <3>4. ViewOK(tab'[t], saved, writes)
      BY <1>0, <2>1, <3>1, <3>2, <3>3 DEF ViewOK, ViewRecords, Views
    <3> QED
      BY <1>0, <1>2, <1>3, <1>8, <3>4, BoundsKept DEF TripLoaded
  <2> QED
    BY <2>2, <2>3
<1>4. CASE LoadFails(t)
  <2>1. tab'[t] = [tab[t] EXCEPT !.view = "missing"]
    BY <1>0, <1>4 DEF LoadFails
  <2>2. ViewOK(tab'[t], saved, writes)
    BY <1>0, <2>1 DEF ViewOK, ViewRecords, Views
  <2>3. BoundsOK'
    BY <1>0, <1>4, <1>8, BoundsKept DEF LoadFails
  <2> QED
    BY <1>2, <2>2, <2>3
<1>5. CASE SuggestionRead(t)
  <2>1. tab'[t] = [tab[t] EXCEPT !.read = saved[tab[t].trip].version]
    BY <1>0, <1>5 DEF SuggestionRead
  <2>2. tab[t].trip \in Trips /\ tab[t].view = "hotels" /\ saved[tab[t].trip] # None
    BY <1>0, <1>5 DEF SuggestionRead, ViewOK
  <2>3. saved[tab[t].trip].version \in 0..writes
    BY <2>2 DEF TripInv, TableOK, TripRecords
  <2>4. ViewOK(tab'[t], saved, writes)
    BY <1>0, <2>1, <2>2, <2>3 DEF ViewOK, ViewRecords
  <2>5. BoundsOK'
    BY <1>0, <1>5, <2>2 DEF SuggestionRead, BoundsOK, bounds
  <2> QED
    BY <1>2, <2>4, <2>5
<1>6. CASE CardsRendered(t)
  <2>1. tab'[t] = [tab[t] EXCEPT !.card = remembered]
    BY <1>0, <1>6 DEF CardsRendered
  <2>2. ViewOK(tab'[t], saved, writes)
    BY <1>0, <2>1 DEF ViewOK, ViewRecords, BoundsOK
  <2>3. BoundsOK'
    BY <1>0, <1>6, <1>8, BoundsKept DEF CardsRendered
  <2> QED
    BY <1>2, <2>2, <2>3
<1>7. ASSUME NEW i, NEW k, Drag(t, i, k)
      PROVE  TripInv'
  <2> DEFINE day == Retimed(Moved(tab[t].day, i, k), tab[t].slots)
  <2>1. tab'[t] = [tab[t] EXCEPT !.day = day, !.changed = TRUE]
    BY <1>0, <1>7 DEF Drag
  <2> HIDE DEF day
  <2>2. ViewOK(tab'[t], saved, writes)
    BY <1>0, <2>1 DEF ViewOK, ViewRecords
  <2>3. BoundsOK'
    <3>1. /\ drags < MaxDrags /\ drags' = drags + 1 /\ visits' = visits /\ troubles' = troubles
          /\ remembered' = remembered /\ shown' \subseteq Stays /\ writes' = writes
      BY <1>7, <1>8 DEF Drag
    <3>2. MaxDrags \in Nat
      BY TripAssumption
    <3> QED
      BY <1>0, <3>1, <3>2 DEF BoundsOK
  <2> QED
    BY <1>2, <2>2, <2>3
<1> QED
  BY <1>3, <1>4, <1>5, <1>6, <1>7

(* Sending a save or an update, its failure, and its continuation.         *)
LEMMA CallKeeps ==
  ASSUME TripInv, NEW t \in Tabs, Alone(t), SendWrite(t) \/ WriteFails(t) \/ WriteArrives(t)
  PROVE  TripInv'
<1>0. /\ t \in DOMAIN tab /\ t \in DOMAIN writing /\ BoundsOK
      /\ ViewOK(tab[t], saved, writes) /\ tab[t] \in ViewRecords(tab[t], writes)
      /\ CallOK(writing[t], saved, writes) /\ writing[t] \in CallRecords(writing[t], writes)
      /\ DialogOK(dialog[t], saved, writes)
  BY TabFacts
<1>1. /\ saved' = saved /\ created' = created /\ writes' = writes /\ dialog' = dialog
      /\ UNCHANGED storage /\ (Trouble \/ UNCHANGED bounds)
  BY DEF SendWrite, WriteFails, WriteArrives
<1>2. ASSUME ViewOK(tab'[t], saved, writes), CallOK(writing'[t], saved, writes)
      PROVE  TripInv'
  <2>1. BoundsOK'
    BY <1>0, <1>1, BoundsKept DEF storage, BoundsOK
  <2> QED
    BY <1>0, <1>1, <1>2, <2>1, OnPages
<1>3. CASE SendWrite(t)
  <2>1. /\ writing'[t] = [leg |-> "sent", trip |-> tab[t].trip, day |-> tab[t].day,
                          stays |-> tab[t].stays, read |-> tab[t].read]
        /\ tab' = tab
        /\ tab[t].view \in {"plan", "timeline"}
    BY <1>0, <1>3 DEF SendWrite
  <2>2. tab[t].trip # None => KeptBy(saved, tab[t].trip, tab[t].stays, tab[t].read)
    BY <1>0, <2>1 DEF ViewOK
  <2>3. CallOK(writing'[t], saved, writes)
    BY <1>0, <2>1, <2>2 DEF CallOK, CallRecords, ViewRecords
  <2> QED
    BY <1>0, <1>2, <2>1, <2>3
<1>4. CASE WriteFails(t)
  <2>1. /\ writing'[t] = IF writing[t].leg = "left" THEN Silent
                         ELSE [writing[t] EXCEPT !.leg = "failed"]
        /\ tab' = tab
    BY <1>0, <1>4 DEF WriteFails
  <2>2. CallOK(writing'[t], saved, writes)
    <3>1. CASE writing[t].leg = "left"
      BY <2>1, <3>1, FirstPage
    <3>2. CASE writing[t].leg # "left"
      BY <1>0, <2>1, <3>2 DEF CallOK, CallRecords
    <3> QED
      BY <3>1, <3>2
  <2> QED
    BY <1>0, <1>2, <2>1, <2>2
<1>5. CASE WriteArrives(t)
  <2>1. writing'[t] = Silent /\ (tab'[t] = Empty \/ tab'[t] = tab[t])
    BY <1>0, <1>5 DEF WriteArrives
  <2> QED
    BY <1>0, <1>2, <2>1, FirstPage
<1> QED
  BY <1>3, <1>4, <1>5

(* The dialogs, up to the change that they make.                           *)
LEMMA DialogKeeps ==
  ASSUME TripInv, NEW t \in Tabs, Alone(t),
         \/ \E h \in Hotels : AskToAdd(t, h)
         \/ AskToRemove(t)
         \/ \E id \in 1..created : AskToDelete(t, id)
         \/ Dismiss(t) \/ ReadForStay(t) \/ DialogFails(t) \/ DialogDone(t)
  PROVE  TripInv'
<1>0. /\ t \in DOMAIN tab /\ t \in DOMAIN dialog /\ BoundsOK
      /\ ViewOK(tab[t], saved, writes) /\ tab[t] \in ViewRecords(tab[t], writes)
      /\ CallOK(writing[t], saved, writes)
      /\ DialogOK(dialog[t], saved, writes) /\ dialog[t] \in DialogRecords(dialog[t], writes)
      /\ created \in 0..MaxTrips /\ 0 \in 0..writes
  BY TabFacts
<1>1. /\ saved' = saved /\ created' = created /\ writes' = writes /\ writing' = writing
      /\ UNCHANGED storage /\ (Trouble \/ UNCHANGED bounds)
  BY DEF AskToAdd, AskToRemove, AskToDelete, Ask, Dismiss, ReadForStay, DialogFails, DialogDone
<1>2. ASSUME ViewOK(tab'[t], saved, writes), DialogOK(dialog'[t], saved, writes)
      PROVE  TripInv'
  <2>1. BoundsOK'
    BY <1>0, <1>1, BoundsKept DEF storage, BoundsOK
  <2> QED
    BY <1>0, <1>1, <1>2, <2>1, OnPages
<1>3. ASSUME NEW does \in {"add", "remove", "delete"}, NEW id \in Trips, NEW what,
             does = "add" => what \in Hotels, Ask(t, does, id, what)
      PROVE  TripInv'
  <2>1. /\ dialog'[t] = [Closed EXCEPT !.leg = "asking", !.does = does, !.trip = id, !.what = what]
        /\ tab' = tab
    BY <1>0, <1>3 DEF Ask
  <2>2. DialogOK(dialog'[t], saved, writes)
    BY <1>0, <1>3, <2>1 DEF DialogOK, DialogRecords, Closed
  <2> QED
    BY <1>0, <1>2, <2>1, <2>2
<1>4. ASSUME NEW h \in Hotels, AskToAdd(t, h)
      PROVE  TripInv'
  <2>1. tab[t].card \in Trips /\ Ask(t, "add", tab[t].card, h)
    BY <1>0, <1>4 DEF AskToAdd, ViewRecords
  <2> QED
    BY <1>3, <2>1
<1>5. CASE AskToRemove(t)
  <2>1. tab[t].trip \in Trips /\ Ask(t, "remove", tab[t].trip, tab[t].stay)
    BY <1>0, <1>5 DEF AskToRemove, ViewOK
  <2> QED
    BY <1>3, <2>1
<1>6. ASSUME NEW id \in 1..created, AskToDelete(t, id)
      PROVE  TripInv'
  <2>1. id \in Trips /\ Ask(t, "delete", id, None)
    BY <1>0, <1>6, TripAssumption DEF AskToDelete, Trips
  <2> QED
    BY <1>3, <2>1
<1>7. CASE Dismiss(t)
  <2>1. dialog'[t] = Closed /\ tab' = tab
    BY <1>0, <1>7 DEF Dismiss
  <2> QED
    BY <1>0, <1>2, <2>1, FirstPage
<1>8. CASE ReadForStay(t)
  <2> DEFINE id == dialog[t].trip
  <2>1. /\ dialog'[t] = [dialog[t] EXCEPT !.leg = "read", !.read = saved[id].version,
                           !.day = saved[id].day, !.stays = saved[id].stays,
                           !.dragged = saved[id].dragged]
        /\ tab' = tab /\ dialog[t].leg = "asking" /\ dialog[t].does = "add"
        /\ saved[id] # None
    BY <1>0, <1>8 DEF ReadForStay
  <2>2. id \in Trips /\ dialog[t].what \in Hotels
    BY <1>0, <2>1 DEF DialogOK
  <2>3. /\ saved[id].stays \in SUBSET Stays /\ saved[id].version \in 0..writes
        /\ saved[id].dragged \in BOOLEAN
    BY <2>1, <2>2, TripAssumption DEF TripInv, TableOK, TripRecords
  <2>4. KeptBy(saved, id, saved[id].stays, saved[id].version)
    BY DEF KeptBy
  <2>5. DialogOK(dialog'[t], saved, writes)
    BY <1>0, <2>1, <2>2, <2>3, <2>4 DEF DialogOK, DialogRecords
  <2> QED
    BY <1>0, <1>2, <2>1, <2>5
<1>9. CASE DialogFails(t)
  <2>1. /\ dialog'[t] = [dialog[t] EXCEPT !.leg = "asking"] /\ tab' = tab
        /\ dialog[t].leg \in {"read", "served"}
    BY <1>0, <1>9 DEF DialogFails
  <2>2. DialogOK(dialog'[t], saved, writes)
    BY <1>0, <2>1 DEF DialogOK, DialogRecords
  <2> QED
    BY <1>0, <1>2, <2>1, <2>2
<1>10. CASE DialogDone(t)
  <2>1. /\ dialog'[t] = Closed /\ dialog[t].leg = "served"
        /\ tab'[t] = Empty \/ tab'[t] = [Empty EXCEPT !.view = "loading", !.trip = dialog[t].trip]
    BY <1>0, <1>10 DEF DialogDone
  <2>2. dialog[t].trip \in Trips
    BY <1>0, <2>1 DEF DialogOK
  <2>3. ViewOK(tab'[t], saved, writes)
    <3>1. CASE tab'[t] = Empty
      BY <3>1, FirstPage
    <3>2. CASE tab'[t] = [Empty EXCEPT !.view = "loading", !.trip = dialog[t].trip]
      <4>1. tab'[t] \in FreshRecords(tab'[t]) /\ tab'[t].view = "loading" /\ tab'[t].trip \in Trips
        BY <2>2, <3>2 DEF Empty, FreshRecords, Views
      <4> QED
        BY <4>1, FreshPage
    <3> QED
      BY <2>1, <3>1, <3>2
  <2> QED
    BY <1>2, <2>1, <2>3, FirstPage
<1> QED
  BY <1>4, <1>5, <1>6, <1>7, <1>8, <1>9, <1>10

(* The rows that a write makes are new, and name the stays as before.      *)
LEMMA InsertedRows ==
  ASSUME NEW stays \in SUBSET Stays, NEW n \in 0..MaxWrites
  PROVE  /\ Inserted(stays, n) \subseteq Stays
         /\ \A s \in Inserted(stays, n) : s.row = n
         /\ \A s \in stays : \E z \in Inserted(stays, n) : z.added = s.added
<1>1. ASSUME NEW s \in stays
      PROVE  /\ [s EXCEPT !.row = n] \in Stays
             /\ [s EXCEPT !.row = n].row = n /\ [s EXCEPT !.row = n].added = s.added
  BY DEF Stays
<1> QED
  BY <1>1 DEF Inserted

(* Writing an aggregate, of a trip that is there or of the next one.       *)
LEMMA WriteTable ==
  ASSUME TripInv, NEW id \in Trips, NEW c \in 0..MaxTrips, c = created \/ c = created + 1, id <= c,
         NEW day, NEW stays \in SUBSET Stays, NEW dragged \in BOOLEAN,
         Write(id, day, stays, dragged)
  PROVE  /\ TableOK(saved', c, writes') /\ Evolved(saved, saved', writes, writes')
         /\ writes' \in Nat /\ 0 \in 0..writes' /\ writes <= writes'
         /\ saved'[id].stays = Inserted(stays, writes + 1)
         /\ \A o \in Trips \ {id} : saved'[o] = saved[o]
<1> DEFINE new == [day |-> day, stays |-> Inserted(stays, writes + 1), version |-> writes + 1,
                   dragged |-> dragged]
<1>1. writes' = writes + 1 /\ writes \in Nat /\ writes' \in 0..MaxWrites /\ writes < MaxWrites
      /\ created \in 0..MaxTrips /\ DOMAIN saved = Trips
  BY TripAssumption DEF Write, TripInv, TableOK
<1>2. /\ DOMAIN saved' = Trips /\ saved'[id] = new
      /\ \A o \in Trips \ {id} : saved'[o] = saved[o]
  BY <1>1 DEF Write
<1>3. new.stays \subseteq Stays /\ (\A s \in new.stays : s.row = writes')
  BY <1>1, InsertedRows
<1>4. new \in TripRecords(new, writes')
  BY <1>1, <1>3 DEF TripRecords
<1>5. ASSUME NEW o \in Trips
      PROVE  /\ saved'[o] # None => saved'[o] \in TripRecords(saved'[o], writes')
             /\ o > c => saved'[o] = None
  <2>1. CASE o = id
    BY <1>2, <1>4, <2>1 DEF Trips
  <2>2. CASE o # id
    <3>1. saved'[o] = saved[o]
      BY <1>2, <2>2
    <3>2. o > c => saved'[o] = None
      BY <1>1, <3>1 DEF TripInv, TableOK, Trips
    <3>3. ASSUME saved[o] # None
          PROVE  saved[o] \in TripRecords(saved[o], writes')
      <4>1. saved[o] \in TripRecords(saved[o], writes)
        BY <3>3 DEF TripInv, TableOK
      <4> QED
        BY <1>1, <4>1 DEF TripRecords
    <3> QED
      BY <3>1, <3>2, <3>3
  <2> QED
    BY <2>1, <2>2
<1>6. TableOK(saved', c, writes')
  BY <1>1, <1>2, <1>5 DEF TableOK
<1>7. Evolved(saved, saved', writes, writes')
  <2>1. ASSUME NEW o \in Trips, saved'[o] # None
        PROVE  \/ saved[o] # None /\ saved'[o].stays \subseteq saved[o].stays
               \/ \A s \in saved'[o].stays : s.row \in Nat /\ s.row > writes
    <3>1. CASE o = id
      BY <1>1, <1>2, <1>3, <3>1
    <3>2. CASE o # id
      BY <1>2, <2>1, <3>2
    <3> QED
      BY <3>1, <3>2
  <2> QED
    BY <1>1, <2>1 DEF Evolved
<1> QED
  BY <1>1, <1>2, <1>6, <1>7

(* Rows that go, and trips that go.                                        *)
LEMMA FewerRows ==
  ASSUME TripInv, DOMAIN saved' = Trips, created' = created, writes' = writes,
         \A o \in Trips : \/ saved'[o] = saved[o] \/ saved'[o] = None
                         \/ /\ saved[o] # None
                            /\ saved'[o] \in TripRecords(saved'[o], writes)
                            /\ saved'[o].stays \subseteq saved[o].stays
  PROVE  TableOK(saved', created', writes') /\ Evolved(saved, saved', writes, writes')
<1>1. TableOK(saved, created, writes) /\ writes \in Nat
  BY TripAssumption DEF TripInv, TableOK
<1>2. ASSUME NEW o \in Trips
      PROVE  /\ saved'[o] # None => saved'[o] \in TripRecords(saved'[o], writes)
             /\ o > created => saved'[o] = None
             /\ saved'[o] # None => saved[o] # None /\ saved'[o].stays \subseteq saved[o].stays
  BY <1>1 DEF TableOK
<1> QED
  BY <1>1, <1>2 DEF TableOK, Evolved

(* What is left of a request that has been served.                         *)
Over(x, w) ==
  x = Silent \/ \E leg \in {"idle", "served", "failed"} : x = [w EXCEPT !.leg = leg]

(* Serving a save or an update, adding and removing a stay, deleting.      *)
LEMMA WriteServedKeeps ==
  ASSUME TripInv, NEW t \in Tabs, Alone(t), WriteServed(t)
  PROVE  TripInv'
<1> DEFINE w == writing[t]
<1>0. /\ t \in DOMAIN writing /\ BoundsOK
      /\ ViewOK(tab[t], saved, writes) /\ CallOK(w, saved, writes)
      /\ w \in CallRecords(w, writes) /\ DialogOK(dialog[t], saved, writes)
      /\ created \in 0..MaxTrips /\ 0 \in 0..writes /\ writes \in 0..MaxWrites
  BY TabFacts
<1>1. tab' = tab /\ dialog' = dialog /\ BoundsOK'
  BY <1>0, BoundsKept DEF WriteServed, storage, BoundsOK
<1>2. w.trip \in {None} \cup Trips /\ w.stays \in SUBSET Stays
  BY <1>0 DEF CallRecords
<1>3. ASSUME NEW n \in Nat, 0 \in 0..n, writes <= n,
             Over(writing'[t], w)
      PROVE  CallOK(writing'[t], saved', n)
  <2>1. CASE writing'[t] = Silent
    BY <1>3, <2>1 DEF Silent, CallOK, CallRecords
  <2>2. ASSUME NEW leg \in {"idle", "served", "failed"}, writing'[t] = [w EXCEPT !.leg = leg]
        PROVE  CallOK(writing'[t], saved', n)
    <3>1. 0..writes \subseteq 0..n
      BY <1>0, <1>3
    <3> QED
      BY <1>0, <2>2, <3>1 DEF CallOK, CallRecords
  <2> QED
    BY <1>3, <2>1, <2>2 DEF Over
<1>4. ASSUME TableOK(saved', created', writes'), Evolved(saved, saved', writes, writes'),
             writes' \in Nat, 0 \in 0..writes', writes <= writes',
             Over(writing'[t], w)
      PROVE  TripInv'
  <2>1. CallOK(writing'[t], saved', writes')
    BY <1>3, <1>4
  <2>2. ViewOK(tab'[t], saved', writes') /\ DialogOK(dialog'[t], saved', writes')
    BY <1>0, <1>1, <1>4, ViewLasts, DialogLasts
  <2> QED
    BY <1>1, <1>4, <2>1, <2>2, OneTab
<1> DEFINE answered == [writing EXCEPT ![t] = IF w.leg = "left" THEN Silent
                                              ELSE [w EXCEPT !.leg = "served"]]
<1>5. ASSUME writing' = answered
      PROVE  Over(writing'[t], w)
  BY <1>0, <1>5 DEF Over
<1>6. CASE /\ created < MaxTrips /\ created' = created + 1
           /\ Write(created + 1, w.day, w.stays, FALSE) /\ writing' = answered
  <2>1. /\ created + 1 \in Trips /\ created + 1 \in 0..MaxTrips /\ created + 1 <= created + 1
        /\ FALSE \in BOOLEAN
    BY <1>0, <1>6, TripAssumption DEF Trips
  <2>2. /\ TableOK(saved', created + 1, writes') /\ Evolved(saved, saved', writes, writes')
        /\ writes' \in Nat /\ 0 \in 0..writes' /\ writes <= writes'
    BY <1>0, <1>2, <1>6, <2>1, WriteTable
  <2> QED
    BY <1>4, <1>5, <1>6, <2>2
<1>7. CASE /\ w.trip # None /\ saved[w.trip] # None
           /\ Write(w.trip, w.day, w.stays, TRUE) /\ created' = created /\ writing' = answered
  <2>1. w.trip \in Trips /\ w.trip <= created
    BY <1>0, <1>2, <1>7 DEF TripInv, TableOK, Trips
  <2>2. /\ TableOK(saved', created, writes') /\ Evolved(saved, saved', writes, writes')
        /\ writes' \in Nat /\ 0 \in 0..writes' /\ writes <= writes'
    BY <1>0, <1>2, <1>7, <2>1, WriteTable
  <2> QED
    BY <1>4, <1>5, <1>7, <2>2
<1>8. CASE /\ writing' = [answered EXCEPT ![t].leg = IF w.leg = "left" THEN "idle" ELSE "failed"]
           /\ UNCHANGED <<saved, created, writes>>
  <2>1. Over(writing'[t], w)
    <3>1. CASE w.leg = "left"
      <4>1. writing'[t] = [Silent EXCEPT !.leg = "idle"]
        BY <1>0, <1>8, <3>1
      <4> QED
        BY <4>1 DEF Silent, Over
    <3>2. CASE w.leg # "left"
      <4>1. writing'[t] = [[w EXCEPT !.leg = "served"] EXCEPT !.leg = "failed"]
        BY <1>0, <1>8, <3>2
      <4>2. writing'[t] = [w EXCEPT !.leg = "failed"]
        BY <1>0, <4>1 DEF CallRecords
      <4> QED
        BY <4>2 DEF Over
    <3> QED
      BY <3>1, <3>2
  <2>2. /\ TableOK(saved', created', writes') /\ Evolved(saved, saved', writes, writes')
        /\ writes' \in Nat /\ 0 \in 0..writes' /\ writes <= writes'
    BY <1>0, <1>8, TripAssumption DEF TripInv, TableOK, Evolved, TripRecords
  <2> QED
    BY <1>4, <2>1, <2>2
<1> QED
  BY <1>6, <1>7, <1>8 DEF WriteServed

(* The change that a dialog makes.                                         *)
LEMMA ChangeKeeps ==
  ASSUME TripInv, NEW t \in Tabs, Alone(t), AddStay(t) \/ RemoveStay(t) \/ DeleteTrip(t)
  PROVE  TripInv'
<1> DEFINE d == dialog[t]
<1>0. /\ t \in DOMAIN dialog /\ BoundsOK
      /\ ViewOK(tab[t], saved, writes) /\ CallOK(writing[t], saved, writes)
      /\ DialogOK(d, saved, writes) /\ d \in DialogRecords(d, writes)
      /\ created \in 0..MaxTrips /\ 0 \in 0..writes /\ writes \in 0..MaxWrites
  BY TabFacts
<1>1. /\ tab' = tab /\ writing' = writing /\ created' = created /\ BoundsOK'
      /\ \/ dialog'[t] = [d EXCEPT !.leg = "served"]
         \/ dialog'[t] = [d EXCEPT !.leg = "asking"]
      /\ d.leg # "closed"
  BY <1>0, BoundsKept DEF AddStay, RemoveStay, DeleteTrip, storage, BoundsOK
<1>2. d.trip \in Trips /\ DOMAIN saved = Trips
  BY <1>0, <1>1 DEF DialogOK, TripInv, TableOK
<1>3. ASSUME TableOK(saved', created', writes'), Evolved(saved, saved', writes, writes')
      PROVE  TripInv'
  <2>1. DialogOK(dialog'[t], saved, writes)
    BY <1>0, <1>1 DEF DialogOK, DialogRecords
  <2>2. /\ ViewOK(tab'[t], saved', writes') /\ CallOK(writing'[t], saved', writes')
        /\ DialogOK(dialog'[t], saved', writes')
    BY <1>0, <1>1, <1>3, <2>1, ViewLasts, CallLasts, DialogLasts
  <2> QED
    BY <1>1, <1>3, <2>2, OneTab
<1>4. CASE AddStay(t)
  <2>1. CASE saved[d.trip] # None
    <3> DEFINE stays == WithStay(d.stays, d.what, writes + 1)
    <3>1. Write(d.trip, d.day, stays, d.dragged) /\ d.leg = "read"
      BY <1>4, <2>1 DEF AddStay
    <3>2. d.trip <= created
      BY <1>0, <1>2, <2>1 DEF TripInv, TableOK, Trips
    <3>3. writes + 1 \in 0..MaxWrites /\ 0 \in 0..MaxWrites
      BY <1>0, <3>1, TripAssumption DEF Write
    <3>4. d.what \in Hotels /\ d.stays \subseteq Stays /\ d.dragged \in BOOLEAN
      BY <1>0, <3>1 DEF DialogOK, DialogRecords
    <3>5. stays \in SUBSET Stays
      BY <3>3, <3>4 DEF WithStay, Stays
    <3> HIDE DEF stays
    <3> QED
      BY <1>0, <1>1, <1>2, <1>3, <3>1, <3>2, <3>4, <3>5, WriteTable
  <2>2. CASE saved[d.trip] = None
    <3>1. UNCHANGED <<saved, writes>>
      BY <1>4, <2>2 DEF AddStay
    <3> QED
      BY <1>1, <1>2, <1>3, <3>1, FewerRows
  <2> QED
    BY <2>1, <2>2
<1>5. CASE RemoveStay(t)
  <2>1. PICK id \in Trips : /\ saved[id] # None
                            /\ \E s \in saved[id].stays :
                                 saved' = [saved EXCEPT ![id].stays = @ \ {s}]
    BY <1>5 DEF RemoveStay
  <2>2. PICK s \in saved[id].stays : saved' = [saved EXCEPT ![id].stays = @ \ {s}]
    BY <2>1
  <2>6. writes' = writes
    BY <1>5 DEF RemoveStay
  <2>3. /\ DOMAIN saved' = Trips /\ saved'[id] = [saved[id] EXCEPT !.stays = @ \ {s}]
        /\ \A o \in Trips \ {id} : saved'[o] = saved[o]
    BY <1>2, <2>2
  <2>4. saved[id] \in TripRecords(saved[id], writes)
    BY <2>1 DEF TripInv, TableOK
  <2>5. saved'[id] \in TripRecords(saved'[id], writes) /\ saved'[id].stays \subseteq saved[id].stays
    BY <2>3, <2>4 DEF TripRecords
  <2> QED
    BY <1>1, <1>3, <2>1, <2>3, <2>5, <2>6, FewerRows
<1>6. CASE DeleteTrip(t)
  <2>1. /\ DOMAIN saved' = Trips /\ writes' = writes
        /\ \A o \in Trips : saved'[o] = saved[o] \/ saved'[o] = None
    BY <1>2, <1>6 DEF DeleteTrip
  <2> QED
    BY <1>1, <1>3, <2>1, FewerRows
<1> QED
  BY <1>4, <1>5, <1>6

(* Every step keeps the invariant.                                         *)
LEMMA TripsKept == TripInv /\ [\E t \in Tabs : TripStep(t)]_tripVars => TripInv'
<1>1. ASSUME TripInv, NEW t \in Tabs, TripStep(t)
      PROVE  TripInv'
  <2>1. Alone(t)
    BY <1>1, StepsAreAlone
  <2>2. CASE \/ \E p \in Plans : OpenPlan(t, p)
             \/ \E id \in 1..created : OpenTrip(t, id)
             \/ GoToHotels(t)
             \/ \E s \in tab[t].stays : GoToStay(t, s)
             \/ \E s \in shown : ReloadStay(t, s)
    BY <1>1, <2>1, <2>2, OpenKeeps
  <2>3. CASE \/ TripLoaded(t) \/ LoadFails(t) \/ SuggestionRead(t) \/ CardsRendered(t)
             \/ \E i, k \in DOMAIN tab[t].day : Drag(t, i, k)
    BY <1>1, <2>1, <2>3, ReadKeeps
  <2>4. CASE SendWrite(t) \/ WriteFails(t) \/ WriteArrives(t)
    BY <1>1, <2>1, <2>4, CallKeeps
  <2>5. CASE WriteServed(t)
    BY <1>1, <2>1, <2>5, WriteServedKeeps
  <2>6. CASE Dialogs(t)
    <3>1. CASE \/ \E h \in Hotels : AskToAdd(t, h)
               \/ AskToRemove(t)
               \/ \E id \in 1..created : AskToDelete(t, id)
               \/ Dismiss(t) \/ ReadForStay(t) \/ DialogFails(t) \/ DialogDone(t)
      BY <1>1, <2>1, <3>1, DialogKeeps
    <3>2. CASE AddStay(t) \/ RemoveStay(t) \/ DeleteTrip(t)
      BY <1>1, <2>1, <3>2, ChangeKeeps
    <3> QED
      BY <2>6, <3>1, <3>2 DEF Dialogs
  <2> QED
    BY <1>1, <2>2, <2>3, <2>4, <2>5, <2>6 DEF TripStep
<1>2. ASSUME TripInv, UNCHANGED tripVars
      PROVE  TripInv'
  BY <1>2 DEF tripVars, storage, bounds, TripInv, TableOK, BoundsOK, TabsOK, TripRecords, ViewOK, CallOK,
     DialogOK, ViewRecords, CallRecords, DialogRecords, KeptBy
<1> QED
  BY <1>1, <1>2

(* The tables and the tabs keep their types, however many pages write back *)
(* what they had read.                                                     *)
THEOREM TripTypeSafety == TripSpec => []TripTypeOK
<1>1. TripInv => TripTypeOK
  <2> SUFFICES ASSUME TripInv PROVE TripTypeOK
    OBVIOUS
  <2>1. /\ created \in 0..MaxTrips /\ writes \in 0..MaxWrites /\ BoundsOK
        /\ \A id \in Trips : saved[id] # None => saved[id] \in TripRecords(saved[id], writes)
    BY DEF TripInv, TableOK
  <2>2. ASSUME NEW id \in Trips, saved[id] # None
        PROVE  saved[id].stays \subseteq Stays /\ saved[id].version \in 1..MaxWrites
    BY <2>1, <2>2, TripAssumption DEF TripRecords
  <2>3. ASSUME NEW t \in Tabs
        PROVE  /\ tab[t].view \in Views /\ tab[t].stays \subseteq Stays
               /\ tab[t].card \in {None} \cup Trips
               /\ writing[t].leg \in {"idle", "sent", "served", "failed", "left"}
               /\ dialog[t].leg \in {"closed", "asking", "reading", "read", "served"}
    BY TabFacts DEF ViewRecords, CallRecords, DialogRecords
  <2> QED
    BY <2>1, <2>2, <2>3 DEF TripTypeOK, BoundsOK
<1> QED
  BY <1>1, TripsStart, TripsKept, PTL DEF TripSpec

(* Whoever has read these stays, when the trip was at this version, has    *)
(* not seen s.                                                             *)
Missed(stays, read, s) == read < s.row /\ \A z \in stays : z.added # s.added

(* A write costs a stay of its own trip only, and none that the writer has *)
(* seen.                                                                   *)
LEMMA WriteLoses ==
  ASSUME TripInv, NEW trip \in Trips, NEW day, NEW stays \in SUBSET Stays, NEW dragged,
         NEW read \in Nat, Write(trip, day, stays, dragged), KeptBy(saved, trip, stays, read)
  PROVE  \A id \in Trips : saved[id] # None =>
           \A s \in saved[id].stays :
             \/ \E z \in saved'[id].stays : z.added = s.added
             \/ id = trip /\ Missed(stays, read, s)
<1> SUFFICES ASSUME NEW id \in Trips, saved[id] # None, NEW s \in saved[id].stays,
                    ~ \E z \in saved'[id].stays : z.added = s.added
             PROVE  id = trip /\ Missed(stays, read, s)
  OBVIOUS
<1>1. /\ writes \in Nat /\ writes + 1 \in 0..MaxWrites /\ DOMAIN saved = Trips
      /\ saved[id] \in TripRecords(saved[id], writes)
  BY TripAssumption DEF Write, TripInv, TableOK
<1>2. /\ saved'[trip].stays = Inserted(stays, writes + 1)
      /\ \A o \in Trips \ {trip} : saved'[o] = saved[o]
  BY <1>1 DEF Write
<1>3. id = trip
  BY <1>2
<1>4. \A x \in stays : \E z \in saved'[id].stays : z.added = x.added
  BY <1>1, <1>2, <1>3, InsertedRows
<1>5. ~(s.row <= read)
  BY <1>3, <1>4 DEF KeptBy
<1>6. s.row \in Nat
  BY <1>1, TripAssumption DEF TripRecords, Stays
<1> QED
  BY <1>3, <1>4, <1>5, <1>6 DEF Missed

(* Who may cost trip id the stay s.                                        *)
Costs(t, id, s) ==
  \/ dialog[t].leg = "asking" /\ dialog[t].does = "remove"
     /\ dialog[t].what.row = s.row /\ dialog[t].what.added = s.added
     /\ dialog'[t].leg = "served"
  \/ dialog[t].leg = "read" /\ dialog[t].trip = id
     /\ dialog'[t].leg = "served" /\ Unseen(dialog[t], s)
  \/ writing[t].leg \in {"sent", "left"} /\ writing[t].trip = id
     /\ writing'[t].leg # writing[t].leg /\ Unseen(writing[t], s)

(* A stay that is gone after a step is the one whose removal was confirmed *)
(* or one that the writer has not seen.                                    *)
LEMMA StepLoses ==
  ASSUME TripInv, NEW t \in Tabs, TripStep(t),
         NEW id \in Trips, saved[id] # None, saved'[id] # None, NEW s \in saved[id].stays,
         ~ \E z \in saved'[id].stays : z.added = s.added
  PROVE  Costs(t, id, s)
<1> DEFINE w == writing[t]
           d == dialog[t]
<1>0. /\ t \in DOMAIN writing /\ t \in DOMAIN dialog /\ CallOK(w, saved, writes)
      /\ w \in CallRecords(w, writes) /\ DialogOK(d, saved, writes)
      /\ d \in DialogRecords(d, writes) /\ created \in 0..MaxTrips
      /\ writes \in 0..MaxWrites /\ 0 \in 0..writes
  BY TabFacts
<1>1. saved' # saved
  OBVIOUS
<1>2. id <= created /\ DOMAIN saved = Trips
  BY <1>0 DEF TripInv, TableOK, Trips
<1>3. CASE WriteServed(t)
  <2>1. /\ w.leg \in {"sent", "left"}
        /\ w.stays \in SUBSET Stays /\ w.read \in Nat /\ w.trip \in {None} \cup Trips
    BY <1>0, <1>3, TripAssumption DEF WriteServed, CallRecords
  <2>2. CASE Write(created + 1, w.day, w.stays, FALSE)
    <3>1. saved'[id] = saved[id]
      BY <1>0, <1>2, <2>2 DEF Write
    <3> QED
      BY <3>1
  <2>3. CASE /\ w.trip # None /\ Write(w.trip, w.day, w.stays, TRUE)
             /\ writing' = [writing EXCEPT ![t] = IF w.leg = "left" THEN Silent
                                                 ELSE [w EXCEPT !.leg = "served"]]
    <3>1. KeptBy(saved, w.trip, w.stays, w.read) /\ w.trip \in Trips
      BY <1>0, <2>1, <2>3 DEF CallOK
    <3>2. id = w.trip /\ Missed(w.stays, w.read, s)
      <4> DEFINE dragged == TRUE
      <4>1. /\ Write(w.trip, w.day, w.stays, dragged) /\ KeptBy(saved, w.trip, w.stays, w.read)
            /\ w.trip \in Trips /\ w.stays \in SUBSET Stays /\ w.read \in Nat
        BY <2>1, <2>3, <3>1
      <4> HIDE DEF w, dragged
      <4>2. \A o \in Trips : saved[o] # None =>
              \A x \in saved[o].stays :
                \/ \E z \in saved'[o].stays : z.added = x.added
                \/ o = w.trip /\ Missed(w.stays, w.read, x)
        BY <4>1, WriteLoses
      <4> QED
        BY <4>2
    <3>3. writing'[t].leg \in {"idle", "served"}
      BY <1>0, <2>3 DEF CallRecords, Silent
    <3> QED
      BY <2>1, <3>2, <3>3 DEF Costs, Unseen, Missed
  <2> QED
    BY <1>1, <1>3, <2>2, <2>3 DEF WriteServed
<1>4. CASE AddStay(t)
  <2> DEFINE stays == WithStay(d.stays, d.what, writes + 1)
  <2>1. Write(d.trip, d.day, stays, d.dragged) /\ dialog' = [dialog EXCEPT ![t].leg = "served"]
    BY <1>1, <1>4 DEF AddStay
  <2>2. /\ d.leg = "read" /\ d.trip \in Trips /\ d.what \in Hotels
        /\ KeptBy(saved, d.trip, d.stays, d.read)
    BY <1>0, <1>4 DEF AddStay, DialogOK
  <2>3. writes + 1 \in 0..MaxWrites /\ 0 \in 0..MaxWrites
    BY <1>0, <2>1, TripAssumption DEF Write
  <2>4. d.stays \in SUBSET Stays /\ d.read \in Nat
    BY <1>0, TripAssumption DEF DialogRecords
  <2>5. stays \in SUBSET Stays
    BY <2>2, <2>3, <2>4 DEF WithStay, Stays
  <2>6. KeptBy(saved, d.trip, stays, d.read)
    BY <2>2 DEF KeptBy, WithStay
  <2>7. dialog'[t].leg = "served"
    BY <1>0, <2>1 DEF DialogRecords
  <2> HIDE DEF stays
  <2>9. d.stays \subseteq stays
    BY DEF stays, WithStay
  <2>8. id = d.trip /\ Missed(stays, d.read, s)
    <3> HIDE DEF d
    <3>1. \A o \in Trips : saved[o] # None =>
            \A x \in saved[o].stays :
              \/ \E z \in saved'[o].stays : z.added = x.added
              \/ o = d.trip /\ Missed(stays, d.read, x)
      BY <2>1, <2>2, <2>4, <2>5, <2>6, WriteLoses
    <3> QED
      BY <3>1
  <2> QED
    BY <2>2, <2>7, <2>8, <2>9 DEF Costs, Unseen, Missed
<1>5. CASE RemoveStay(t)
  <2>1. PICK o \in Trips : \E x \in saved[o].stays :
          /\ x.row = d.what.row /\ x.added = d.what.added
          /\ saved' = [saved EXCEPT ![o].stays = @ \ {x}]
    BY <1>5 DEF RemoveStay
  <2>2. PICK x \in saved[o].stays :
          /\ x.row = d.what.row /\ x.added = d.what.added
          /\ saved' = [saved EXCEPT ![o].stays = @ \ {x}]
    BY <2>1
  <2>3. d.leg = "asking" /\ d.does = "remove" /\ dialog'[t].leg = "served"
    BY <1>0, <1>5 DEF RemoveStay, DialogRecords
  <2>4. id = o
    BY <1>2, <2>2
  <2>5. saved[id] \in TripRecords(saved[id], writes)
    BY DEF TripInv, TableOK
  <2>6. saved'[id].stays = saved[id].stays \ {x}
    BY <1>2, <2>2, <2>4, <2>5 DEF TripRecords
  <2>7. s = x
    BY <2>6
  <2> QED
    BY <2>2, <2>3, <2>7 DEF Costs
<1>6. CASE DeleteTrip(t)
  <2>1. saved'[id] = None \/ saved'[id] = saved[id]
    BY <1>2, <1>6 DEF DeleteTrip
  <2> QED
    BY <2>1
<1>7. CASE ~(WriteServed(t) \/ AddStay(t) \/ RemoveStay(t) \/ DeleteTrip(t))
  BY <1>1, <1>7 DEF TripStep, Dialogs, OpenPlan, OpenTrip, TripLoaded, LoadFails, Drag, SendWrite,
     WriteFails, WriteArrives, GoToHotels, SuggestionRead, CardsRendered, GoToStay,
     ReloadStay, AskToAdd, AskToRemove, AskToDelete, Ask, Dismiss, ReadForStay, DialogFails, DialogDone
<1> QED
  BY <1>3, <1>4, <1>5, <1>6, <1>7

(* A stay goes only when its own removal was confirmed, or under a write   *)
(* of somebody who has not seen it.                                        *)
THEOREM StaysStay == TripSpec => StaysAreKept
<1>1. ASSUME TripInv, [\E t \in Tabs : TripStep(t)]_tripVars
      PROVE  [\A id \in Trips :
                saved[id] # None /\ saved'[id] # None =>
                  \A s \in saved[id].stays :
                    \/ \E z \in saved'[id].stays : z.added = s.added
                    \/ \E t \in Tabs :
                         \/ dialog[t].leg = "asking" /\ dialog[t].does = "remove"
                            /\ dialog[t].what.row = s.row /\ dialog[t].what.added = s.added
                            /\ dialog'[t].leg = "served"
                         \/ dialog[t].leg = "read" /\ dialog[t].trip = id
                            /\ dialog'[t].leg = "served" /\ Unseen(dialog[t], s)
                         \/ writing[t].leg \in {"sent", "left"} /\ writing[t].trip = id
                            /\ writing'[t].leg # writing[t].leg
                            /\ Unseen(writing[t], s)]_tripVars
  BY <1>1, StepLoses DEF Costs
<1> QED
  BY <1>1, TripsStart, TripsKept, PTL DEF TripSpec, StaysAreKept

-----------------------------------------------------------------------------
(* The activities of a saved trip: a day stays a day of the plan, whatever *)
(* is dragged in it, and the page shows it in the order of its times.      *)

(* The activities of a list, and a list of all those of a plan.            *)
Acts(day)  == {day[i].act : i \in DOMAIN day}
IsDay(day) ==
  day \in Seq(Activities) /\ \E p \in Plans : Len(day) = Len(p) /\ Acts(day) = Acts(p)

(* No activity starts before the one above it.                             *)
InTime(day) == \A i, j \in DOMAIN day : i < j => day[i].at <= day[j].at

(* The order of the places when the activities are sorted by their time.   *)
LEMMA TimesOrder ==
  ASSUME NEW day \in Seq(Activities), NEW R,
         \A i, j \in DOMAIN day :
           <<i, j>> \in R <=> day[i].at < day[j].at \/ (i < j /\ ~(day[j].at < day[i].at))
  PROVE  IsOrder(R, DOMAIN day)
<1> DEFINE I == DOMAIN day
           at(i) == day[i].at
<1>1. \A i \in I : i \in Nat /\ at(i) \in Nat
  <2>1. \A i \in I : i \in Nat /\ day[i] \in Activities
    OBVIOUS
  <2> QED
    BY <2>1 DEF Activities
<1>2. \A i, j \in I : <<i, j>> \in R <=> at(i) < at(j) \/ (i < j /\ ~(at(j) < at(i)))
  OBVIOUS
<1> HIDE DEF I, at
<1>3. IsOrder(R, I)
  BY <1>1, <1>2 DEF IsOrder
<1> QED
  BY <1>3 DEF I

(* The sort by time keeps the activities, and nothing happens to a list    *)
(* that is in order.                                                       *)
LEMMA ByTimeSorts ==
  ASSUME NEW day \in Seq(Activities)
  PROVE  /\ ByTime(day) \in Seq(Activities) /\ Len(ByTime(day)) = Len(day)
         /\ Acts(ByTime(day)) = Acts(day)
         /\ InTime(ByTime(day))
         /\ InTime(day) => ByTime(day) = day
<1> DEFINE I == DOMAIN day
           R == {p \in Pairs(day) : \/ day[p[1]].at < day[p[2]].at
                                    \/ p[1] < p[2] /\ ~(day[p[2]].at < day[p[1]].at)}
           r == ByTime(day)
<1>1. r = Arranged(day, I, R)
  BY DEF ByTime, StableSort
<1>2. \A i, j \in I :
        <<i, j>> \in R <=> day[i].at < day[j].at \/ (i < j /\ ~(day[j].at < day[i].at))
  BY DEF Pairs
<1>3. \A i \in I : i \in Nat /\ day[i] \in Activities /\ day[i].at \in Nat
  <2>1. \A i \in I : i \in Nat /\ day[i] \in Activities
    OBVIOUS
  <2> QED
    BY <2>1 DEF Activities
<1> HIDE DEF R
<1>4. IsOrder(R, I)
  BY <1>2, TimesOrder
<1>5. r \in Seq(Activities) /\ Arranges(r, day, I, R)
  BY <1>1, <1>4, Arrangement
<1>10. Len(r) = Len(day)
  BY <1>1, ArrangedLen
<1> HIDE DEF r
<1>6. PICK at \in [DOMAIN r -> I] :
        /\ \A k \in DOMAIN r : r[k] = day[at[k]]
        /\ \A i \in I : \E k \in DOMAIN r : at[k] = i
        /\ \A k, l \in DOMAIN r : k < l => <<at[k], at[l]>> \in R
  BY <1>5 DEF Arranges
<1>7. Acts(r) = Acts(day)
  <2>1. ASSUME NEW k \in DOMAIN r PROVE \E i \in I : r[k].act = day[i].act
    BY <1>6
  <2>2. ASSUME NEW i \in I PROVE \E k \in DOMAIN r : r[k].act = day[i].act
    BY <1>6
  <2>3. Acts(r) \subseteq Acts(day)
    BY <2>1 DEF Acts
  <2>4. Acts(day) \subseteq Acts(r)
    BY <2>2 DEF Acts
  <2> QED
    BY <2>3, <2>4
<1>8. InTime(r)
  <2>1. ASSUME NEW k \in DOMAIN r, NEW l \in DOMAIN r, k < l PROVE r[k].at <= r[l].at
    <3>1. /\ at[k] \in I /\ at[l] \in I /\ <<at[k], at[l]>> \in R
          /\ r[k] = day[at[k]] /\ r[l] = day[at[l]]
      BY <1>6, <2>1
    <3> QED
      BY <1>2, <1>3, <3>1
  <2> QED
    BY <2>1 DEF InTime
<1>9. ASSUME InTime(day) PROVE r = day
  <2>1. \A i, j \in I : <<i, j>> \in R <=> i < j
    <3>1. ASSUME NEW i \in I, NEW j \in I PROVE <<i, j>> \in R <=> i < j
      <4>1. (i < j => day[i].at <= day[j].at) /\ (j < i => day[j].at <= day[i].at)
        BY <1>9 DEF InTime
      <4> QED
        BY <1>2, <1>3, <4>1
    <3> QED
      BY <3>1
  <2> QED
    BY <1>1, <2>1, InPlace
<1> QED
  BY <1>5, <1>7, <1>8, <1>9, <1>10 DEF r

(* The time of each place.                                                 *)
SlotsOf(day) == [i \in DOMAIN day |-> day[i].at]

(* Where the activity at place k was before the i-th was moved to j.       *)
From(i, j, k) ==
  IF k = j THEN i ELSE IF i <= k /\ k < j THEN k + 1 ELSE IF j < k /\ k <= i THEN k - 1 ELSE k

(* Moving an activity moves those between its two places by one.           *)
LEMMA MovedPlaces ==
  ASSUME NEW day \in Seq(Activities), NEW i \in DOMAIN day, NEW j \in DOMAIN day
  PROVE  /\ Moved(day, i, j) \in Seq(Activities) /\ DOMAIN Moved(day, i, j) = DOMAIN day
         /\ \A k \in DOMAIN day : Moved(day, i, j)[k] = day[From(i, j, k)]
<1> DEFINE n == Len(day)
           s == RemoveAt(day, i)
           r == Moved(day, i, j)
<1>1. n \in Nat /\ i \in 1..n /\ j \in 1..n /\ DOMAIN day = 1..n
  OBVIOUS
<1>2. \A k \in 1..n : day[k] \in Activities
  OBVIOUS
<1>3. /\ s \in Seq(Activities) /\ Len(s) = n - 1
      /\ \A k \in 1..(n - 1) : s[k] = IF k < i THEN day[k] ELSE day[k + 1]
  <2> DEFINE a == SubSeq(day, 1, i - 1)
             b == SubSeq(day, i + 1, n)
  <2>1. a \in Seq(Activities) /\ Len(a) = i - 1 /\ \A k \in 1..(i - 1) : a[k] = day[k]
    BY <1>1
  <2>2. b \in Seq(Activities) /\ Len(b) = n - i /\ \A k \in 1..(n - i) : b[k] = day[k + i]
    BY <1>1
  <2>3. s = a \o b
    BY DEF RemoveAt
  <2> HIDE DEF a, b, s, n
  <2>0. /\ a \o b \in Seq(Activities) /\ Len(a \o b) = Len(a) + Len(b)
        /\ \A k \in 1..(Len(a) + Len(b)) :
             (a \o b)[k] = IF k <= Len(a) THEN a[k] ELSE b[k - Len(a)]
    BY <2>1, <2>2, ConcatProperties
  <2>4. s \in Seq(Activities) /\ Len(s) = n - 1
    <3>1. s \in Seq(Activities) /\ Len(s) = Len(a) + Len(b)
      BY <2>0, <2>3
    <3> QED
      BY <1>1, <2>1, <2>2, <3>1
  <2>5. ASSUME NEW k \in 1..(n - 1) PROVE s[k] = IF k < i THEN day[k] ELSE day[k + 1]
    <3>1. CASE k < i
      <4>1. s[k] = a[k] /\ k \in 1..(i - 1)
        BY <1>1, <2>0, <2>1, <2>2, <2>3, <3>1
      <4> QED
        BY <1>1, <2>1, <3>1, <4>1
    <3>2. CASE k >= i
      <4>1. k - (i - 1) \in 1..(n - i) /\ (k - (i - 1)) + i = k + 1
        BY <1>1, <3>2
      <4>2. s[k] = b[k - (i - 1)]
        <5>1. k \in 1..(Len(a) + Len(b)) /\ ~(k <= Len(a))
          BY <1>1, <2>1, <2>2, <3>2
        <5> QED
          BY <2>0, <2>1, <2>3, <5>1
      <4>3. b[k - (i - 1)] = day[(k - (i - 1)) + i]
        BY <2>2, <4>1
      <4> QED
        BY <1>1, <3>2, <4>1, <4>2, <4>3
    <3> QED
      BY <1>1, <3>1, <3>2
  <2> QED
    BY <2>4, <2>5
<1>4. /\ r \in Seq(Activities) /\ Len(r) = n
      /\ \A k \in 1..n : r[k] = IF k < j THEN s[k] ELSE IF k = j THEN day[i] ELSE s[k - 1]
  <2> DEFINE a == SubSeq(s, 1, j - 1)
             b == SubSeq(s, j, Len(s))
             x == day[i]
  <2>1. r = a \o <<x>> \o b
    BY DEF Moved, InsertAt
  <2> HIDE DEF s, r, n
  <2>2. a \in Seq(Activities) /\ Len(a) = j - 1 /\ \A k \in 1..(j - 1) : a[k] = s[k]
    BY <1>1, <1>3
  <2>3. b \in Seq(Activities) /\ Len(b) = n - j /\ \A k \in 1..(n - j) : b[k] = s[k + j - 1]
    BY <1>1, <1>3
  <2>4. x \in Activities
    BY <1>1, <1>2
  <2> HIDE DEF a, b, x
  <2>5. /\ a \o <<x>> \in Seq(Activities) /\ Len(a \o <<x>>) = j
        /\ \A k \in 1..j : (a \o <<x>>)[k] = IF k < j THEN s[k] ELSE x
    BY <1>1, <2>2, <2>4
  <2> DEFINE c == a \o <<x>>
  <2> HIDE DEF c
  <2>6. /\ c \in Seq(Activities) /\ Len(c) = j
        /\ \A k \in 1..j : c[k] = IF k < j THEN s[k] ELSE x
    BY <2>5 DEF c
  <2>7. r = c \o b
    BY <2>1 DEF c
  <2>8. r \in Seq(Activities) /\ Len(r) = n
    <3>1. Len(c \o b) = Len(c) + Len(b) /\ c \o b \in Seq(Activities)
      BY <2>3, <2>6, ConcatProperties
    <3> QED
      BY <1>1, <2>3, <2>6, <2>7, <3>1
  <2>9. ASSUME NEW k \in 1..n
        PROVE  r[k] = IF k < j THEN s[k] ELSE IF k = j THEN x ELSE s[k - 1]
    <3>1. CASE k <= j
      <4>1. r[k] = c[k]
        BY <1>1, <2>3, <2>6, <2>7, <3>1
      <4> QED
        BY <1>1, <2>6, <3>1, <4>1
    <3>2. CASE k > j
      <4>1. r[k] = b[k - j] /\ k - j \in 1..(n - j) /\ (k - j) + j - 1 = k - 1
        BY <1>1, <2>3, <2>6, <2>7, <3>2
      <4> QED
        BY <1>1, <2>3, <3>2, <4>1
    <3> QED
      BY <1>1, <3>1, <3>2
  <2> QED
    BY <2>8, <2>9 DEF x
<1> HIDE DEF n, s, r
<1>5. ASSUME NEW k \in 1..n PROVE r[k] = day[From(i, j, k)]
  <2>1. CASE k < j
    <3>1. r[k] = s[k] /\ k \in 1..(n - 1)
      BY <1>1, <1>4, <2>1
    <3> QED
      BY <1>1, <1>3, <2>1, <3>1 DEF From
  <2>2. CASE k = j
    BY <1>1, <1>4, <2>2 DEF From
  <2>3. CASE k > j
    <3>1. r[k] = s[k - 1] /\ k - 1 \in 1..(n - 1)
      BY <1>1, <1>4, <2>3
    <3> QED
      BY <1>1, <1>3, <2>3, <3>1 DEF From
  <2> QED
    BY <1>1, <2>1, <2>2, <2>3
<1>6. DOMAIN r = 1..n
  BY <1>1, <1>4
<1> QED
  BY <1>1, <1>4, <1>5, <1>6 DEF r

(* Where an activity of the dragged list stood before.                     *)
LEMMA BackFrom ==
  ASSUME NEW n \in Nat, NEW i \in 1..n, NEW j \in 1..n, NEW l \in 1..n
  PROVE  From(j, i, l) \in 1..n /\ From(i, j, From(j, i, l)) = l
BY DEF From

(* A drag keeps the activities, and each place keeps its time.             *)
LEMMA DragRetimes ==
  ASSUME NEW day, IsDay(day), NEW i \in DOMAIN day, NEW j \in DOMAIN day
  PROVE  LET r == Retimed(Moved(day, i, j), SlotsOf(day))
         IN  IsDay(r) /\ SlotsOf(r) = SlotsOf(day)
<1> DEFINE m == Moved(day, i, j)
           r == Retimed(m, SlotsOf(day))
           I == DOMAIN day
<1>1. day \in Seq(Activities) /\ I = 1..Len(day) /\ Len(day) \in Nat
  BY DEF IsDay
<1>2. m \in Seq(Activities) /\ DOMAIN m = I /\ \A k \in I : m[k] = day[From(i, j, k)]
  BY <1>1, MovedPlaces
<1> HIDE DEF m
<1>3. \A k \in I : From(i, j, k) \in I
  BY <1>1 DEF From
<1>4. ASSUME NEW l \in I PROVE \E k \in I : From(i, j, k) = l
  <2>1. From(i, j, From(j, i, l)) = l /\ From(j, i, l) \in I
    BY <1>1, BackFrom
  <2> QED
    BY <2>1
<1>5. r = [k \in I |-> [m[k] EXCEPT !.at = day[k].at]]
  BY <1>2 DEF Retimed, SlotsOf
<1> HIDE DEF r
<1>6. \A k \in I : m[k] \in Activities /\ day[k] \in Activities
  BY <1>1, <1>2
<1>7. ASSUME NEW k \in I
      PROVE  /\ r[k] \in Activities /\ r[k].at = day[k].at
             /\ r[k].act = day[From(i, j, k)].act
  <2>1. r[k] = [m[k] EXCEPT !.at = day[k].at]
    BY <1>5
  <2>2. m[k] \in Activities /\ day[k] \in Activities /\ m[k] = day[From(i, j, k)]
    BY <1>2, <1>6
  <2>3. day[k].at \in Nat
    BY <2>2 DEF Activities
  <2> QED
    BY <2>1, <2>2, <2>3 DEF Activities
<1>8. DOMAIN r = I /\ r \in Seq(Activities)
  <2>1. DOMAIN r = I /\ \A k \in I : r[k] \in Activities
    BY <1>5, <1>7
  <2>2. r = [k \in I |-> r[k]]
    BY <1>5, <2>1
  <2>3. r \in [1..Len(day) -> Activities]
    BY <1>1, <2>1, <2>2
  <2> QED
    BY <1>1, <2>1, <2>3
<1>9. Acts(r) = Acts(day)
  <2>1. ASSUME NEW k \in I PROVE \E l \in I : r[k].act = day[l].act
    BY <1>3, <1>7
  <2>2. ASSUME NEW l \in I PROVE \E k \in I : r[k].act = day[l].act
    <3>1. PICK k \in I : From(i, j, k) = l
      BY <1>4
    <3> QED
      BY <1>7, <3>1
  <2>3. ASSUME NEW x \in Acts(r) PROVE x \in Acts(day)
    <3>1. PICK k \in DOMAIN r : x = r[k].act
      BY DEF Acts
    <3>2. PICK l \in I : r[k].act = day[l].act
      BY <1>8, <2>1
    <3> QED
      BY <3>1, <3>2 DEF Acts
  <2>4. ASSUME NEW x \in Acts(day) PROVE x \in Acts(r)
    <3>1. PICK l \in I : x = day[l].act
      BY DEF Acts
    <3>2. PICK k \in I : r[k].act = day[l].act
      BY <2>2
    <3> QED
      BY <1>8, <3>1, <3>2 DEF Acts
  <2> QED
    BY <2>3, <2>4
<1>10. SlotsOf(r) = SlotsOf(day)
  BY <1>7, <1>8 DEF SlotsOf
<1>11. Len(r) = Len(day)
  BY <1>1, <1>8
<1> QED
  BY <1>8, <1>9, <1>10, <1>11 DEF IsDay, r, m

(* The times of the places say whether a list is in order.                 *)
LEMMA SameTimes ==
  ASSUME NEW day, NEW r, SlotsOf(r) = SlotsOf(day), InTime(day)
  PROVE  InTime(r)
<1>1. DOMAIN r = DOMAIN day /\ \A i \in DOMAIN day : r[i].at = day[i].at
  <2>1. DOMAIN SlotsOf(r) = DOMAIN r /\ \A i \in DOMAIN r : SlotsOf(r)[i] = r[i].at
    BY DEF SlotsOf
  <2>2. DOMAIN SlotsOf(day) = DOMAIN day /\ \A i \in DOMAIN day : SlotsOf(day)[i] = day[i].at
    BY DEF SlotsOf
  <2> QED
    BY <2>1, <2>2
<1> QED
  BY <1>1 DEF InTime

(* Where the days are good: in the tables, in the tabs, under way to the   *)
(* service and in the dialogs.  Those of a saved trip that was dragged are *)
(* in the order of their times, since the places kept their times.         *)
DayOK(day, dragged) == IsDay(day) /\ (dragged => InTime(day))

ShownOK(x) ==
  x.view \in {"plan", "timeline"} =>
    DayOK(x.day, x.view = "timeline") /\ x.slots = SlotsOf(x.day)

SentOK(w) == w.leg \in {"sent", "left"} => DayOK(w.day, w.trip # None)

ReadOK(d) == d.leg = "read" => DayOK(d.day, d.dragged)

SavedOK == \A id \in Trips : saved[id] # None => DayOK(saved[id].day, saved[id].dragged)

DaysOK ==
  SavedOK /\ \A t \in Tabs : ShownOK(tab[t]) /\ SentOK(writing[t]) /\ ReadOK(dialog[t])

(* A plan as it was generated.                                             *)
LEMMA PlansAreDays ==
  ASSUME NEW p \in Plans
  PROVE  IsDay(p)
BY TripAssumption DEF IsDay

(* The profile, and a tab with no request and no dialog.                   *)
LEMMA NoDays == ShownOK(Empty) /\ SentOK(Silent) /\ ReadOK(Closed)
BY DEF ShownOK, SentOK, ReadOK, Empty, Silent, Closed

(* At first only plans are saved.                                          *)
LEMMA DaysStart == TripInit => DaysOK
<1> SUFFICES ASSUME TripInit PROVE DaysOK
  OBVIOUS
<1>1. PICK p \in Plans :
        saved = [id \in Trips |-> IF id <= created
          THEN [day |-> p, stays |-> {}, version |-> id, dragged |-> FALSE] ELSE None]
  BY DEF TripInit
<1>2. ASSUME NEW id \in Trips, saved[id] # None PROVE DayOK(saved[id].day, saved[id].dragged)
  <2>1. saved[id] = [day |-> p, stays |-> {}, version |-> id, dragged |-> FALSE]
    BY <1>1, <1>2
  <2> QED
    BY <2>1, PlansAreDays DEF DayOK
<1> QED
  BY <1>2, NoDays DEF DaysOK, SavedOK, TripInit

(* What has to be shown of a step of tab t.                                *)
LEMMA OneDay ==
  ASSUME DaysOK, NEW t \in Tabs, Alone(t), SavedOK', ShownOK(tab'[t]), SentOK(writing'[t]),
         ReadOK(dialog'[t])
  PROVE  DaysOK'
<1>1. ASSUME NEW u \in Tabs
      PROVE  ShownOK(tab'[u]) /\ SentOK(writing'[u]) /\ ReadOK(dialog'[u])
  BY DEF DaysOK, Alone
<1>2. \A u \in Tabs : ShownOK(tab[u])' /\ SentOK(writing[u])' /\ ReadOK(dialog[u])'
  BY <1>1 DEF ShownOK, SentOK, ReadOK
<1> QED
  BY <1>2 DEF DaysOK

(* Opening, loading and dragging.                                          *)
LEMMA PageDays ==
  ASSUME TripInv, DaysOK, NEW t \in Tabs, Alone(t),
         \/ \E p \in Plans : OpenPlan(t, p)
         \/ \E id \in 1..created : OpenTrip(t, id)
         \/ GoToHotels(t)
         \/ \E s \in tab[t].stays : GoToStay(t, s)
         \/ \E s \in shown : ReloadStay(t, s)
         \/ TripLoaded(t) \/ LoadFails(t) \/ SuggestionRead(t) \/ CardsRendered(t)
         \/ \E i, k \in DOMAIN tab[t].day : Drag(t, i, k)
  PROVE  DaysOK'
<1>0. /\ t \in DOMAIN tab /\ t \in DOMAIN writing
      /\ tab[t] \in ViewRecords(tab[t], writes) /\ writing[t] \in CallRecords(writing[t], writes)
      /\ ViewOK(tab[t], saved, writes)
      /\ ShownOK(tab[t]) /\ SentOK(writing[t]) /\ ReadOK(dialog[t]) /\ SavedOK
  BY TabFacts DEF DaysOK
<1>1. saved' = saved /\ dialog' = dialog
  BY DEF OpenPlan, OpenTrip, NewDocument, GoToHotels, GoToStay, ReloadStay, TripLoaded, LoadFails,
     SuggestionRead, CardsRendered, Drag
<1>2. SavedOK'
  BY <1>0, <1>1 DEF SavedOK, DayOK
<1>3. SentOK(writing'[t])
  <2>1. \/ writing'[t] = writing[t] \/ writing'[t] = Silent
        \/ writing[t].leg = "sent" /\ writing'[t] = [writing[t] EXCEPT !.leg = "left"]
    BY <1>0 DEF OpenPlan, OpenTrip, NewDocument, GoToHotels, GoToStay, ReloadStay, TripLoaded,
       LoadFails, SuggestionRead, CardsRendered, Drag
  <2> QED
    BY <1>0, <2>1, NoDays DEF SentOK, CallRecords
<1>4. ASSUME ShownOK(tab'[t]) PROVE DaysOK'
  BY <1>0, <1>1, <1>2, <1>3, <1>4, OneDay
<1>5. ASSUME NEW p \in Plans, OpenPlan(t, p) PROVE DaysOK'
  <2>1. tab'[t] = [Empty EXCEPT !.view = "plan", !.day = p, !.slots = SlotsOf(p)]
    BY <1>0, <1>5 DEF OpenPlan, SlotsOf
  <2>2. tab'[t].view = "plan" /\ tab'[t].day = p /\ tab'[t].slots = SlotsOf(p)
    BY <2>1 DEF Empty
  <2> QED
    BY <1>4, <2>2, PlansAreDays DEF ShownOK, DayOK
<1>6. CASE tab'[t].view \notin {"plan", "timeline"}
  BY <1>4, <1>6 DEF ShownOK
<1>7. ASSUME NEW id, OpenTrip(t, id) PROVE tab'[t].view = "loading"
  BY <1>0, <1>7 DEF OpenTrip, Empty
<1>8. ASSUME GoToHotels(t) PROVE tab'[t].view = "hotels"
  BY <1>0, <1>8 DEF GoToHotels, Empty
<1>9. ASSUME NEW s, GoToStay(t, s) PROVE tab'[t].view = "detail"
  BY <1>0, <1>9 DEF GoToStay, Empty
<1>14. ASSUME NEW s, ReloadStay(t, s) PROVE tab'[t].view = "detail"
  BY <1>0, <1>14 DEF ReloadStay, ViewRecords
<1>10. ASSUME LoadFails(t) PROVE tab'[t].view = "missing"
  BY <1>0, <1>10 DEF LoadFails, ViewRecords
<1>11. ASSUME SuggestionRead(t) \/ CardsRendered(t) PROVE tab'[t].view = "hotels"
  BY <1>0, <1>11 DEF SuggestionRead, CardsRendered, ViewRecords
<1>12. CASE TripLoaded(t)
  <2> DEFINE id == tab[t].trip
             day == ByTime(saved[id].day)
  <2>1. id \in Trips /\ tab[t].view = "loading"
    BY <1>0, <1>12 DEF TripLoaded, ViewOK
  <2>2. CASE saved[id] = None
    <3>1. tab'[t].view = "missing"
      BY <1>0, <1>12, <2>2 DEF TripLoaded, ViewRecords
    <3> QED
      BY <1>6, <3>1
  <2>3. CASE saved[id] # None
    <3>1. tab'[t] = [tab[t] EXCEPT !.view = "timeline", !.day = day, !.slots = SlotsOf(day),
                       !.stays = saved[id].stays, !.read = saved[id].version]
      BY <1>0, <1>12, <2>3 DEF TripLoaded, SlotsOf
    <3>2. IsDay(saved[id].day)
      BY <1>0, <2>1, <2>3 DEF SavedOK, DayOK
    <3>3. IsDay(day) /\ InTime(day)
      BY <3>2, ByTimeSorts DEF IsDay
    <3> HIDE DEF day
    <3>4. tab'[t].day = day /\ tab'[t].slots = SlotsOf(day)
      BY <1>0, <3>1 DEF ViewRecords
    <3> QED
      BY <1>4, <3>3, <3>4 DEF ShownOK, DayOK
  <2> QED
    BY <2>2, <2>3
<1>13. ASSUME NEW i, NEW k, Drag(t, i, k) PROVE DaysOK'
  <2> DEFINE day == tab[t].day
             r == Retimed(Moved(day, i, k), tab[t].slots)
  <2>1. /\ tab'[t] = [tab[t] EXCEPT !.day = r, !.changed = TRUE]
        /\ tab[t].view \in {"plan", "timeline"} /\ i \in DOMAIN day /\ k \in DOMAIN day
    BY <1>0, <1>13 DEF Drag
  <2>2. IsDay(day) /\ tab[t].slots = SlotsOf(day)
    BY <1>0, <2>1 DEF ShownOK, DayOK
  <2>3. IsDay(r) /\ SlotsOf(r) = SlotsOf(day)
    <3>1. r = Retimed(Moved(day, i, k), SlotsOf(day)) /\ IsDay(day)
      BY <2>2
    <3>2. LET d == Retimed(Moved(day, i, k), SlotsOf(day))
          IN  IsDay(d) /\ SlotsOf(d) = SlotsOf(day)
      BY <2>1, <3>1, DragRetimes
    <3> QED
      BY <3>1, <3>2
  <2>4. InTime(day) => InTime(r)
    BY <2>3, SameTimes
  <2>5. SlotsOf(r) = tab[t].slots
    BY <2>2, <2>3
  <2> HIDE DEF r
  <2>6. /\ tab'[t].day = r /\ tab'[t].slots = tab[t].slots /\ tab'[t].view = tab[t].view
    BY <1>0, <2>1 DEF ViewRecords
  <2>7. tab[t].view = "timeline" => InTime(day)
    BY <1>0 DEF ShownOK, DayOK
  <2> QED
    BY <1>4, <2>3, <2>4, <2>5, <2>6, <2>7 DEF ShownOK, DayOK
<1> QED
  BY <1>5, <1>6, <1>7, <1>8, <1>9, <1>10, <1>11, <1>12, <1>13, <1>14

(* A save or an update, up to the moment at which it is served.            *)
LEMMA CallDays ==
  ASSUME TripInv, DaysOK, NEW t \in Tabs, Alone(t), SendWrite(t) \/ WriteFails(t) \/ WriteArrives(t)
  PROVE  DaysOK'
<1>0. /\ t \in DOMAIN tab /\ t \in DOMAIN writing
      /\ writing[t] \in CallRecords(writing[t], writes) /\ ViewOK(tab[t], saved, writes)
      /\ ShownOK(tab[t]) /\ SentOK(writing[t]) /\ ReadOK(dialog[t]) /\ SavedOK
  BY TabFacts DEF DaysOK
<1>1. saved' = saved /\ dialog' = dialog /\ (tab'[t] = tab[t] \/ tab'[t] = Empty)
  BY <1>0 DEF SendWrite, WriteFails, WriteArrives
<1>2. SavedOK' /\ ShownOK(tab'[t]) /\ ReadOK(dialog'[t])
  BY <1>0, <1>1, NoDays DEF SavedOK, DayOK
<1>3. SentOK(writing'[t])
  <2>1. CASE SendWrite(t)
    <3>1. /\ writing'[t] = [leg |-> "sent", trip |-> tab[t].trip, day |-> tab[t].day,
                            stays |-> tab[t].stays, read |-> tab[t].read]
          /\ tab[t].view \in {"plan", "timeline"}
      BY <1>0, <2>1 DEF SendWrite
    <3>2. tab[t].trip # None => tab[t].view = "timeline"
      BY <1>0, <3>1 DEF ViewOK
    <3> QED
      BY <1>0, <3>1, <3>2 DEF ShownOK, SentOK, DayOK
  <2>2. CASE WriteFails(t)
    <3>1. writing'[t] = Silent \/ writing'[t] = [writing[t] EXCEPT !.leg = "failed"]
      BY <1>0, <2>2 DEF WriteFails
    <3> QED
      BY <1>0, <3>1, NoDays DEF SentOK, CallRecords
  <2>3. CASE WriteArrives(t)
    BY <1>0, <2>3, NoDays DEF WriteArrives
  <2> QED
    BY <2>1, <2>2, <2>3
<1> QED
  BY <1>2, <1>3, OneDay

(* The aggregate that is written is as good as what the writer had.        *)
LEMMA WrittenDay ==
  ASSUME TripInv, SavedOK, NEW id \in Trips, NEW day, NEW stays, NEW dragged,
         DayOK(day, dragged), Write(id, day, stays, dragged)
  PROVE  SavedOK'
<1> DEFINE new == [day |-> day, stays |-> Inserted(stays, writes + 1), version |-> writes + 1,
                   dragged |-> dragged]
<1>1. /\ saved'[id] = new /\ \A o \in Trips \ {id} : saved'[o] = saved[o]
  BY DEF Write, TripInv, TableOK
<1>2. ASSUME NEW o \in Trips, saved'[o] # None PROVE DayOK(saved'[o].day, saved'[o].dragged)
  BY <1>1, <1>2 DEF SavedOK
<1> QED
  BY <1>2 DEF SavedOK, DayOK

(* Serving a save or an update.                                            *)
LEMMA ServedDays ==
  ASSUME TripInv, DaysOK, NEW t \in Tabs, Alone(t), WriteServed(t)
  PROVE  DaysOK'
<1> DEFINE w == writing[t]
<1>0. /\ t \in DOMAIN writing /\ w \in CallRecords(w, writes)
      /\ ShownOK(tab[t]) /\ SentOK(w) /\ ReadOK(dialog[t]) /\ SavedOK
      /\ created \in 0..MaxTrips
  BY TabFacts DEF DaysOK
<1>1. tab' = tab /\ dialog' = dialog /\ w.leg \in {"sent", "left"}
  BY DEF WriteServed
<1>2. DayOK(w.day, w.trip # None) /\ w.trip \in {None} \cup Trips
  BY <1>0, <1>1 DEF SentOK, CallRecords
<1>3. SavedOK'
  <2>1. CASE created < MaxTrips /\ Write(created + 1, w.day, w.stays, FALSE)
    <3>1. created + 1 \in Trips
      BY <1>0, <2>1, TripAssumption DEF Trips
    <3>2. DayOK(w.day, FALSE)
      BY <1>2 DEF DayOK
    <3> HIDE DEF w
    <3> QED
      BY <1>0, <2>1, <3>1, <3>2, WrittenDay
  <2>2. CASE w.trip # None /\ Write(w.trip, w.day, w.stays, TRUE)
    <3>1. DayOK(w.day, TRUE) /\ w.trip \in Trips
      BY <1>2, <2>2 DEF DayOK
    <3> HIDE DEF w
    <3> QED
      BY <1>0, <2>2, <3>1, WrittenDay
  <2>3. CASE saved' = saved
    BY <1>0, <2>3 DEF SavedOK, DayOK
  <2> QED
    BY <2>1, <2>2, <2>3 DEF WriteServed
<1>4. writing'[t].leg \in {"idle", "served", "failed"}
  <2> DEFINE answer == IF w.leg = "left" THEN Silent ELSE [w EXCEPT !.leg = "served"]
  <2>1. /\ answer.leg \in {"idle", "served"} /\ DOMAIN writing = Tabs
        /\ \A leg : [answer EXCEPT !.leg = leg].leg = leg
    BY <1>0 DEF CallRecords, Silent, TripInv, TabsOK
  <2>2. \/ writing' = [writing EXCEPT ![t] = answer]
        \/ \E leg \in {"idle", "failed"} :
             writing' = [[writing EXCEPT ![t] = answer] EXCEPT ![t].leg = leg]
    BY DEF WriteServed
  <2> HIDE DEF answer
  <2> QED
    BY <2>1, <2>2
<1>5. SentOK(writing'[t])
  BY <1>4 DEF SentOK
<1> QED
  BY <1>0, <1>1, <1>3, <1>5, OneDay

(* The dialogs.                                                            *)
LEMMA DialogDays ==
  ASSUME TripInv, DaysOK, NEW t \in Tabs, Alone(t), Dialogs(t)
  PROVE  DaysOK'
<1> DEFINE d == dialog[t]
<1>0. /\ t \in DOMAIN tab /\ t \in DOMAIN dialog /\ d \in DialogRecords(d, writes)
      /\ DialogOK(d, saved, writes)
      /\ ShownOK(tab[t]) /\ SentOK(writing[t]) /\ ReadOK(d) /\ SavedOK
      /\ DOMAIN saved = Trips
  BY TabFacts DEF DaysOK, TripInv, TableOK
<1>1. writing' = writing
  BY DEF Dialogs, AskToAdd, AskToRemove, AskToDelete, Ask, Dismiss, ReadForStay, AddStay,
     RemoveStay, DeleteTrip, DialogFails, DialogDone
<1>2. ShownOK(tab'[t])
  <2>1. \/ tab'[t] = tab[t] \/ tab'[t] = Empty
        \/ tab'[t] = [Empty EXCEPT !.view = "loading", !.trip = d.trip]
    BY <1>0 DEF Dialogs, AskToAdd, AskToRemove, AskToDelete, Ask, Dismiss, ReadForStay, AddStay,
       RemoveStay, DeleteTrip, DialogFails, DialogDone
  <2> QED
    BY <1>0, <2>1, NoDays DEF ShownOK, Empty
<1>3. ASSUME SavedOK', ReadOK(dialog'[t]) PROVE DaysOK'
  BY <1>0, <1>1, <1>2, <1>3, OneDay
<1>4. ASSUME dialog'[t].leg # "read", SavedOK' PROVE DaysOK'
  BY <1>3, <1>4 DEF ReadOK
<1>5. ASSUME saved' = saved PROVE SavedOK'
  BY <1>0, <1>5 DEF SavedOK, DayOK
<1>6. ASSUME NEW does, NEW id, NEW what, Ask(t, does, id, what) PROVE DaysOK'
  <2>1. dialog'[t].leg = "asking" /\ saved' = saved
    BY <1>0, <1>6 DEF Ask, Closed
  <2> QED
    BY <1>4, <1>5, <2>1
<1>7. CASE Dismiss(t) \/ DialogDone(t)
  <2>1. dialog'[t].leg = "closed" /\ saved' = saved
    BY <1>0, <1>7 DEF Dismiss, DialogDone, Closed
  <2> QED
    BY <1>4, <1>5, <2>1
<1>8. CASE DialogFails(t)
  <2>1. dialog'[t].leg = "asking" /\ saved' = saved
    BY <1>0, <1>8 DEF DialogFails, DialogRecords
  <2> QED
    BY <1>4, <1>5, <2>1
<1>9. CASE ReadForStay(t)
  <2> DEFINE id == d.trip
  <2>1. /\ dialog'[t] = [d EXCEPT !.leg = "read", !.read = saved[id].version,
                           !.day = saved[id].day, !.stays = saved[id].stays,
                           !.dragged = saved[id].dragged]
        /\ saved' = saved /\ saved[id] # None /\ d.leg = "asking"
    BY <1>0, <1>9 DEF ReadForStay
  <2>2. id \in Trips
    BY <1>0, <2>1 DEF DialogOK
  <2>3. dialog'[t].day = saved[id].day /\ dialog'[t].dragged = saved[id].dragged
    BY <1>0, <2>1 DEF DialogRecords
  <2> QED
    BY <1>0, <1>3, <1>5, <2>1, <2>2, <2>3 DEF ReadOK, SavedOK
<1>10. CASE AddStay(t)
  <2>1. dialog'[t].leg \in {"served", "asking"} /\ d.leg = "read"
    BY <1>0, <1>10 DEF AddStay, DialogRecords
  <2>2. SavedOK'
    <3>1. CASE saved[d.trip] # None
      <4>1. PICK stays : Write(d.trip, d.day, stays, d.dragged)
        BY <1>10, <3>1 DEF AddStay
      <4>2. d.trip \in Trips /\ DayOK(d.day, d.dragged)
        BY <1>0, <2>1 DEF DialogOK, ReadOK
      <4> HIDE DEF d
      <4> QED
        BY <1>0, <4>1, <4>2, WrittenDay
    <3>2. CASE saved[d.trip] = None
      BY <1>5, <1>10, <3>2 DEF AddStay
    <3> QED
      BY <3>1, <3>2
  <2> QED
    BY <1>4, <2>1, <2>2
<1>11. CASE RemoveStay(t) \/ DeleteTrip(t)
  <2>1. dialog'[t].leg = "served" /\ d.leg = "asking"
    BY <1>0, <1>11 DEF RemoveStay, DeleteTrip, DialogRecords
  <2>2. ASSUME NEW o \in Trips, saved'[o] # None
        PROVE  /\ saved[o] # None /\ saved'[o].day = saved[o].day
               /\ saved'[o].dragged = saved[o].dragged
    <3>1. CASE DeleteTrip(t)
      BY <1>0, <2>2, <3>1 DEF DeleteTrip
    <3>2. CASE RemoveStay(t)
      <4>1. PICK id \in Trips : /\ saved[id] # None
                                /\ \E s : saved' = [saved EXCEPT ![id].stays = @ \ {s}]
        BY <3>2 DEF RemoveStay
      <4>2. PICK s : saved' = [saved EXCEPT ![id].stays = @ \ {s}]
        BY <4>1
      <4>3. CASE o = id
        <5>1. saved[o] \in TripRecords(saved[o], writes)
          BY <4>1, <4>3 DEF TripInv, TableOK
        <5> QED
          BY <1>0, <4>1, <4>2, <4>3, <5>1 DEF TripRecords
      <4>4. CASE o # id
        BY <1>0, <2>2, <4>2, <4>4
      <4> QED
        BY <4>3, <4>4
    <3> QED
      BY <1>11, <3>1, <3>2
  <2>3. SavedOK'
    BY <1>0, <2>2 DEF SavedOK, DayOK
  <2> QED
    BY <1>4, <2>1, <2>3
<1> QED
  BY <1>6, <1>7, <1>8, <1>9, <1>10, <1>11 DEF Dialogs, AskToAdd, AskToRemove, AskToDelete

(* Every step keeps the days good.                                         *)
LEMMA DaysKept == TripInv /\ DaysOK /\ [\E t \in Tabs : TripStep(t)]_tripVars => DaysOK'
<1>1. ASSUME TripInv, DaysOK, NEW t \in Tabs, TripStep(t) PROVE DaysOK'
  <2>1. Alone(t)
    BY <1>1, StepsAreAlone
  <2>2. CASE \/ \E p \in Plans : OpenPlan(t, p)
             \/ \E id \in 1..created : OpenTrip(t, id)
             \/ GoToHotels(t)
             \/ \E s \in tab[t].stays : GoToStay(t, s)
             \/ \E s \in shown : ReloadStay(t, s)
             \/ TripLoaded(t) \/ LoadFails(t) \/ SuggestionRead(t) \/ CardsRendered(t)
             \/ \E i, k \in DOMAIN tab[t].day : Drag(t, i, k)
    BY <1>1, <2>1, <2>2, PageDays
  <2>3. CASE SendWrite(t) \/ WriteFails(t) \/ WriteArrives(t)
    BY <1>1, <2>1, <2>3, CallDays
  <2>4. CASE WriteServed(t)
    BY <1>1, <2>1, <2>4, ServedDays
  <2>5. CASE Dialogs(t)
    BY <1>1, <2>1, <2>5, DialogDays
  <2> QED
    BY <1>1, <2>2, <2>3, <2>4, <2>5 DEF TripStep
<1>2. ASSUME DaysOK, UNCHANGED tripVars PROVE DaysOK'
  BY <1>2 DEF tripVars, storage, bounds, DaysOK, SavedOK, ShownOK, SentOK, ReadOK, DayOK
<1> QED
  BY <1>1, <1>2

(* What the reader dragged is what the page shows after the update: the    *)
(* saved day is in the order of its times, with every activity of a plan   *)
(* once.                                                                   *)
THEOREM DragsSurvive == TripSpec => []DragSurvivesReload
<1>1. DaysOK => DragSurvivesReload
  <2> SUFFICES ASSUME DaysOK, NEW id \in Trips, saved[id] # None, saved[id].dragged
               PROVE  /\ ByTime(saved[id].day) = saved[id].day
                      /\ \E p \in Plans :
                           /\ Len(saved[id].day) = Len(p)
                           /\ {saved[id].day[i].act : i \in DOMAIN saved[id].day}
                                = {p[i].act : i \in DOMAIN p}
    BY DEF DragSurvivesReload
  <2>1. IsDay(saved[id].day) /\ InTime(saved[id].day)
    BY DEF DaysOK, SavedOK, DayOK
  <2> QED
    BY <2>1, ByTimeSorts DEF IsDay, Acts
<1> QED
  BY <1>1, TripsStart, TripsKept, DaysStart, DaysKept, PTL DEF TripSpec

-----------------------------------------------------------------------------
(* The answer to a plan.                                                   *)

(* A row of the forecast that stands for a day of the model.               *)
Row(day, low) == [RawDay(day.date, "-", "-", "-") EXCEPT !.celsius = High(day), !.low = low]

(* The rows are those of the dated days, and there are none when the       *)
(* answer of the model has none.                                           *)
Renders(f) ==
  /\ f = [shape |-> IF f.days = <<>> THEN "other" ELSE "days", days |-> f.days]
  /\ raw.shape = "other" => f.days = <<>>
  /\ raw.shape # "other" => f.days = [i \in DOMAIN Dated |-> f.days[i]]
  /\ raw.shape # "other" => \A i \in DOMAIN Dated :
       \E low \in {"-", Dated[i].min} : f.days[i] = Row(Dated[i], low)

AnswerInv ==
  /\ raw \in Forecasts /\ offers \in OfferLists
  /\ held = raw \/ Renders(held)
  /\ place \in Places /\ option \in Options
  /\ flights \in Seq(Offers) /\ Len(flights) <= Len(offers)

(* The days of a forecast are a list of days that the model may write.     *)
LEMMA ForecastDays ==
  ASSUME NEW f \in Forecasts
  PROVE  /\ f.days \in Seq(RawDays)
         /\ f.shape \in Containers
<1>1. PICK n \in 0..MaxDays : f.days \in [1..n -> RawDays]
  BY DEF Forecasts
<1>2. n \in Nat
  BY AnswerAssumption
<1> QED
  BY <1>1, <1>2 DEF Forecasts

(* What the model wrote, without the days that have no date.               *)
LEMMA DatedDays ==
  ASSUME raw \in Forecasts
  PROVE  /\ Dated \in Seq(RawDays) /\ Len(Dated) \in 0..Len(raw.days)
         /\ \A i \in DOMAIN Dated : Dated[i] \in RawDays /\ Dated[i].date # "-"
<1> DEFINE I == {i \in DOMAIN raw.days : raw.days[i].date # "-"}
           R == {p \in Pairs(raw.days) : p[1] < p[2]}
<1>1. raw.days \in Seq(RawDays)
  BY ForecastDays
<1>2. I \in SUBSET DOMAIN raw.days /\ Dated = Arranged(raw.days, I, R)
  BY DEF Dated, Filter
<1>3. \A i \in I : raw.days[i].date # "-"
  OBVIOUS
<1> HIDE DEF I, R
<1>4. IsOrder(R, I)
  BY <1>1, <1>2, PlacesInOrder DEF R
<1>5. PICK at \in [DOMAIN Dated -> I] : \A k \in DOMAIN Dated : Dated[k] = raw.days[at[k]]
  <2>1. Arranges(Dated, raw.days, I, R)
    BY <1>1, <1>2, <1>4, Arrangement
  <2> QED
    BY <2>1 DEF Arranges
<1>6. Dated \in Seq(RawDays)
  BY <1>1, <1>2, <1>4, Arrangement
<1>7. Len(Dated) \in 0..Len(raw.days)
  BY <1>1, <1>2, ArrangedLen
<1>8. ASSUME NEW i \in DOMAIN Dated PROVE Dated[i] \in RawDays /\ Dated[i].date # "-"
  <2>1. at[i] \in I /\ Dated[i] = raw.days[at[i]]
    BY <1>5
  <2> QED
    BY <1>3, <1>6, <2>1
<1> QED
  BY <1>6, <1>7, <1>8

(* A day of the model becomes its row.                                     *)
LEMMA FirstTime ==
  ASSUME NEW day \in RawDays
  PROVE  \E low \in {"-", day.min} : Canonical(day) = Row(day, low)
<1>1. day = RawDay(day.date, day.alone, day.max, day.min)
  BY AnswerAssumption
<1>2. day.celsius = "-"
  BY <1>1 DEF RawDay
<1>3. CASE day.alone # "-"
  BY <1>2, <1>3 DEF Canonical, Temperatures, Row, High, RawDay
<1>4. CASE day.alone = "-"
  BY <1>2, <1>4 DEF Canonical, Temperatures, Row, High, RawDay
<1> QED
  BY <1>3, <1>4

(* A row stays what it is, but for its low.                                *)
LEMMA NextTime ==
  ASSUME NEW day \in RawDays, NEW low, low \in {"-", day.min}
  PROVE  Canonical(Row(day, low)) = Row(day, "-")
<1> DEFINE row == Row(day, low)
<1>1. /\ row.date = day.date /\ row.alone = "-" /\ row.max = "-" /\ row.min = "-"
      /\ row.celsius = High(day)
  BY DEF Row, RawDay
<1> HIDE DEF row
<1>2. Temperatures(row) = <<High(day), "-">>
  BY <1>1 DEF Temperatures
<1>3. Canonical(row) = Row(day, "-")
  BY <1>1, <1>2 DEF Canonical, Row
<1> QED
  BY <1>3 DEF row

(* Rows of the dated days, in the container that fits them.                *)
LEMMA RowsRender ==
  ASSUME raw \in Forecasts, raw.shape # "other", NEW rows, DOMAIN rows = DOMAIN Dated,
         rows = [i \in DOMAIN Dated |-> rows[i]],
         \A i \in DOMAIN Dated : \E low \in {"-", Dated[i].min} : rows[i] = Row(Dated[i], low),
         NEW f, f = [shape |-> IF Dated = <<>> THEN "other" ELSE "days", days |-> rows]
  PROVE  Renders(f)
<1>1. Dated \in Seq(RawDays)
  BY DatedDays
<1>2. rows = <<>> <=> Dated = <<>>
  <2>1. DOMAIN Dated = 1..Len(Dated) /\ Len(Dated) \in Nat
    BY <1>1
  <2>2. Dated = <<>> <=> DOMAIN Dated = {}
    BY <1>1, <2>1
  <2>3. rows = <<>> <=> DOMAIN rows = {}
    <3>1. rows \in Seq({rows[i] : i \in DOMAIN rows})
      BY <2>1
    <3> QED
      BY <2>1, <3>1
  <2> QED
    BY <2>2, <2>3
<1>3. f = [shape |-> IF f.days = <<>> THEN "other" ELSE "days", days |-> f.days] /\ f.days = rows
  BY <1>2
<1> QED
  BY <1>3 DEF Renders

(* The answer of the model, normalised.                                    *)
LEMMA NormalizedRaw ==
  ASSUME raw \in Forecasts
  PROVE  Renders(Normalized(raw))
<1>1. CASE raw.shape = "other"
  BY <1>1 DEF Normalized, Renders
<1>2. CASE raw.shape # "other"
  <2> DEFINE rows == [i \in DOMAIN Dated |-> Canonical(Dated[i])]
  <2>1. Normalized(raw) = [shape |-> IF Dated = <<>> THEN "other" ELSE "days", days |-> rows]
    BY <1>2 DEF Normalized, Dated
  <2>2. \A i \in DOMAIN Dated : \E low \in {"-", Dated[i].min} : rows[i] = Row(Dated[i], low)
    BY DatedDays, FirstTime
  <2>3. DOMAIN rows = DOMAIN Dated /\ rows = [i \in DOMAIN Dated |-> rows[i]]
    OBVIOUS
  <2> HIDE DEF rows
  <2> QED
    BY <1>2, <2>1, <2>2, <2>3, RowsRender
<1> QED
  BY <1>1, <1>2

(* What was normalised stays so.                                           *)
LEMMA NormalizedAgain ==
  ASSUME raw \in Forecasts, NEW f, Renders(f)
  PROVE  Renders(Normalized(f))
<1> DEFINE days == f.days
<1>1. CASE f.shape = "other"
  <2>1. Normalized(f) = [shape |-> "other", days |-> <<>>]
    BY <1>1 DEF Normalized
  <2>2. days = <<>>
    BY <1>1 DEF Renders
  <2>3. f = Normalized(f)
    BY <1>1, <2>1, <2>2 DEF Renders
  <2> QED
    BY <2>3
<1>2. CASE f.shape # "other"
  <2>1. days # <<>> /\ raw.shape # "other"
    BY <1>2 DEF Renders
  <2>2. /\ Dated \in Seq(RawDays)
        /\ \A i \in DOMAIN Dated : Dated[i] \in RawDays /\ Dated[i].date # "-"
    BY DatedDays
  <2>3. /\ DOMAIN days = DOMAIN Dated
        /\ \A i \in DOMAIN Dated : \E low \in {"-", Dated[i].min} : days[i] = Row(Dated[i], low)
    BY <2>1 DEF Renders
  <2>4. days \in Seq({days[i] : i \in DOMAIN days})
    <3>1. DOMAIN Dated = 1..Len(Dated) /\ Len(Dated) \in Nat
      BY <2>2
    <3>2. days \in [1..Len(Dated) -> {days[i] : i \in DOMAIN days}]
      BY <2>1, <2>3, <3>1 DEF Renders
    <3> QED
      BY <3>1, <3>2
  <2>5. ASSUME NEW i \in DOMAIN days PROVE days[i].date # "-"
    <3>1. PICK low \in {"-", Dated[i].min} : days[i] = Row(Dated[i], low)
      BY <2>3
    <3>2. days[i].date = Dated[i].date
      BY <3>1 DEF Row, RawDay
    <3> QED
      BY <2>2, <2>3, <3>2
  <2>6. {i \in DOMAIN days : days[i].date # "-"} = DOMAIN days
    BY <2>5
  <2>7. Filter(days, LAMBDA day : day.date # "-") = days
    BY <2>4, <2>6, NothingDropped DEF Filter
  <2> DEFINE rows == [i \in DOMAIN Dated |-> Canonical(days[i])]
  <2>8. Normalized(f) = [shape |-> "days", days |-> rows]
    BY <1>2, <2>1, <2>3, <2>7 DEF Normalized
  <2>9. \A i \in DOMAIN Dated : rows[i] = Row(Dated[i], "-")
    BY <2>2, <2>3, NextTime
  <2>10. Dated # <<>>
    BY <2>1, <2>3, <2>4
  <2>11. DOMAIN rows = DOMAIN Dated /\ rows = [i \in DOMAIN Dated |-> rows[i]]
    OBVIOUS
  <2> HIDE DEF rows, days
  <2> QED
    BY <2>1, <2>8, <2>9, <2>10, <2>11, RowsRender
<1> QED
  BY <1>1, <1>2

(* What Amadeus answered is unpacked as it came, or not at all.            *)
LEMMA UnpackedOffers ==
  ASSUME offers \in OfferLists
  PROVE  Unpacked(offers) \in Seq(Offers) /\ Len(Unpacked(offers)) <= Len(offers)
<1>1. offers \in Seq(Offers)
  BY AnswerAssumption
<1> QED
  BY <1>1 DEF Unpacked

(* At first the model has answered and nothing is shown.                   *)
LEMMA AnswerStarts == AnswerInit => AnswerInv
<1> SUFFICES ASSUME AnswerInit PROVE AnswerInv
  OBVIOUS
<1>1. offers \in Seq(Offers) /\ offers \in OfferLists
  BY AnswerAssumption DEF AnswerInit
<1>2. flights \in Seq(Offers) /\ Len(flights) <= Len(offers)
  BY <1>1 DEF AnswerInit
<1> QED
  BY <1>1, <1>2 DEF AnswerInit, AnswerInv, Places, Options

(* Whoever takes the forecast over leaves it as it is or normalises it.    *)
LEMMA AnswerKept == AnswerInv /\ [AnswerStep]_answerVars => AnswerInv'
<1> SUFFICES ASSUME AnswerInv, [AnswerStep]_answerVars PROVE AnswerInv'
  OBVIOUS
<1>1. raw' = raw /\ offers' = offers
  BY DEF AnswerStep, PlanAnswered, StoredVerbatim, SaveWeather, OpenStored, ChooseOption, answerVars
<1>2. Dated' = Dated
  BY <1>1 DEF Dated, Filter
<1>4. Renders(Normalized(held))
  BY NormalizedRaw, NormalizedAgain DEF AnswerInv
<1>5. held' = held \/ held' = Normalized(held)
  BY DEF AnswerStep, PlanAnswered, StoredVerbatim, SaveWeather, OpenStored, ChooseOption, answerVars
<1>6. held' = raw' \/ Renders(held)'
  <2>1. held' = raw \/ Renders(held')
    BY <1>4, <1>5 DEF AnswerInv
  <2>2. Renders(held') <=> Renders(held)'
    BY <1>1, <1>2 DEF Renders
  <2> QED
    BY <1>1, <2>1, <2>2
<1>7. place' \in Places /\ option' \in Options
  BY DEF AnswerInv, AnswerStep, PlanAnswered, StoredVerbatim, SaveWeather, OpenStored, ChooseOption,
     answerVars, Places, Options
<1>8. flights' \in Seq(Offers) /\ Len(flights') <= Len(offers)
  <2>1. offers \in Seq(Offers)
    BY AnswerAssumption DEF AnswerInv
  <2>2. flights' \in {flights, <<>>, Unpacked(offers)}
    BY DEF AnswerStep, PlanAnswered, StoredVerbatim, SaveWeather, OpenStored, ChooseOption,
           answerVars
  <2>3. offers \in OfferLists /\ flights \in Seq(Offers) /\ Len(flights) <= Len(offers)
    BY DEF AnswerInv
  <2>4. Unpacked(offers) \in Seq(Offers) /\ Len(Unpacked(offers)) <= Len(offers)
    BY <2>3, UnpackedOffers
  <2>5. <<>> \in Seq(Offers) /\ Len(<<>>) <= Len(offers)
    BY <2>1
  <2> QED
    BY <2>2, <2>3, <2>4, <2>5
<1> QED
  BY <1>1, <1>6, <1>7, <1>8 DEF AnswerInv

(* Two flights in the order of the shortest.                               *)
LEMMA ShortestFirst ==
  ASSUME flights \in Seq(Offers), option = "duration-asc"
  PROVE  \A i, j \in DOMAIN SortedFlights :
           i < j => Minutes(SortedFlights[i]) <= Minutes(SortedFlights[j])
<1> DEFINE m(i) == Minutes(flights[i])
           R == {p \in Pairs(flights) : m(p[1]) < m(p[2]) \/ (p[1] < p[2] /\ ~(m(p[2]) < m(p[1])))}
           I == DOMAIN flights
<1>1. \A a, b : Before(option, a, b) <=> Minutes(a) < Minutes(b)
  BY DEF Before
<1>2. SortedFlights = Arranged(flights, I, R)
  <2> DEFINE Q == {p \in Pairs(flights) :
                     \/ Before(option, flights[p[1]], flights[p[2]])
                     \/ p[1] < p[2] /\ ~Before(option, flights[p[2]], flights[p[1]])}
  <2>1. SortedFlights = Arranged(flights, I, Q)
    BY DEF SortedFlights, StableSort
  <2>3. ASSUME NEW p PROVE p \in Q <=> p \in R
    <3>1. /\ Before(option, flights[p[1]], flights[p[2]]) <=> m(p[1]) < m(p[2])
          /\ Before(option, flights[p[2]], flights[p[1]]) <=> m(p[2]) < m(p[1])
      BY <1>1
    <3> QED
      BY <3>1
  <2> HIDE DEF Q, R
  <2>4. Q = R
    BY <2>3
  <2> QED
    BY <2>1, <2>4
<1>3. \A i \in I : i \in Nat /\ m(i) \in Nat
  <2>1. \A i \in I : i \in Nat /\ flights[i] \in Offers
    OBVIOUS
  <2>2. ASSUME NEW f \in Offers PROVE Minutes(f) \in Nat
    <3>1. f.outbound \in Legs /\ f.return \in Legs
      BY DEF Offers
    <3>2. \A leg \in Legs : Parsed(leg) \in Nat
      BY DEF Legs, Parsed
    <3> QED
      BY <3>1, <3>2 DEF Minutes
  <2> QED
    BY <2>1, <2>2
<1>4. \A i, j \in I : <<i, j>> \in R <=> m(i) < m(j) \/ (i < j /\ ~(m(j) < m(i)))
  BY DEF Pairs
<1> HIDE DEF m, R
<1>5. IsOrder(R, I)
  BY <1>3, <1>4 DEF IsOrder
<1>6. Arranges(SortedFlights, flights, I, R)
  BY <1>2, <1>5, Arrangement
<1>7. PICK at \in [DOMAIN SortedFlights -> I] :
        /\ \A k \in DOMAIN SortedFlights : SortedFlights[k] = flights[at[k]]
        /\ \A k, l \in DOMAIN SortedFlights : k < l => <<at[k], at[l]>> \in R
  BY <1>6 DEF Arranges
<1>8. ASSUME NEW i \in DOMAIN SortedFlights, NEW j \in DOMAIN SortedFlights, i < j
      PROVE  m(at[i]) <= m(at[j])
  <2>1. at[i] \in I /\ at[j] \in I /\ <<at[i], at[j]>> \in R
    BY <1>7, <1>8
  <2> QED
    BY <1>3, <1>4, <2>1
<1> QED
  BY <1>7, <1>8 DEF m

(* Without an answer of another shape, the rows are those of the days, and *)
(* a flight in hours and minutes comes before a longer one.                *)
LEMMA AnswerIsShown == AnswerInv => AnswerShownWhole
<1> SUFFICES ASSUME AnswerInv PROVE AnswerShownWhole
  OBVIOUS
<1>1. Renders(Shown)
  BY NormalizedRaw, NormalizedAgain DEF AnswerInv, Shown
<1>2. ASSUME raw.shape # "other"
      PROVE  /\ Len(Shown.days) = Len(Dated)
             /\ \A i \in DOMAIN Dated :
                  /\ Shown.days[i].date = Dated[i].date
                  /\ Shown.days[i].celsius = High(Dated[i])
  <2>1. /\ Shown.days = [i \in DOMAIN Dated |-> Shown.days[i]]
        /\ \A i \in DOMAIN Dated :
             \E low \in {"-", Dated[i].min} : Shown.days[i] = Row(Dated[i], low)
    BY <1>1, <1>2 DEF Renders
  <2>2. Dated \in Seq(RawDays)
    BY DatedDays DEF AnswerInv
  <2>3. Len(Shown.days) = Len(Dated)
    BY <2>1, <2>2
  <2>4. \A i \in DOMAIN Dated : \A low :
          /\ Row(Dated[i], low).date = Dated[i].date
          /\ Row(Dated[i], low).celsius = High(Dated[i])
    BY DEF Row, RawDay
  <2> QED
    BY <2>1, <2>3, <2>4
<1>3. ASSUME NEW i \in DOMAIN SortedFlights, NEW j \in DOMAIN SortedFlights,
             option = "duration-asc", i < j,
             InHours(SortedFlights[i]), InHours(SortedFlights[j])
      PROVE  Length(SortedFlights[i]) <= Length(SortedFlights[j])
  <2>1. Minutes(SortedFlights[i]) <= Minutes(SortedFlights[j])
    BY <1>3, ShortestFirst DEF AnswerInv
  <2> QED
    BY <1>3, <2>1 DEF Minutes, Parsed, InHours, Length
<1> QED
  BY <1>2, <1>3 DEF AnswerShownWhole

(* The type of what is kept of an answer.                                  *)
LEMMA AnswerTyped == AnswerInv => AnswerTypeOK
<1> SUFFICES ASSUME AnswerInv PROVE AnswerTypeOK
  OBVIOUS
<1>1. Dated \in Seq(RawDays) /\ Len(Dated) \in 0..Len(raw.days) /\ Len(raw.days) \in Nat
      /\ raw.shape \in Containers
  BY DatedDays, ForecastDays DEF AnswerInv
<1>2. CASE held = raw
  BY <1>1, <1>2 DEF AnswerInv, AnswerTypeOK
<1>3. CASE Renders(held)
  <2>1. held.shape \in Containers
    BY <1>3 DEF Renders, Containers
  <2>2. Len(held.days) <= Len(raw.days)
    <3>1. CASE raw.shape = "other"
      BY <1>1, <1>3, <3>1 DEF Renders
    <3>2. CASE raw.shape # "other"
      <4>1. held.days = [i \in DOMAIN Dated |-> held.days[i]]
        BY <1>3, <3>2 DEF Renders
      <4>2. Len(held.days) = Len(Dated)
        BY <1>1, <4>1
      <4> QED
        BY <1>1, <4>2
    <3> QED
      BY <3>1, <3>2
  <2> QED
    BY <2>1, <2>2 DEF AnswerInv, AnswerTypeOK
<1> QED
  BY <1>2, <1>3 DEF AnswerInv

(* The fields of what is kept of an answer have their types.               *)
THEOREM AnswerTypeSafety == AnswerSpec => []AnswerTypeOK
<1>1. AnswerInv => AnswerTypeOK
  BY AnswerTyped
<1> QED
  BY <1>1, AnswerStarts, AnswerKept, PTL DEF AnswerSpec

(* Whatever becomes of an answer, it is shown whole.                       *)
THEOREM AnswersAreWhole == AnswerSpec => []AnswerShownWhole
<1>1. AnswerInv => AnswerShownWhole
  BY AnswerIsShown
<1> QED
  BY <1>1, AnswerStarts, AnswerKept, PTL DEF AnswerSpec

-----------------------------------------------------------------------------
(* The groups page.                                                        *)

(* Of a set of numbers, one is the least.                                  *)
LEMMA Least ==
  ASSUME NEW T, T \subseteq Nat, T # {}
  PROVE  \E x \in T : \A y \in T : ~(y < x)
<1> DEFINE R == OpToRel(<, Nat)
<1>1. IsWellFoundedOn(R, Nat)
  BY NatLessThanWellFounded
<1>2. \E x \in T : \A y \in T : ~(<<y, x>> \in R)
  <2> HIDE DEF R
  <2> QED
    BY <1>1, WFMin
<1> QED
  BY <1>2 DEF OpToRel

(* The elements of s at the places I, in their order.                      *)
Kept(s, I) == Arranged(s, I, {p \in Pairs(s) : p[1] < p[2]})

Picks(r, s, I) ==
  \E at \in [DOMAIN r -> I] :
    /\ \A k \in DOMAIN r : r[k] = s[at[k]]
    /\ \A i \in I : \E k \in DOMAIN r : at[k] = i
    /\ \A k, l \in DOMAIN r : at[k] = at[l] => k = l

(* What a filter keeps: each of those places once.                         *)
LEMMA FilteredPlaces ==
  ASSUME NEW S, NEW s \in Seq(S), NEW I \in SUBSET DOMAIN s
  PROVE  Kept(s, I) \in Seq(S) /\ Picks(Kept(s, I), s, I)
<1> DEFINE R == {p \in Pairs(s) : p[1] < p[2]}
           r == Kept(s, I)
<1>1. r = Arranged(s, I, R) /\ IsOrder(R, I)
  BY PlacesInOrder DEF Kept
<1> HIDE DEF R, r
<1>2. r \in Seq(S) /\ Arranges(r, s, I, R)
  BY <1>1, Arrangement
<1>3. PICK at \in [DOMAIN r -> I] :
        /\ \A k \in DOMAIN r : r[k] = s[at[k]]
        /\ \A i \in I : \E k \in DOMAIN r : at[k] = i
        /\ \A k, l \in DOMAIN r : k < l => <<at[k], at[l]>> \in R
  BY <1>2 DEF Arranges
<1>4. ASSUME NEW k \in DOMAIN r, NEW l \in DOMAIN r, at[k] = at[l] PROVE k = l
  <2>1. k \in Nat /\ l \in Nat
    BY <1>2
  <2>2. <<at[k], at[k]>> \notin R
    BY <1>1, <1>3 DEF IsOrder
  <2>3. ~(k < l) /\ ~(l < k)
    BY <1>3, <1>4, <2>2
  <2> QED
    BY <2>1, <2>3
<1>5. Picks(r, s, I)
  BY <1>3, <1>4 DEF Picks
<1> QED
  BY <1>2, <1>5 DEF r

-----------------------------------------------------------------------------
(* The list of the groups page.  A patch of one group leaves the others    *)
(* as they are on the page.                                                *)
Has(cards, g) == \E rev \in 1..MaxRevision : Shows(cards, g, rev)

Alike(cards, new, h) ==
  /\ Lacks(cards, h) => Lacks(new, h)
  /\ \A rev \in 1..MaxRevision : Shows(cards, h, rev) => Shows(new, h, rev)

Ids(cards) == {cards[i].id : i \in DOMAIN cards}

(* What DeleteHeard leaves of the list.                                    *)
LEMMA DroppedCard ==
  ASSUME NEW cards \in Seq(Cards), NEW g, NEW new, NEW I \in SUBSET DOMAIN cards,
         \A i \in DOMAIN cards : i \in I <=> cards[i].id # g, new = Kept(cards, I)
  PROVE  /\ new \in Seq(Cards) /\ Ids(new) \subseteq Ids(cards) /\ Lacks(new, g)
         /\ \A h \in Groups \ {g} : Alike(cards, new, h)
<1>2. new \in Seq(Cards) /\ Picks(new, cards, I)
  BY FilteredPlaces
<1>3. PICK at \in [DOMAIN new -> I] :
        /\ \A k \in DOMAIN new : new[k] = cards[at[k]]
        /\ \A i \in I : \E k \in DOMAIN new : at[k] = i
        /\ \A k, l \in DOMAIN new : at[k] = at[l] => k = l
  BY <1>2 DEF Picks
<1>4. \A i \in I : i \in DOMAIN cards /\ cards[i].id # g
  OBVIOUS
<1>5. \A i \in DOMAIN cards : cards[i].id # g => i \in I
  OBVIOUS
<1>6. ASSUME NEW k \in DOMAIN new
      PROVE  /\ at[k] \in DOMAIN cards /\ new[k] = cards[at[k]]
             /\ new[k].id # g /\ new[k].id \in Ids(cards)
  <2>1. at[k] \in I
    BY <1>3
  <2> QED
    BY <1>3, <1>4, <2>1 DEF Ids
<1>7. Ids(new) \subseteq Ids(cards)
  BY <1>6 DEF Ids
<1>8. ASSUME NEW h \in Groups \ {g} PROVE Alike(cards, new, h)
  <2>1. Lacks(cards, h) => Lacks(new, h)
    BY <1>6 DEF Lacks
  <2>2. ASSUME NEW rev \in 1..MaxRevision, Shows(cards, h, rev) PROVE Shows(new, h, rev)
    <3>1. PICK i \in DOMAIN cards :
            cards[i] = [id |-> h, rev |-> rev] /\ \A j \in DOMAIN cards : cards[j].id = h => j = i
      BY <2>2 DEF Shows
    <3>2. i \in I
      BY <1>5, <3>1
    <3>3. PICK k \in DOMAIN new : at[k] = i
      BY <1>3, <3>2
    <3>4. ASSUME NEW l \in DOMAIN new, new[l].id = h PROVE l = k
      <4>1. at[l] = i
        BY <1>6, <3>1, <3>4
      <4> QED
        BY <1>3, <3>3, <4>1
    <3> QED
      BY <1>6, <3>1, <3>3, <3>4 DEF Shows
  <2> QED
    BY <2>1, <2>2 DEF Alike
<1> QED
  BY <1>2, <1>6, <1>7, <1>8 DEF Lacks

(* What CreateHeard makes of the list.                                     *)
LEMMA PrependedCard ==
  ASSUME NEW cards \in Seq(Cards), NEW g \in Groups, NEW rev \in 1..MaxRevision, NEW new,
         new = Card(g, rev) \o cards
  PROVE  /\ new \in Seq(Cards) /\ Ids(new) \subseteq Ids(cards) \cup {g}
         /\ Lacks(cards, g) => Shows(new, g, rev)
         /\ \A h \in Groups \ {g} : Alike(cards, new, h)
<1> DEFINE n == Len(cards)
<1>1. n \in Nat /\ DOMAIN cards = 1..n
  OBVIOUS
<1>2. /\ Card(g, rev) \in Seq(Cards) /\ Len(Card(g, rev)) = 1
      /\ Card(g, rev)[1] = [id |-> g, rev |-> rev]
  BY DEF Card, Cards
<1>3. /\ new \in Seq(Cards) /\ Len(new) = 1 + n
      /\ \A k \in 1..(1 + n) : new[k] = IF k <= 1 THEN Card(g, rev)[k] ELSE cards[k - 1]
  <2> DEFINE a == Card(g, rev)
  <2>1. a \in Seq(Cards) /\ Len(a) = 1 /\ new = a \o cards
    BY <1>2
  <2> HIDE DEF a
  <2>2. /\ a \o cards \in Seq(Cards) /\ Len(a \o cards) = Len(a) + Len(cards)
        /\ \A k \in 1..(Len(a) + Len(cards)) :
             (a \o cards)[k] = IF k <= Len(a) THEN a[k] ELSE cards[k - Len(a)]
    BY <2>1, ConcatProperties
  <2> QED
    BY <2>1, <2>2 DEF a
<1> HIDE DEF n
<1>4. DOMAIN new = 1..(1 + n) /\ new[1] = [id |-> g, rev |-> rev] /\ new[1].id = g
  BY <1>1, <1>2, <1>3
<1>5. ASSUME NEW k \in DOMAIN new, k # 1 PROVE k - 1 \in 1..n /\ new[k] = cards[k - 1]
  BY <1>1, <1>3, <1>4, <1>5
<1>6. ASSUME NEW i \in 1..n PROVE i + 1 \in DOMAIN new /\ new[i + 1] = cards[i]
  <2>1. i + 1 \in 1..(1 + n) /\ ~(i + 1 <= 1) /\ (i + 1) - 1 = i
    BY <1>1
  <2> QED
    BY <1>3, <1>4, <2>1
<1>7. Ids(new) \subseteq Ids(cards) \cup {g}
  <2> SUFFICES ASSUME NEW k \in DOMAIN new PROVE new[k].id \in Ids(cards) \cup {g}
    BY DEF Ids
  <2> QED
    BY <1>1, <1>4, <1>5 DEF Ids
<1>8. ASSUME Lacks(cards, g) PROVE Shows(new, g, rev)
  <2>1. \A k \in DOMAIN new : new[k].id = g => k = 1
    BY <1>1, <1>5, <1>8 DEF Lacks
  <2>2. 1 \in DOMAIN new
    BY <1>1, <1>4
  <2> QED
    BY <1>4, <2>1, <2>2 DEF Shows
<1>9. ASSUME NEW h \in Groups \ {g} PROVE Alike(cards, new, h)
  <2>1. ASSUME Lacks(cards, h) PROVE Lacks(new, h)
    BY <1>1, <1>4, <1>5, <2>1 DEF Lacks
  <2>2. ASSUME NEW r \in 1..MaxRevision, Shows(cards, h, r) PROVE Shows(new, h, r)
    <3>1. PICK i \in 1..n :
            cards[i] = [id |-> h, rev |-> r] /\ \A j \in 1..n : cards[j].id = h => j = i
      BY <1>1, <2>2 DEF Shows
    <3>2. ASSUME NEW l \in DOMAIN new, new[l].id = h PROVE l = i + 1
      <4>1. l # 1
        BY <1>4, <3>2
      <4>2. l - 1 \in 1..n /\ new[l] = cards[l - 1]
        BY <1>5, <4>1
      <4>3. l - 1 = i
        BY <3>1, <3>2, <4>2
      <4> QED
        BY <1>1, <1>4, <4>3
    <3>3. i + 1 \in DOMAIN new /\ new[i + 1] = [id |-> h, rev |-> r]
      BY <1>6, <3>1
    <3> QED
      BY <3>2, <3>3 DEF Shows
  <2> QED
    BY <2>1, <2>2 DEF Alike
<1> QED
  BY <1>3, <1>7, <1>8, <1>9

(* What InviteHeard makes of the list.                                     *)
LEMMA PatchedCard ==
  ASSUME NEW cards \in Seq(Cards), NEW g \in Groups, NEW rev \in 1..MaxRevision, NEW new,
         new = [i \in DOMAIN cards |->
                  IF cards[i].id = g THEN [id |-> g, rev |-> rev] ELSE cards[i]]
  PROVE  /\ new \in Seq(Cards) /\ Ids(new) \subseteq Ids(cards)
         /\ Has(cards, g) => Shows(new, g, rev)
         /\ Lacks(cards, g) => Lacks(new, g)
         /\ \A h \in Groups \ {g} : Alike(cards, new, h)
<1>1. DOMAIN new = DOMAIN cards /\ DOMAIN cards = 1..Len(cards) /\ Len(cards) \in Nat
  OBVIOUS
<1>2. ASSUME NEW i \in DOMAIN cards
      PROVE  /\ new[i].id = cards[i].id /\ new[i] \in Cards
             /\ cards[i].id = g => new[i] = [id |-> g, rev |-> rev]
             /\ cards[i].id # g => new[i] = cards[i]
  <2>1. cards[i] \in Cards
    OBVIOUS
  <2> QED
    BY <2>1 DEF Cards
<1>3. new \in Seq(Cards)
  <2>1. new \in [1..Len(cards) -> Cards]
    BY <1>1, <1>2
  <2> QED
    BY <1>1, <2>1
<1>4. Ids(new) \subseteq Ids(cards)
  BY <1>1, <1>2 DEF Ids
<1>5. \A h : Lacks(cards, h) => Lacks(new, h)
  BY <1>1, <1>2 DEF Lacks
<1>6. ASSUME Has(cards, g) PROVE Shows(new, g, rev)
  <2>1. PICK r \in 1..MaxRevision : Shows(cards, g, r)
    BY <1>6 DEF Has
  <2>2. PICK i \in DOMAIN cards :
          cards[i] = [id |-> g, rev |-> r] /\ \A j \in DOMAIN cards : cards[j].id = g => j = i
    BY <2>1 DEF Shows
  <2>3. cards[i].id = g
    BY <2>2
  <2> QED
    BY <1>1, <1>2, <2>2, <2>3 DEF Shows
<1>7. ASSUME NEW h \in Groups \ {g} PROVE Alike(cards, new, h)
  <2>1. ASSUME NEW r \in 1..MaxRevision, Shows(cards, h, r) PROVE Shows(new, h, r)
    <3>1. PICK i \in DOMAIN cards :
            cards[i] = [id |-> h, rev |-> r] /\ \A j \in DOMAIN cards : cards[j].id = h => j = i
      BY <2>1 DEF Shows
    <3>2. cards[i].id # g
      BY <3>1
    <3> QED
      BY <1>1, <1>2, <3>1, <3>2 DEF Shows
  <2> QED
    BY <1>5, <2>1 DEF Alike
<1> QED
  BY <1>3, <1>4, <1>5, <1>6, <1>7

(* The answer of a load shows each visible group once, as it is.           *)
LEMMA ListedTells ==
  ASSUME GroupsTypeOK
  PROVE  /\ Listed \in Seq(Cards)
         /\ \A g \in Ids(Listed) : group[g].rev > 0
         /\ \A g \in Groups : Tells(Listed, g)
<1> DEFINE s == [i \in Groups |-> MaxGroups + 1 - i]
           I == {i \in DOMAIN s : group[s[i]].rev > 0}
<1>1. s \in Seq(Groups) /\ DOMAIN s = Groups /\ \A i \in Groups : s[i] = MaxGroups + 1 - i
  <2>1. \A i \in Groups : MaxGroups + 1 - i \in Groups
    BY GroupsAssumption DEF Groups
  <2>2. s \in [1..MaxGroups -> Groups]
    BY <2>1 DEF Groups
  <2> QED
    BY <2>2, GroupsAssumption DEF Groups
<1>2. \A g \in Groups : \E i \in Groups : s[i] = g
  <2> SUFFICES ASSUME NEW g \in Groups PROVE \E i \in Groups : s[i] = g
    OBVIOUS
  <2>1. MaxGroups + 1 - g \in Groups /\ MaxGroups + 1 - (MaxGroups + 1 - g) = g
    BY GroupsAssumption DEF Groups
  <2> QED
    BY <1>1, <2>1
<1>3. \A i, j \in Groups : s[i] = s[j] => i = j
  BY <1>1, GroupsAssumption DEF Groups
<1>4. Visible = Kept(s, I)
  BY DEF Visible, Filter, Kept
<1> HIDE DEF s
<1>5. Visible \in Seq(Groups) /\ Picks(Visible, s, I)
  BY <1>1, <1>4, FilteredPlaces
<1>6. PICK at \in [DOMAIN Visible -> I] :
        /\ \A k \in DOMAIN Visible : Visible[k] = s[at[k]]
        /\ \A i \in I : \E k \in DOMAIN Visible : at[k] = i
        /\ \A k, l \in DOMAIN Visible : at[k] = at[l] => k = l
  BY <1>5 DEF Picks
<1> HIDE DEF I
<1>7. /\ \A k \in DOMAIN Visible : group[Visible[k]].rev > 0
      /\ \A g \in Groups : group[g].rev > 0 => \E k \in DOMAIN Visible : Visible[k] = g
      /\ \A k, l \in DOMAIN Visible : Visible[k] = Visible[l] => k = l
  <2>1. \A i \in I : i \in Groups /\ group[s[i]].rev > 0
    BY <1>1 DEF I
  <2>2. \A i \in Groups : group[s[i]].rev > 0 => i \in I
    BY <1>1 DEF I
  <2>3. \A k \in DOMAIN Visible : at[k] \in I
    BY <1>6
  <2>4. \A k \in DOMAIN Visible : group[Visible[k]].rev > 0 /\ at[k] \in Groups
    BY <1>6, <2>1, <2>3
  <2>5. ASSUME NEW g \in Groups, group[g].rev > 0 PROVE \E k \in DOMAIN Visible : Visible[k] = g
    <3>1. PICK i \in Groups : s[i] = g
      BY <1>2
    <3>2. PICK k \in DOMAIN Visible : at[k] = i
      BY <1>6, <2>2, <2>5, <3>1
    <3> QED
      BY <1>6, <3>1, <3>2
  <2>6. ASSUME NEW k \in DOMAIN Visible, NEW l \in DOMAIN Visible, Visible[k] = Visible[l]
        PROVE  k = l
    <3>1. s[at[k]] = s[at[l]] /\ at[k] \in Groups /\ at[l] \in Groups
      BY <1>6, <2>4, <2>6
    <3>2. at[k] = at[l]
      BY <1>3, <3>1
    <3> QED
      BY <1>6, <3>2
  <2> QED
    BY <2>4, <2>5, <2>6
<1>8. \A g \in Groups : group[g].rev \in 0..MaxRevision
  BY DEF GroupsTypeOK
<1>9. /\ DOMAIN Listed = DOMAIN Visible
      /\ \A k \in DOMAIN Visible : Listed[k] = [id |-> Visible[k], rev |-> group[Visible[k]].rev]
  BY DEF Listed
<1>10. \A k \in DOMAIN Visible : Visible[k] \in Groups
  BY <1>5
<1>11. \A k \in DOMAIN Visible : Listed[k] \in Cards
  BY <1>7, <1>8, <1>9, <1>10 DEF Cards
<1>12. Listed \in Seq(Cards)
  <2>1. Listed = [k \in DOMAIN Visible |-> Listed[k]]
    BY <1>9 DEF Listed
  <2>2. DOMAIN Visible = 1..Len(Visible) /\ Len(Visible) \in Nat
    BY <1>5
  <2>3. Listed \in [1..Len(Visible) -> Cards]
    BY <1>11, <2>1, <2>2
  <2> QED
    BY <2>2, <2>3
<1>13. \A g \in Ids(Listed) : group[g].rev > 0
  BY <1>7, <1>9 DEF Ids
<1>14. ASSUME NEW g \in Groups PROVE Tells(Listed, g)
  <2>1. CASE group[g].rev > 0
    <3>1. PICK k \in DOMAIN Visible : Visible[k] = g
      BY <1>7, <2>1
    <3>2. \A l \in DOMAIN Visible : Listed[l].id = g => l = k
      BY <1>7, <1>9, <3>1
    <3> QED
      BY <1>9, <2>1, <3>1, <3>2 DEF Tells, Shows
  <2>2. CASE ~(group[g].rev > 0)
    <3>1. \A l \in DOMAIN Visible : Listed[l].id # g
      BY <1>7, <1>9, <2>2
    <3> QED
      BY <1>9, <2>2, <3>1 DEF Tells, Lacks
  <2> QED
    BY <2>1, <2>2
<1> QED
  BY <1>12, <1>13, <1>14

-----------------------------------------------------------------------------
(* The inductive invariant.  Pending: request k about g is under way;      *)
(* Due: its answer is there, and the page has yet to hear it.              *)
Pending(k, g) == req[k].leg # "idle" /\ req[k].g = g
Due(k, g)     == req[k].leg = "served" /\ req[k].g = g

(* The requests that may change group g.                                   *)
About(g) == {ToCreate, ToJoin, ToInvite(g), ToDelete(g)}

(* Unused ids are nobody's, and not on the page or on its way there.       *)
UsageOK ==
  /\ \A g \in Groups : ~group[g].used => group[g].rev = 0 /\ group[g].mine
  /\ \A g \in Ids(list.cards) : group[g].used
  /\ \A k \in Loads : \A g \in Ids(req[k].answer) : group[g].used

(* What is known of a request and of the group that it is about.           *)
RequestOK(k) ==
  req[k].leg # "idle" =>
    /\ req[k].g \in Groups
    /\ k \in Changes => (group[req[k].g].mine <=> k # ToJoin)
    /\ k = ToCreate /\ req[k].leg = "sent" => ~group[req[k].g].used
    /\ k = ToCreate /\ req[k].leg = "served" =>
         group[req[k].g].used /\ req[k].answer = Card(req[k].g, 1)
    /\ k \in Invites \cup Deletes => group[req[k].g].used
    /\ k \in Invites => k = ToInvite(req[k].g)
    /\ k \in Deletes => k = ToDelete(req[k].g)
    /\ k \in Invites /\ req[k].leg = "served" =>
         \E rev \in 1..MaxRevision : req[k].answer = Card(req[k].g, rev)

(* What a load brings is true of the groups that it does not doubt, and    *)
(* no request of the page is about one of them.                            *)
LoadOK(k) ==
  req[k].leg \in {"sent", "served"} =>
    \A g \in Groups \ req[k].over :
      g \notin Changing(req) /\ (req[k].leg = "served" => Tells(req[k].answer, g))

(* Between the answer to a change and the patch that it makes, the page is *)
(* behind by that patch.                                                   *)
Right(g) ==
  \/ Due(ToJoin, g)
  \/ Due(ToDelete(g), g) /\ group[g].rev = 0 /\ ~Pending(ToCreate, g)
  \/ /\ Due(ToCreate, g) /\ group[g].rev = 1 /\ Lacks(list.cards, g)
     /\ ~Pending(ToInvite(g), g) /\ ~Pending(ToDelete(g), g)
  \/ /\ Due(ToInvite(g), g) /\ ~Pending(ToCreate, g) /\ (Due(ToDelete(g), g) => group[g].rev = 0)
     /\ IF group[g].rev > 0
        THEN Has(list.cards, g) /\ req[ToInvite(g)].answer = Card(g, group[g].rev)
        ELSE Lacks(list.cards, g)
  \/ /\ Tells(list.cards, g) /\ (\A k \in About(g) : ~Due(k, g))
     /\ Pending(ToCreate, g) => req[ToCreate].leg = "sent"

Unmounted == sent = 0 /\ ~list.loaded /\ \A k \in Kinds : req[k].leg = "idle"
Settled   == Unmounted \/ Loading \/ \A g \in Groups \ doubt : Right(g)

GroupsInv ==
  /\ GroupsTypeOK /\ UsageOK /\ Settled
  /\ \A k \in Kinds \ Loads : RequestOK(k)
  /\ \A k \in Loads : LoadOK(k)

(* The kinds of requests.                                                  *)
LEMMA KindFacts ==
  /\ Kinds \ Loads = Changes \cup {ToShare} /\ Changes \subseteq Kinds /\ Loads \subseteq Kinds
  /\ Changes \cap Loads = {} /\ ToShare \notin Loads /\ ToShare \notin Changes
  /\ Changes = {ToCreate, ToJoin} \cup Invites \cup Deletes /\ Loads = {ToLoad, ToLoadAgain}
  /\ ToCreate # ToJoin /\ Invites \cap Deletes = {}
  /\ \A k \in Invites \cup Deletes : k # ToCreate /\ k # ToJoin
BY DEF Kinds, Changes, Loads, Invites, Deletes, ToLoad, ToLoadAgain, ToCreate, ToJoin, ToShare,
   ToInvite, ToDelete

(* The requests of one card.                                               *)
LEMMA CardFacts ==
  ASSUME NEW g \in Groups
  PROVE  /\ ToInvite(g) \in Invites /\ ToDelete(g) \in Deletes /\ About(g) \subseteq Changes
         /\ ToInvite(g) \in Changes /\ ToDelete(g) \in Changes
         /\ ToInvite(g) \in Kinds \ Loads /\ ToDelete(g) \in Kinds \ Loads
         /\ ToCreate # ToJoin /\ ToInvite(g) # ToDelete(g)
         /\ ToInvite(g) \notin {ToCreate, ToJoin} /\ ToDelete(g) \notin {ToCreate, ToJoin}
         /\ \A h : (ToInvite(g) = ToInvite(h) \/ ToDelete(g) = ToDelete(h)) => g = h
BY DEF Kinds, Loads, Changes, Invites, Deletes, About, ToLoad, ToLoadAgain, ToCreate, ToJoin,
   ToInvite, ToDelete

(* What the types say of a request and of a group.                         *)
LEMMA GroupsFacts ==
  ASSUME GroupsTypeOK
  PROVE  /\ \A k \in Kinds : /\ req[k] \in Calls /\ req[k].g \in {0} \cup Groups
                             /\ req[k].leg \in {"idle", "sent", "served", "failed"}
                             /\ req[k].answer \in Seq(Cards) /\ req[k].over \subseteq Groups
         /\ \A g \in Groups : /\ group[g].rev \in 0..MaxRevision /\ group[g].mine \in BOOLEAN
                              /\ group[g].used \in BOOLEAN
         /\ DOMAIN req = Kinds /\ DOMAIN group = Groups
         /\ list.cards \in Seq(Cards) /\ list.loaded \in BOOLEAN
         /\ Groups \subseteq Nat \ {0} /\ Idle \in Calls
BY DEF GroupsTypeOK, Calls, Groups, Idle

(* The groups of the cards of a list.                                      *)
LEMMA IdsAreGroups ==
  ASSUME NEW cards \in Seq(Cards)
  PROVE  Ids(cards) \subseteq Groups
<1>1. \A i \in DOMAIN cards : cards[i] \in Cards
  OBVIOUS
<1> QED
  BY <1>1 DEF Ids, Cards

(* Nothing is under way, and the page is not there yet.                    *)
LEMMA GroupsStart == GroupsInit => GroupsInv
<1> SUFFICES ASSUME GroupsInit PROVE GroupsInv
  OBVIOUS
<1>1. PICK r \in {0, 1} :
        group = [g \in Groups |-> [rev |-> IF g = 1 THEN 1 ELSE IF g = 2 THEN r ELSE 0,
                                   mine |-> g # 2, used |-> g <= 2]]
  BY DEF GroupsInit
<1>2. /\ req = [k \in Kinds |-> Idle] /\ list = [loaded |-> FALSE, cards |-> <<>>]
      /\ share = 0 /\ doubt = {} /\ sent = 0 /\ mishaps = 0
  BY DEF GroupsInit
<1>3. Idle \in Calls /\ Idle.leg = "idle" /\ Idle.answer = <<>>
  BY DEF Idle, Calls
<1>4. \A k \in Kinds : req[k] = Idle
  BY <1>2
<1>5. \A g \in Groups : /\ group[g].rev = (IF g = 1 THEN 1 ELSE IF g = 2 THEN r ELSE 0)
                        /\ group[g].mine = (g # 2) /\ group[g].used = (g <= 2)
                        /\ g <= 2 => group[g].used
  BY <1>1
<1>6. GroupsTypeOK
  <2>1. ASSUME NEW g \in Groups
        PROVE  group[g] \in [rev : 0..MaxRevision, mine : BOOLEAN, used : BOOLEAN]
    <3>1. (IF g = 1 THEN 1 ELSE IF g = 2 THEN r ELSE 0) \in 0..MaxRevision
      BY GroupsAssumption
    <3>2. (g # 2) \in BOOLEAN /\ (g <= 2) \in BOOLEAN
      BY DEF Groups
    <3> QED
      BY <1>1, <3>1, <3>2
  <2>2. group \in [Groups -> [rev : 0..MaxRevision, mine : BOOLEAN, used : BOOLEAN]]
    BY <1>1, <2>1
  <2>3. req \in [Kinds -> Calls] /\ list \in [loaded : BOOLEAN, cards : Seq(Cards)]
    BY <1>2, <1>3
  <2> QED
    BY <1>2, <2>2, <2>3, GroupsAssumption DEF GroupsTypeOK
<1>7. UsageOK
  <2>1. \A g \in Groups : ~group[g].used => group[g].rev = 0 /\ group[g].mine
    <3> SUFFICES ASSUME NEW g \in Groups, ~group[g].used PROVE group[g].rev = 0 /\ group[g].mine
      OBVIOUS
    <3>1. ~(g <= 2) /\ g \in Nat
      BY <1>5 DEF Groups
    <3>2. g # 1 /\ g # 2
      BY <3>1
    <3> QED
      BY <1>5, <3>2
  <2>2. Ids(list.cards) = {} /\ \A k \in Loads : Ids(req[k].answer) = {}
    BY <1>2, <1>3, <1>4, KindFacts DEF Ids
  <2> QED
    BY <2>1, <2>2 DEF UsageOK
<1>8. \A k \in Kinds : req[k].leg = "idle"
  BY <1>3, <1>4
<1> QED
  BY <1>2, <1>6, <1>7, <1>8, KindFacts DEF GroupsInv, Settled, Unmounted, RequestOK, LoadOK

-----------------------------------------------------------------------------
(* What a step leaves as it was.  A request that stays, that is or will be *)
(* over, or that fails, goes on satisfying what is known of it.            *)
LEMMA RequestLasts ==
  ASSUME GroupsTypeOK, NEW k \in Kinds \ Loads, RequestOK(k),
         \/ req'[k] = req[k]
         \/ req'[k].leg = "idle"
         \/ req'[k].leg = "failed" /\ req'[k].g = req[k].g /\ req[k].leg # "idle",
         \A g \in Groups : /\ group'[g].mine = group[g].mine
                           /\ group[g].used => group'[g].used
                           /\ k = ToCreate => group'[g].used = group[g].used
  PROVE  RequestOK(k)'
BY DEF RequestOK

(* A load that doubts whatever changes.                                    *)
Spared(k, g) == req'[k].leg \in {"sent", "served"} => g \in req'[k].over

(* A load stays right about the groups that it does not doubt when         *)
(* whatever changes becomes doubted by it.                                 *)
LEMMA LoadLasts ==
  ASSUME NEW k \in Loads, LoadOK(k),
         req'[k].leg \in {"sent", "served"} =>
           /\ req'[k].leg = req[k].leg /\ req'[k].answer = req[k].answer
           /\ req[k].over \subseteq req'[k].over,
         \A g \in Groups : group'[g].rev = group[g].rev \/ Spared(k, g),
         \A c \in Changes : req'[c].leg # "idle" =>
           (req[c].leg # "idle" /\ req'[c].g = req[c].g) \/ Spared(k, req'[c].g)
  PROVE  LoadOK(k)'
<1> SUFFICES ASSUME req'[k].leg \in {"sent", "served"}, NEW g \in Groups \ req'[k].over
             PROVE  /\ g \notin Changing(req')
                    /\ req'[k].leg = "served" => Tells(req[k].answer, g)'
  BY DEF LoadOK
<1>1. ~Spared(k, g) /\ g \in Groups \ req[k].over /\ req[k].leg = req'[k].leg
  BY DEF Spared
<1>2. g \notin Changing(req) /\ (req[k].leg = "served" => Tells(req[k].answer, g))
  BY <1>1 DEF LoadOK
<1>3. g \notin Changing(req')
  BY <1>1, <1>2 DEF Changing
<1>4. req'[k].leg = "served" => Tells(req[k].answer, g)'
  BY <1>1, <1>2 DEF Tells, Shows, Lacks
<1> QED
  BY <1>3, <1>4

(* A load that is sent doubts whatever is changing.                        *)
LEMMA NewLoad ==
  ASSUME NEW reqs, NEW k \in Loads, \A c \in Changes : req'[c] = reqs[c],
         req'[k] = SentLoad(reqs)
  PROVE  LoadOK(k)'
<1>1. req'[k].leg = "sent" /\ req'[k].over = Changing(reqs)
  BY DEF SentLoad, Idle
<1>2. Changing(req') = Changing(reqs)
  BY DEF Changing
<1> QED
  BY <1>1, <1>2 DEF LoadOK

(* What happens to request k means nothing to g.                           *)
Calm(k, g) ==
  \/ req'[k] = req[k]
  \/ ~Pending(k, g) /\ ~Pending(k, g)'
  \/ /\ Pending(k, g) /\ ~Due(k, g)
     /\ req'[k].leg = "idle" \/ (k # ToCreate /\ Pending(k, g)' /\ ~Due(k, g)')

(* What happens to other groups leaves the page as right about this one    *)
(* as it was.                                                              *)
LEMMA RightLasts ==
  ASSUME GroupsTypeOK, NEW g \in Groups, Right(g), \A k \in Changes : Calm(k, g),
         group'[g].rev = group[g].rev, Alike(list.cards, list'.cards, g)
  PROVE  Right(g)'
<1>0. About(g) \subseteq Changes /\ {ToCreate, ToInvite(g), ToDelete(g), ToJoin} \subseteq Changes
  BY CardFacts, KindFacts
<1>1. \A k \in Changes : /\ Due(k, g)' <=> Due(k, g)
                         /\ Pending(k, g)' => Pending(k, g)
                         /\ Due(k, g) => req'[k].answer = req[k].answer
  BY DEF Calm, Due, Pending
<1>2. Pending(ToCreate, g)' /\ req[ToCreate].leg = "sent" => req'[ToCreate].leg = "sent"
  BY <1>0 DEF Calm, Due, Pending
<1>3. group[g].rev \in 0..MaxRevision
  BY GroupsFacts
<1>4. /\ Lacks(list.cards, g) => Lacks(list'.cards, g)
      /\ Has(list.cards, g) => Has(list'.cards, g)
      /\ group[g].rev > 0 /\ Shows(list.cards, g, group[g].rev)
           => Shows(list'.cards, g, group[g].rev)
  BY <1>3, GroupsAssumption DEF Alike, Has
<1>5. Tells(list.cards, g) => Tells(list.cards, g)'
  BY <1>4 DEF Tells, Shows, Lacks
<1>6. /\ Due(ToJoin, g)' <=> Due(ToJoin, g)
      /\ Due(ToDelete(g), g)' <=> Due(ToDelete(g), g)
      /\ Due(ToCreate, g)' <=> Due(ToCreate, g)
      /\ Due(ToInvite(g), g)' <=> Due(ToInvite(g), g)
      /\ \A k \in {ToCreate, ToInvite(g), ToDelete(g)} : Pending(k, g)' => Pending(k, g)
      /\ Due(ToInvite(g), g) => req'[ToInvite(g)].answer = req[ToInvite(g)].answer
  BY <1>0, <1>1
<1>7. (\A k \in About(g) : ~Due(k, g)) => \A k \in About(g) : ~Due(k, g)'
  BY <1>0, <1>1
<1> QED
  BY <1>2, <1>4, <1>5, <1>6, <1>7 DEF Right, Lacks, Has, Shows

(* The list is as it was.                                                  *)
LEMMA AlikeSame ==
  ASSUME NEW cards, NEW g
  PROVE  Alike(cards, cards, g)
BY DEF Alike

(* Groups stay used, and only those that are used get members.             *)
LEMMA UsageLasts ==
  ASSUME UsageOK, GroupsTypeOK, GroupsTypeOK',
         \A g \in Groups : /\ group[g].used => group'[g].used
                           /\ group'[g].used \/ group'[g] = group[g],
         \A g \in Ids(list'.cards) : g \in Ids(list.cards) \/ group'[g].used,
         \A k \in Loads : \A g \in Ids(req'[k].answer) : g \in Ids(req[k].answer) \/ group[g].used
  PROVE  UsageOK'
<1>1. Ids(list.cards) \subseteq Groups /\ \A k \in Loads : Ids(req[k].answer) \subseteq Groups
  BY GroupsFacts, IdsAreGroups, KindFacts
<1>2. list'.cards \in Seq(Cards) /\ \A k \in Loads : req'[k].answer \in Seq(Cards)
  BY KindFacts DEF GroupsTypeOK, Calls
<1>3. Ids(list'.cards) \subseteq Groups /\ \A k \in Loads : Ids(req'[k].answer) \subseteq Groups
  BY <1>2, IdsAreGroups
<1>4. /\ \A g \in Ids(list'.cards) : group'[g].used
      /\ \A k \in Loads : \A g \in Ids(req'[k].answer) : group'[g].used
      /\ \A g \in Groups : ~group'[g].used => group'[g].rev = 0 /\ group'[g].mine
  BY <1>1, <1>3 DEF UsageOK
<1> QED
  BY <1>4 DEF UsageOK, Ids

(* A step about one group, by the request that is about it.                *)
LEMMA OneGroup ==
  ASSUME GroupsInv, GroupsTypeOK', NEW k \in Kinds \ Loads, NEW g \in Groups,
         req[k].leg # "idle", req[k].g = g,
         req'[k].leg = "idle" \/ req'[k].g = g,
         \A c \in Kinds \ {k} : req'[c] = req[c],
         \A h \in Groups \ {g} : group'[h] = group[h] /\ Alike(list.cards, list'.cards, h),
         group'[g].mine = group[g].mine, group[g].used => group'[g].used,
         group'[g] = group[g] \/ (k \in Changes /\ group'[g].used),
         k # ToCreate => group'[g].used = group[g].used,
         Ids(list'.cards) \subseteq Ids(list.cards) \cup {g},
         g \in Ids(list'.cards) => g \in Ids(list.cards) \/ group'[g].used,
         RequestOK(k)', Right(g) => Right(g)', doubt' = doubt
  PROVE  GroupsInv'
<1>0. GroupsTypeOK /\ UsageOK /\ Settled /\ k \in Kinds /\ k \notin Loads
  BY DEF GroupsInv
<1>1. \A h \in Groups : /\ group'[h].mine = group[h].mine
                        /\ group[h].used => group'[h].used
                        /\ k # ToCreate => group'[h].used = group[h].used
                        /\ group'[h].used \/ group'[h] = group[h]
  OBVIOUS
<1>2. ASSUME NEW c \in Kinds \ Loads PROVE RequestOK(c)'
  <2>1. CASE c = k
    BY <2>1
  <2>2. CASE c # k /\ c # ToCreate
    <3>1. req'[c] = req[c] /\ RequestOK(c)
      BY <2>2 DEF GroupsInv
    <3> QED
      BY <1>0, <1>1, <2>2, <3>1, RequestLasts
  <2>3. CASE c # k /\ c = ToCreate
    <3>1. req'[c] = req[c] /\ RequestOK(c)
      BY <2>3 DEF GroupsInv
    <3>2. \A h \in Groups : group'[h].used = group[h].used
      BY <1>1, <2>3
    <3> QED
      BY <1>0, <1>1, <3>1, <3>2, RequestLasts
  <2> QED
    BY <2>1, <2>2, <2>3
<1>3. ASSUME NEW l \in Loads PROVE LoadOK(l)'
  <2>1. req'[l] = req[l] /\ LoadOK(l)
    BY <1>0, KindFacts DEF GroupsInv
  <2>2. ASSUME NEW h \in Groups PROVE group'[h].rev = group[h].rev \/ Spared(l, h)
    <3>1. CASE h # g \/ group'[g] = group[g]
      BY <3>1
    <3>2. CASE h = g /\ k \in Changes
      <4>1. g \in Changing(req)
        BY <3>2 DEF Changing
      <4> QED
        BY <2>1, <3>2, <4>1 DEF LoadOK, Spared
    <3> QED
      BY <3>1, <3>2
  <2>3. \A c \in Changes : req'[c].leg # "idle" => req[c].leg # "idle" /\ req'[c].g = req[c].g
    BY KindFacts
  <2> QED
    BY <2>1, <2>2, <2>3, LoadLasts
<1>4. UsageOK'
  <2>1. \A h \in Ids(list'.cards) : h \in Ids(list.cards) \/ group'[h].used
    OBVIOUS
  <2>2. \A l \in Loads : \A h \in Ids(req'[l].answer) : h \in Ids(req[l].answer)
    BY <1>0, KindFacts
  <2> QED
    BY <1>0, <1>1, <2>1, <2>2, UsageLasts
<1>5. Settled'
  <2>1. ~Unmounted
    BY DEF Unmounted
  <2>2. CASE Loading
    BY <1>0, <2>2, KindFacts DEF Settled, Loading
  <2>3. CASE \A h \in Groups \ doubt : Right(h)
    <3>1. ASSUME NEW h \in Groups \ doubt PROVE Right(h)'
      <4>1. CASE h = g
        BY <2>3, <4>1
      <4>2. CASE h # g
        <5>1. \A c \in Changes : Calm(c, h)
          BY <4>2, KindFacts DEF Calm, Pending
        <5> QED
          BY <1>0, <2>3, <4>2, <5>1, RightLasts
      <4> QED
        BY <4>1, <4>2
    <3> QED
      BY <3>1 DEF Settled
  <2> QED
    BY <1>0, <2>1, <2>2, <2>3 DEF Settled
<1> QED
  BY <1>2, <1>3, <1>4, <1>5 DEF GroupsInv

(* A step after which the groups gs are in doubt, also for every load that *)
(* is under way.                                                           *)
LEMMA InDoubt ==
  ASSUME GroupsInv, GroupsTypeOK', NEW gs \in SUBSET Groups,
         doubt' = doubt \cup gs, list' = list, sent' = sent,
         \A h \in Groups : /\ group'[h].mine = group[h].mine /\ group'[h].used = group[h].used
                           /\ group'[h] = group[h] \/ (h \in gs /\ group[h].used),
         \A c \in Kinds \ Loads :
           \/ req'[c] = req[c]
           \/ /\ req'[c].leg = "failed" /\ req'[c].g = req[c].g /\ req[c].leg # "idle"
              /\ c \in Changes => req[c].g \in gs,
         \A l \in Loads :
           /\ req'[l].answer = req[l].answer /\ req[l].over \subseteq req'[l].over
           /\ \/ req'[l].leg = req[l].leg /\ \A h \in gs : Spared(l, h)
              \/ req[l].leg # "idle" /\ req'[l].leg = "failed"
  PROVE  GroupsInv'
<1>0. GroupsTypeOK /\ UsageOK /\ Settled
  BY DEF GroupsInv
<1>2. ASSUME NEW c \in Kinds \ Loads PROVE RequestOK(c)'
  <2>1. RequestOK(c)
    BY DEF GroupsInv
  <2>2. \A h \in Groups : /\ group'[h].mine = group[h].mine
                          /\ group[h].used => group'[h].used
                          /\ c = ToCreate => group'[h].used = group[h].used
    OBVIOUS
  <2> QED
    BY <1>0, <2>1, <2>2, RequestLasts
<1>3. ASSUME NEW l \in Loads PROVE LoadOK(l)'
  <2>1. LoadOK(l)
    BY DEF GroupsInv
  <2>2. CASE req'[l].leg = "failed"
    BY <2>2 DEF LoadOK
  <2>3. CASE req'[l].leg = req[l].leg /\ \A h \in gs : Spared(l, h)
    <3>1. \A h \in Groups : group'[h].rev = group[h].rev \/ Spared(l, h)
      BY <2>3
    <3>2. \A c \in Changes : req'[c].leg # "idle" => req[c].leg # "idle" /\ req'[c].g = req[c].g
      BY KindFacts
    <3> QED
      BY <2>1, <2>3, <3>1, <3>2, LoadLasts
  <2> QED
    BY <2>2, <2>3
<1>4. UsageOK'
  BY <1>0, UsageLasts
<1>5. Settled'
  <2>1. CASE Unmounted
    <3>1. \A c \in Kinds : req'[c].leg = "idle"
      BY <2>1 DEF Unmounted
    <3> QED
      BY <2>1, <3>1 DEF Settled, Unmounted
  <2>2. CASE Loading
    BY <2>2 DEF Settled, Loading
  <2>3. CASE \A h \in Groups \ doubt : Right(h)
    <3>1. ASSUME NEW h \in Groups \ doubt' PROVE Right(h)'
      <4>1. h \notin gs /\ h \in Groups \ doubt
        OBVIOUS
      <4>2. \A c \in Changes : Calm(c, h)
        BY <4>1, KindFacts DEF Calm, Pending
      <4> QED
        BY <1>0, <2>3, <4>1, <4>2, RightLasts, AlikeSame
    <3> QED
      BY <3>1 DEF Settled
  <2> QED
    BY <1>0, <2>1, <2>2, <2>3 DEF Settled
<1> QED
  BY <1>2, <1>3, <1>4, <1>5 DEF GroupsInv

(* A step that changes nothing but the selected group or a count.          *)
LEMMA NoDoubt ==
  ASSUME GroupsInv, GroupsTypeOK', group' = group, req' = req, list' = list, doubt' = doubt,
         sent' = sent
  PROVE  GroupsInv'
<1> DEFINE gs == {}
<1>1. gs \in SUBSET Groups /\ doubt' = doubt \cup gs /\ \A h : h \notin gs
  OBVIOUS
<1> HIDE DEF gs
<1> QED
  BY <1>1, InDoubt

(* Doubting touches nothing but the doubts of the loads under way.         *)
LEMMA DoubtingKeeps ==
  ASSUME NEW reqs \in [Kinds -> Calls], NEW gs \in SUBSET Groups, req' = Doubting(reqs, gs)
  PROVE  /\ req' \in [Kinds -> Calls]
         /\ \A k \in Kinds \ Loads : req'[k] = reqs[k]
         /\ \A k \in Loads : /\ req'[k].leg = reqs[k].leg /\ req'[k].answer = reqs[k].answer
                             /\ reqs[k].over \subseteq req'[k].over
                             /\ \A h \in gs : Spared(k, h)
<1>1. ASSUME NEW k \in Kinds
      PROVE  /\ req'[k] \in Calls
             /\ k \notin Loads => req'[k] = reqs[k]
             /\ req'[k].leg = reqs[k].leg /\ req'[k].answer = reqs[k].answer
             /\ reqs[k].over \subseteq req'[k].over
             /\ k \in Loads => \A h \in gs : Spared(k, h)
  <2>1. reqs[k] \in Calls
    OBVIOUS
  <2>2. req'[k] = IF k \in Loads /\ reqs[k].leg \in {"sent", "served"}
                  THEN [reqs[k] EXCEPT !.over = @ \cup gs] ELSE reqs[k]
    BY DEF Doubting
  <2>3. CASE k \in Loads /\ reqs[k].leg \in {"sent", "served"}
    <3>1. req'[k] = [reqs[k] EXCEPT !.over = @ \cup gs]
      BY <2>2, <2>3
    <3>2. /\ req'[k] \in Calls /\ req'[k].over = reqs[k].over \cup gs
          /\ req'[k].leg = reqs[k].leg /\ req'[k].answer = reqs[k].answer
      BY <2>1, <3>1 DEF Calls
    <3> QED
      BY <2>3, <3>2 DEF Spared
  <2>4. CASE ~(k \in Loads /\ reqs[k].leg \in {"sent", "served"})
    <3>1. req'[k] = reqs[k]
      BY <2>2, <2>4
    <3> QED
      BY <2>1, <2>4, <3>1 DEF Spared
  <2> QED
    BY <2>3, <2>4
<1>2. req' = [k \in Kinds |-> req'[k]]
  BY DEF Doubting
<1> QED
  BY <1>1, <1>2, KindFacts

(* The groups that the page is changing, and a load that is sent.          *)
LEMMA SentLoads ==
  ASSUME GroupsInv
  PROVE  /\ Changing(req) \subseteq Groups
         /\ \A reqs : /\ SentLoad(reqs).leg = "sent" /\ SentLoad(reqs).answer = <<>>
                      /\ Changing(reqs) \subseteq Groups => SentLoad(reqs) \in Calls
<1>1. \A k \in Changes : req[k].leg # "idle" => req[k].g \in Groups
  BY KindFacts DEF GroupsInv, RequestOK
<1>2. Changing(req) \subseteq Groups
  BY <1>1 DEF Changing
<1>3. ASSUME NEW reqs
      PROVE  /\ SentLoad(reqs).leg = "sent" /\ SentLoad(reqs).answer = <<>>
             /\ Changing(reqs) \subseteq Groups => SentLoad(reqs) \in Calls
  <2>1. SentLoad(reqs).leg = "sent" /\ SentLoad(reqs).answer = <<>>
    BY DEF SentLoad, Idle
  <2>2. ASSUME NEW gs \in SUBSET Groups
        PROVE  [Idle EXCEPT !.leg = "sent", !.over = gs] \in Calls
    <3>1. Idle \in Calls
      BY GroupsFacts DEF GroupsInv
    <3> QED
      BY <3>1 DEF Calls
  <2>3. Changing(reqs) \subseteq Groups => SentLoad(reqs) \in Calls
    BY <2>2 DEF SentLoad
  <2> QED
    BY <2>1, <2>3
<1> QED
  BY <1>2, <1>3

(* The first load, or two of them.                                         *)
LEMMA MountKeeps == GroupsInv /\ Mount => GroupsInv'
<1> SUFFICES ASSUME GroupsInv, Mount PROVE GroupsInv'
  OBVIOUS
<1>0. GroupsTypeOK /\ UsageOK /\ Settled
  BY DEF GroupsInv
<1>1. /\ group' = group /\ list' = list /\ share' = share /\ doubt' = doubt /\ mishaps' = mishaps
      /\ sent = 0 /\ sent' = 1
  BY DEF Mount
<1>2. PICK twice \in SUBSET {ToLoadAgain} :
        req' = [k \in Kinds |-> IF k \in {ToLoad} \cup twice THEN SentLoad(req) ELSE req[k]]
  BY DEF Mount
<1>3. /\ \A k \in Kinds \ Loads : req'[k] = req[k]
      /\ \A k \in Loads : req'[k] = SentLoad(req) \/ req'[k] = req[k]
      /\ req'[ToLoad] = SentLoad(req)
  BY <1>2, KindFacts
<1>4. SentLoad(req) \in Calls /\ SentLoad(req).leg = "sent" /\ SentLoad(req).answer = <<>>
  BY SentLoads
<1>5. GroupsTypeOK'
  <2>1. req' \in [Kinds -> Calls]
    BY <1>0, <1>2, <1>4 DEF GroupsTypeOK
  <2> QED
    BY <1>0, <1>1, <2>1, GroupsAssumption DEF GroupsTypeOK
<1>6. \A k \in Kinds \ Loads : RequestOK(k)'
  BY <1>0, <1>1, <1>3, RequestLasts DEF GroupsInv
<1>7. ASSUME NEW k \in Loads PROVE LoadOK(k)'
  <2>1. \A c \in Changes : req'[c] = req[c]
    BY <1>3, KindFacts
  <2>2. CASE req'[k] = SentLoad(req)
    BY <2>1, <2>2, NewLoad
  <2>3. CASE req'[k] = req[k]
    <3>1. LoadOK(k)
      BY DEF GroupsInv
    <3> QED
      BY <1>1, <2>1, <2>3, <3>1, LoadLasts
  <2> QED
    BY <1>3, <2>2, <2>3
<1>8. UsageOK'
  <2>1. Ids(<<>>) = {}
    BY DEF Ids
  <2>2. \A k \in Loads : \A g \in Ids(req'[k].answer) : g \in Ids(req[k].answer)
    BY <1>3, <1>4, <2>1
  <2> QED
    BY <1>0, <1>1, <1>5, <2>2, UsageLasts
<1>9. Settled'
  BY <1>3, <1>4, KindFacts DEF Settled, Loading
<1> QED
  BY <1>5, <1>6, <1>7, <1>8, <1>9 DEF GroupsInv

(* A form or a button of the page sends its request.                       *)
LEMMA SendKeeps ==
  ASSUME GroupsInv, NEW k \in Kinds \ Loads, NEW g \in Groups, Send(k, g),
         k \in Changes => (group[g].mine <=> k # ToJoin),
         k = ToCreate => ~group[g].used,
         k \in Invites \cup Deletes => group[g].used /\ g \in OnPage,
         k \in Invites => k = ToInvite(g), k \in Deletes => k = ToDelete(g)
  PROVE  GroupsInv'
<1> DEFINE reqs == [req EXCEPT ![k] = [Idle EXCEPT !.leg = "sent", !.g = g]]
<1>0. GroupsTypeOK /\ UsageOK /\ Settled /\ k \in Kinds /\ k \notin Loads
  BY DEF GroupsInv
<1>1. /\ group' = group /\ list' = list /\ share' = share /\ mishaps' = mishaps
      /\ sent \in 1..(MaxSent - 1) /\ sent' = sent + 1 /\ req[k].leg = "idle"
      /\ doubt' = (IF Loading THEN doubt \cup {g} ELSE doubt) /\ req' = Doubting(reqs, {g})
  BY DEF Send
<1>2. reqs[k].leg = "sent" /\ reqs[k].g = g /\ \A c \in Kinds \ {k} : reqs[c] = req[c]
  BY <1>0 DEF GroupsTypeOK, Idle
<1>3. reqs \in [Kinds -> Calls]
  <2>1. [Idle EXCEPT !.leg = "sent", !.g = g] \in Calls
    BY <1>0, GroupsFacts DEF Calls
  <2> QED
    BY <1>0, <2>1 DEF GroupsTypeOK
<1> HIDE DEF reqs
<1>4. /\ req' \in [Kinds -> Calls]
      /\ \A c \in Kinds \ Loads : req'[c] = reqs[c]
      /\ \A l \in Loads : /\ req'[l].leg = reqs[l].leg /\ req'[l].answer = reqs[l].answer
                          /\ reqs[l].over \subseteq req'[l].over
                          /\ \A h \in {g} : Spared(l, h)
  <2>1. {g} \in SUBSET Groups
    OBVIOUS
  <2> QED
    BY <1>1, <1>3, <2>1, DoubtingKeeps
<1>5. /\ req'[k].leg = "sent" /\ req'[k].g = g
      /\ \A c \in (Kinds \ Loads) \ {k} : req'[c] = req[c]
      /\ \A l \in Loads : /\ req'[l].leg = req[l].leg /\ req'[l].answer = req[l].answer
                          /\ req[l].over \subseteq req'[l].over /\ Spared(l, g)
  <2>1. req'[k] = reqs[k]
    BY <1>4
  <2>2. \A c \in (Kinds \ Loads) \ {k} : req'[c] = req[c]
    BY <1>2, <1>4
  <2>3. \A l \in Loads : reqs[l] = req[l]
    BY <1>0, <1>2, KindFacts
  <2> QED
    BY <1>2, <1>4, <2>1, <2>2, <2>3
<1>6. GroupsTypeOK'
  <2>1. doubt' \subseteq Groups
    <3>1. doubt' = doubt \/ doubt' = doubt \cup {g}
      BY <1>1
    <3> QED
      BY <1>0, <3>1 DEF GroupsTypeOK
  <2>2. sent' \in 0..MaxSent
    BY <1>1, GroupsAssumption
  <2> QED
    BY <1>0, <1>1, <1>4, <2>1, <2>2 DEF GroupsTypeOK
<1>7. ASSUME NEW c \in Kinds \ Loads PROVE RequestOK(c)'
  <2>1. CASE c = k
    BY <1>1, <1>5, <2>1 DEF RequestOK
  <2>2. CASE c # k
    <3>1. req'[c] = req[c] /\ RequestOK(c)
      BY <1>5, <2>2 DEF GroupsInv
    <3> QED
      BY <1>0, <1>1, <3>1, RequestLasts
  <2> QED
    BY <2>1, <2>2
<1>8. ASSUME NEW l \in Loads PROVE LoadOK(l)'
  <2>1. LoadOK(l)
    BY DEF GroupsInv
  <2>2. \A c \in Changes : req'[c].leg # "idle" =>
          (req[c].leg # "idle" /\ req'[c].g = req[c].g) \/ Spared(l, req'[c].g)
    BY <1>5, KindFacts
  <2> QED
    BY <1>1, <1>5, <2>1, <2>2, LoadLasts
<1>9. UsageOK'
  BY <1>0, <1>1, <1>5, <1>6, UsageLasts
<1>10. Settled'
  <2>1. ~Unmounted
    BY <1>1 DEF Unmounted
  <2>2. CASE Loading
    BY <1>5, <2>2 DEF Settled, Loading
  <2>3. CASE ~Loading /\ \A h \in Groups \ doubt : Right(h)
    <3>1. ASSUME NEW h \in Groups \ doubt, h # g \/ k = ToShare PROVE Right(h)'
      <4>1. ASSUME NEW c \in Changes PROVE Calm(c, h)
        <5>1. CASE c = k
          <6>1. h # g
            BY <3>1, <5>1, KindFacts
          <6> QED
            BY <1>1, <1>5, <5>1, <6>1 DEF Calm, Pending
        <5>2. CASE c # k
          BY <1>5, <5>2, KindFacts DEF Calm
        <5> QED
          BY <5>1, <5>2
      <4> QED
        BY <1>0, <1>1, <2>3, <3>1, <4>1, RightLasts, AlikeSame
    <3>2. ASSUME g \notin doubt, k \in Changes PROVE Right(g)'
      <4>1. Right(g) /\ group'[g] = group[g] /\ list' = list
        BY <1>1, <2>3, <3>2
      <4>2. \A c \in Changes \ {k} : req'[c] = req[c]
        BY <1>5, KindFacts
      <4>3. \A c \in Changes : Due(c, g)' <=> Due(c, g)
        BY <1>1, <1>5, <4>2 DEF Due
      <4>4. \A c \in Changes \ {k} : Pending(c, g)' <=> Pending(c, g)
        BY <4>2 DEF Pending
      <4>5. \A c \in {ToInvite(g), ToDelete(g)} : Due(c, g) => group[g].used
        BY KindFacts, CardFacts DEF GroupsInv, RequestOK, Due
      <4>6. k \in Invites \cup Deletes => ~Lacks(list.cards, g)
        BY DEF OnPage, Lacks
      <4>7. CASE Due(ToJoin, g)
        BY <4>3, <4>7, KindFacts DEF Right
      <4>8. CASE Due(ToDelete(g), g) /\ group[g].rev = 0 /\ ~Pending(ToCreate, g)
        <5>1. k # ToCreate
          BY <4>5, <4>8
        <5> QED
          BY <4>1, <4>3, <4>4, <4>8, <5>1, KindFacts, CardFacts DEF Right
      <4>9. CASE /\ Due(ToCreate, g) /\ group[g].rev = 1 /\ Lacks(list.cards, g)
                 /\ ~Pending(ToInvite(g), g) /\ ~Pending(ToDelete(g), g)
        <5>1. k \notin Invites \cup Deletes
          BY <4>6, <4>9
        <5> QED
          BY <4>1, <4>3, <4>4, <4>9, <5>1, KindFacts, CardFacts DEF Right
      <4>10. CASE /\ Due(ToInvite(g), g) /\ ~Pending(ToCreate, g)
                  /\ (Due(ToDelete(g), g) => group[g].rev = 0)
                  /\ IF group[g].rev > 0
                     THEN Has(list.cards, g) /\ req[ToInvite(g)].answer = Card(g, group[g].rev)
                     ELSE Lacks(list.cards, g)
        <5>1. k # ToCreate
          BY <4>5, <4>10
        <5>2. Due(ToInvite(g), g)' /\ ~Pending(ToCreate, g)'
          BY <4>3, <4>4, <4>10, <5>1, KindFacts, CardFacts
        <5>3. k # ToInvite(g) /\ req'[ToInvite(g)] = req[ToInvite(g)]
          BY <1>1, <4>2, <4>10, KindFacts, CardFacts DEF Due
        <5>4. Due(ToDelete(g), g)' => group'[g].rev = 0
          BY <4>1, <4>3, <4>10, KindFacts, CardFacts
        <5> QED
          BY <4>1, <4>10, <5>2, <5>3, <5>4 DEF Right
      <4>11. CASE /\ Tells(list.cards, g) /\ (\A c \in About(g) : ~Due(c, g))
                  /\ Pending(ToCreate, g) => req[ToCreate].leg = "sent"
        <5>1. Pending(ToCreate, g)' => req'[ToCreate].leg = "sent"
          BY <1>5, <4>2, <4>4, <4>11, KindFacts
        <5>2. Tells(list.cards, g)'
          BY <4>1, <4>11 DEF Tells, Shows, Lacks
        <5>3. \A c \in About(g) : ~Due(c, g)'
          BY <4>3, <4>11, CardFacts DEF About
        <5> QED
          BY <5>1, <5>2, <5>3 DEF Right
      <4> QED
        BY <4>1, <4>7, <4>8, <4>9, <4>10, <4>11 DEF Right
    <3> QED
      BY <1>1, <2>3, <3>1, <3>2, KindFacts DEF Settled
  <2> QED
    BY <1>0, <2>1, <2>2, <2>3 DEF Settled
<1> QED
  BY <1>6, <1>7, <1>8, <1>9, <1>10 DEF GroupsInv

(* The forms and the cards of the page.                                    *)
LEMMA FormsKeep ==
  ASSUME GroupsInv,
         Create \/ Share \/ \E g \in Groups : Join(g) \/ Invite(g) \/ Delete(g)
  PROVE  GroupsInv'
<1>0. GroupsTypeOK /\ UsageOK
  BY DEF GroupsInv
<1>1. CASE Create
  <2> DEFINE T == {g \in Groups : ~group[g].used}
  <2>1. T \subseteq Nat /\ T # {}
    BY <1>1 DEF Create, Groups
  <2> HIDE DEF T
  <2>2. PICK x \in T : \A y \in T : ~(y < x)
    BY <2>1, Least
  <2> USE DEF T
  <2>3. \A h \in 1..(x - 1) : group[h].used
    <3> SUFFICES ASSUME NEW h \in 1..(x - 1) PROVE group[h].used
      OBVIOUS
    <3>1. h \in Groups /\ h < x
      BY <2>2, GroupsAssumption DEF Groups
    <3> QED
      BY <2>2, <3>1
  <2>4. NextGroup \in Groups /\ ~group[NextGroup].used
    BY <2>2, <2>3 DEF NextGroup
  <2>5. group[NextGroup].mine /\ Send(ToCreate, NextGroup)
    BY <1>0, <1>1, <2>4 DEF UsageOK, Create
  <2> QED
    BY <2>4, <2>5, KindFacts, SendKeeps
<1>2. CASE Share
  <2>1. share \in Groups /\ Send(ToShare, share)
    BY <1>0, <1>2 DEF Share, GroupsTypeOK
  <2> QED
    BY <2>1, KindFacts, SendKeeps
<1>3. ASSUME NEW g \in Groups, Join(g) PROVE GroupsInv'
  BY <1>3, KindFacts, SendKeeps DEF Join
<1>4. ASSUME NEW g \in OnPage PROVE group[g].used
  BY <1>0 DEF UsageOK, OnPage, Ids
<1>5. ASSUME NEW g \in Groups, Invite(g) PROVE GroupsInv'
  BY <1>4, <1>5, KindFacts, CardFacts, SendKeeps DEF Invite
<1>6. ASSUME NEW g \in Groups, Delete(g) PROVE GroupsInv'
  BY <1>4, <1>6, KindFacts, CardFacts, SendKeeps DEF Delete
<1> QED
  BY <1>1, <1>2, <1>3, <1>5, <1>6

(* The share panel selects a group that is listed, or none.                *)
LEMMA SelectKeeps ==
  ASSUME GroupsInv, Select \/ \E g \in {0} \cup Groups : Choose(g)
  PROVE  GroupsInv'
<1>1. /\ group' = group /\ req' = req /\ list' = list /\ doubt' = doubt /\ sent' = sent
      /\ mishaps' = mishaps
  BY DEF Select, Choose
<1>2. share' \in {0} \cup Groups
  <2>1. CASE Select
    <3>1. share' = list.cards[1].id /\ list.cards # <<>> /\ list.cards \in Seq(Cards)
      BY <2>1 DEF Select, GroupsInv, GroupsTypeOK
    <3>2. list.cards[1] \in Cards
      BY <3>1
    <3> QED
      BY <3>1, <3>2 DEF Cards
  <2>2. CASE \E g \in {0} \cup Groups : Choose(g)
    BY <2>2 DEF Choose
  <2> QED
    BY <2>1, <2>2
<1>3. GroupsTypeOK'
  BY <1>1, <1>2 DEF GroupsInv, GroupsTypeOK
<1> QED
  BY <1>1, <1>3, NoDoubt

(* An answer touches its request, and a change its group, alone.           *)
LEMMA AnsweredOne ==
  ASSUME GroupsTypeOK, NEW k \in Kinds, NEW leg \in {"served", "failed"},
         NEW answer \in Seq(Cards), Answered(k, leg, answer)
  PROVE  /\ req' \in [Kinds -> Calls]
         /\ req'[k].leg = leg /\ req'[k].answer = answer
         /\ req'[k].g = req[k].g /\ req'[k].over = req[k].over
         /\ \A c \in Kinds \ {k} : req'[c] = req[c]
<1>1. req \in [Kinds -> Calls] /\ req[k] \in Calls
  BY DEF GroupsTypeOK
<1>2. req' = [req EXCEPT ![k] = [@ EXCEPT !.leg = leg, !.answer = answer]]
  BY DEF Answered
<1>3. [req[k] EXCEPT !.leg = leg, !.answer = answer] \in Calls
  BY <1>1 DEF Calls
<1> DEFINE new == [req[k] EXCEPT !.leg = leg, !.answer = answer]
<1>4. new.leg = leg /\ new.answer = answer /\ new.g = req[k].g /\ new.over = req[k].over
  BY <1>1 DEF Calls
<1>5. req' = [req EXCEPT ![k] = new] /\ new \in Calls
  BY <1>2, <1>3
<1> HIDE DEF new
<1> QED
  BY <1>1, <1>4, <1>5

(* A change touches one group, which is used from then on.                 *)
LEMMA ChangedOne ==
  ASSUME GroupsTypeOK, NEW g \in Groups, NEW rev \in 0..MaxRevision, Change(g, rev)
  PROVE  /\ group' \in [Groups -> [rev : 0..MaxRevision, mine : BOOLEAN, used : BOOLEAN]]
         /\ group'[g].rev = rev /\ group'[g].used /\ group'[g].mine = group[g].mine
         /\ \A h \in Groups \ {g} : group'[h] = group[h]
BY DEF GroupsTypeOK, Change

(* An answer with one card is a list of cards.                             *)
LEMMA CardTyped ==
  ASSUME NEW g \in Groups, NEW rev \in 1..MaxRevision
  PROVE  Card(g, rev) \in Seq(Cards) /\ Card(g, rev)[1] = [id |-> g, rev |-> rev]
BY DEF Card, Cards

(* tools-service answers a load with the groups as they are.               *)
LEMMA LoadServed ==
  ASSUME GroupsInv, NEW k \in Loads, req[k].leg = "sent", Answered(k, "served", Listed),
         UNCHANGED <<group, list, share, doubt, sent, mishaps>>
  PROVE  GroupsInv'
<1>0. GroupsTypeOK /\ UsageOK /\ k \in Kinds
  BY KindFacts DEF GroupsInv
<1>1. /\ Listed \in Seq(Cards)
      /\ \A g \in Ids(Listed) : group[g].rev > 0
      /\ \A g \in Groups : Tells(Listed, g)
  BY <1>0, ListedTells
<1>2. /\ req' \in [Kinds -> Calls]
      /\ req'[k].leg = "served" /\ req'[k].answer = Listed /\ req'[k].over = req[k].over
      /\ \A c \in Kinds \ {k} : req'[c] = req[c]
  <2>1. "served" \in {"served", "failed"}
    OBVIOUS
  <2> QED
    BY <1>0, <1>1, <2>1, AnsweredOne
<1>3. /\ group' = group /\ list' = list /\ share' = share /\ doubt' = doubt /\ sent' = sent
      /\ mishaps' = mishaps
  OBVIOUS
<1>4. GroupsTypeOK'
  BY <1>0, <1>2, <1>3 DEF GroupsTypeOK
<1>5. \A c \in Kinds \ Loads : RequestOK(c)'
  BY <1>0, <1>2, <1>3, RequestLasts DEF GroupsInv
<1>6. \A c \in Changes : req'[c] = req[c]
  BY <1>2, KindFacts
<1>7. ASSUME NEW l \in Loads PROVE LoadOK(l)'
  <2>1. LoadOK(l)
    BY DEF GroupsInv
  <2>2. CASE l = k
    <3>1. \A g \in Groups \ req[k].over : g \notin Changing(req)
      BY <2>1, <2>2 DEF LoadOK
    <3>2. Changing(req') = Changing(req)
      BY <1>6 DEF Changing
    <3>3. \A g \in Groups : Tells(req[k].answer, g)'
      BY <1>1, <1>2, <1>3 DEF Tells
    <3> QED
      BY <1>2, <2>2, <3>1, <3>2, <3>3 DEF LoadOK
  <2>3. CASE l # k
    <3>1. req'[l] = req[l]
      BY <1>2, <2>3, KindFacts
    <3> QED
      BY <1>3, <1>6, <2>1, <3>1, LoadLasts
  <2> QED
    BY <2>2, <2>3
<1>8. UsageOK'
  <2>1. \A g \in Ids(Listed) : group[g].used
    <3>1. Ids(Listed) \subseteq Groups
      BY <1>1, IdsAreGroups
    <3>2. \A g \in Groups : group[g].rev \in Nat
      BY <1>0, GroupsFacts
    <3> QED
      BY <1>0, <1>1, <3>1, <3>2 DEF UsageOK
  <2>2. \A l \in Loads : \A g \in Ids(req'[l].answer) : g \in Ids(req[l].answer) \/ group[g].used
    BY <1>2, <2>1, KindFacts
  <2> QED
    BY <1>0, <1>3, <1>4, <2>2, UsageLasts
<1>9. Settled'
  BY <1>2 DEF Settled, Loading
<1> QED
  BY <1>4, <1>5, <1>7, <1>8, <1>9 DEF GroupsInv

(* An answer about one group, and the change of the group that it tells.   *)
LEMMA OneServed ==
  ASSUME GroupsInv, NEW k \in Kinds \ Loads, NEW g \in Groups, req[k].g = g,
         req[k].leg = "sent", NEW leg \in {"served", "failed"},
         NEW answer \in Seq(Cards), Answered(k, leg, answer),
         group' = group \/ (k \in Changes /\ \E rev \in 0..MaxRevision : Change(g, rev)),
         k # ToCreate => group[g].used \/ group' = group,
         k = ToCreate /\ leg = "served" => group'[g].used /\ answer = Card(g, 1),
         k \in Invites /\ leg = "served" => \E rev \in 1..MaxRevision : answer = Card(g, rev),
         Right(g) => Right(g)',
         UNCHANGED <<list, share, doubt, sent, mishaps>>
  PROVE  GroupsInv'
<1>0. GroupsTypeOK /\ UsageOK /\ k \in Kinds /\ RequestOK(k)
  BY DEF GroupsInv
<1>1. /\ req' \in [Kinds -> Calls]
      /\ req'[k].leg = leg /\ req'[k].answer = answer /\ req'[k].g = g
      /\ \A c \in Kinds \ {k} : req'[c] = req[c]
  BY <1>0, AnsweredOne
<1>2. /\ list' = list /\ share' = share /\ doubt' = doubt /\ sent' = sent /\ mishaps' = mishaps
  OBVIOUS
<1>3. /\ group' \in [Groups -> [rev : 0..MaxRevision, mine : BOOLEAN, used : BOOLEAN]]
      /\ group'[g].mine = group[g].mine
      /\ group'[g] = group[g] \/ (k \in Changes /\ group'[g].used)
      /\ group[g].used => group'[g].used
      /\ \A h \in Groups \ {g} : group'[h] = group[h]
  <2>1. CASE group' = group
    BY <1>0, <2>1 DEF GroupsTypeOK
  <2>2. CASE k \in Changes /\ \E rev \in 0..MaxRevision : Change(g, rev)
    <3>1. PICK rev \in 0..MaxRevision : Change(g, rev)
      BY <2>2
    <3> QED
      BY <1>0, <2>2, <3>1, ChangedOne
  <2> QED
    BY <2>1, <2>2
<1>4. k # ToCreate => group'[g].used = group[g].used
  <2>1. group[g].used \in BOOLEAN /\ group'[g].used \in BOOLEAN
    BY <1>0, <1>3, GroupsFacts
  <2> QED
    BY <1>3, <2>1
<1>5. GroupsTypeOK'
  BY <1>0, <1>1, <1>2, <1>3 DEF GroupsTypeOK
<1>6. RequestOK(k)'
  <2>1. k \in Changes => (group'[g].mine <=> k # ToJoin)
    BY <1>0, <1>3 DEF RequestOK
  <2>2. /\ k \in Invites \cup Deletes => group'[g].used
        /\ k \in Invites => k = ToInvite(g)
        /\ k \in Deletes => k = ToDelete(g)
    BY <1>0, <1>3 DEF RequestOK
  <2>3. leg # "sent"
    OBVIOUS
  <2> QED
    BY <1>1, <2>1, <2>2, <2>3 DEF RequestOK
<1>7. \A h \in Groups \ {g} : group'[h] = group[h] /\ Alike(list.cards, list'.cards, h)
  BY <1>2, <1>3, AlikeSame
<1>8. req[k].leg # "idle" /\ Ids(list'.cards) = Ids(list.cards)
  BY <1>2
<1> QED
  BY <1>1, <1>2, <1>3, <1>4, <1>5, <1>6, <1>7, <1>8, OneGroup

(* tools-service answers a request that changes a group.                   *)
LEMMA CreateServed ==
  ASSUME GroupsInv, NEW g \in Groups, req[ToCreate].g = g, req[ToCreate].leg = "sent", Change(g, 1),
         Answered(ToCreate, "served", Card(g, 1)),
         UNCHANGED <<list, share, doubt, sent, mishaps>>
  PROVE  GroupsInv'
<1>0. /\ GroupsTypeOK /\ UsageOK /\ ToCreate \in Kinds \ Loads
      /\ \A k \in {ToCreate, ToInvite(g), ToDelete(g)} : RequestOK(k)
  BY KindFacts, CardFacts DEF GroupsInv
<1>1. g \in Groups /\ ~group[g].used
  BY <1>0 DEF RequestOK
<1>2. 1 \in 0..MaxRevision /\ 1 \in 1..MaxRevision
  BY GroupsAssumption
<1>3. Change(g, 1) /\ Answered(ToCreate, "served", Card(g, 1)) /\ req[ToCreate].g = g
  OBVIOUS
<1>4. Card(g, 1) \in Seq(Cards)
  BY <1>1, <1>2, CardTyped
<1>5. group'[g].rev = 1 /\ group'[g].used
  BY <1>0, <1>1, <1>2, <1>3, ChangedOne
<1>6. /\ req'[ToCreate].leg = "served" /\ req'[ToCreate].g = g
      /\ \A c \in Kinds \ {ToCreate} : req'[c] = req[c]
  <2>1. "served" \in {"served", "failed"}
    OBVIOUS
  <2> QED
    BY <1>0, <1>3, <1>4, <2>1, AnsweredOne
<1>7. Right(g)'
  <2>1. Lacks(list'.cards, g)
    BY <1>0, <1>1 DEF UsageOK, Lacks, Ids
  <2>2. ~Pending(ToInvite(g), g) /\ ~Pending(ToDelete(g), g)
    BY <1>0, <1>1, CardFacts DEF RequestOK, Pending
  <2>3. ~Pending(ToInvite(g), g)' /\ ~Pending(ToDelete(g), g)'
    BY <1>6, <2>2, KindFacts, CardFacts DEF Pending
  <2> QED
    BY <1>5, <1>6, <2>1, <2>3 DEF Right, Due
<1> QED
  BY <1>0, <1>1, <1>2, <1>3, <1>4, <1>5, <1>7, KindFacts, OneServed

(* The joined group is not on the page before the list is loaded again.    *)
LEMMA JoinServed ==
  ASSUME GroupsInv, NEW g \in Groups, req[ToJoin].g = g, req[ToJoin].leg = "sent",
         NEW rev \in 1..MaxRevision, rev = group[g].rev + 1, Change(g, rev),
         Answered(ToJoin, "served", Card(g, rev)),
         UNCHANGED <<list, share, doubt, sent, mishaps>>
  PROVE  GroupsInv'
<1>0. GroupsTypeOK /\ UsageOK /\ ToJoin \in Kinds \ Loads /\ RequestOK(ToJoin)
  BY KindFacts DEF GroupsInv
<1>1. g \in Groups /\ ~group[g].mine
  BY <1>0, KindFacts DEF RequestOK
<1>2. rev \in 0..MaxRevision /\ rev \in 1..MaxRevision
  BY GroupsAssumption
<1>3. /\ Change(g, rev) /\ Answered(ToJoin, "served", Card(g, rev)) /\ req[ToJoin].g = g
      /\ group[g].used
  BY <1>0, <1>1 DEF UsageOK
<1>4. Card(g, rev) \in Seq(Cards)
  BY <1>1, <1>2, CardTyped
<1>6. req'[ToJoin].leg = "served" /\ req'[ToJoin].g = g
  <2>1. "served" \in {"served", "failed"}
    OBVIOUS
  <2> QED
    BY <1>0, <1>3, <1>4, <2>1, AnsweredOne
<1>7. Right(g)'
  BY <1>6 DEF Right, Due
<1> QED
  BY <1>0, <1>1, <1>2, <1>3, <1>4, <1>7, KindFacts, OneServed

(* The answer to an invitation holds the card as it has become.            *)
LEMMA InviteServed ==
  ASSUME GroupsInv, NEW g \in Groups, req[ToInvite(g)].g = g, req[ToInvite(g)].leg = "sent",
         NEW rev \in 1..MaxRevision, rev = group[g].rev + 1, group[g].rev > 0, Change(g, rev),
         Answered(ToInvite(g), "served", Card(g, rev)),
         UNCHANGED <<list, share, doubt, sent, mishaps>>
  PROVE  GroupsInv'
<1>0. /\ GroupsTypeOK /\ UsageOK /\ ToInvite(g) \in Kinds \ Loads
      /\ \A k \in {ToCreate, ToInvite(g)} : RequestOK(k)
  BY KindFacts, CardFacts DEF GroupsInv
<1>1. g \in Groups /\ group[g].used
  BY <1>0, CardFacts DEF RequestOK
<1>2. rev \in 0..MaxRevision /\ rev \in 1..MaxRevision /\ group[g].rev \in 1..MaxRevision
  BY <1>0, <1>1, GroupsFacts
<1>3. Change(g, rev) /\ Answered(ToInvite(g), "served", Card(g, rev)) /\ req[ToInvite(g)].g = g
  OBVIOUS
<1>4. Card(g, rev) \in Seq(Cards)
  BY <1>1, <1>2, CardTyped
<1>5. group'[g].rev = rev /\ rev > 0 /\ group[g].rev > 0
  BY <1>0, <1>1, <1>2, <1>3, ChangedOne
<1>6. /\ req'[ToInvite(g)].leg = "served" /\ req'[ToInvite(g)].g = g
      /\ req'[ToInvite(g)].answer = Card(g, rev)
      /\ \A c \in Kinds \ {ToInvite(g)} : req'[c] = req[c]
  <2>1. "served" \in {"served", "failed"}
    OBVIOUS
  <2> QED
    BY <1>0, <1>3, <1>4, <2>1, AnsweredOne
<1>7. ASSUME Right(g) PROVE Right(g)'
  <2>1. /\ Pending(ToCreate, g)' <=> Pending(ToCreate, g)
        /\ Due(ToJoin, g)' <=> Due(ToJoin, g)
        /\ Due(ToDelete(g), g)' <=> Due(ToDelete(g), g)
    BY <1>6, KindFacts, CardFacts DEF Pending, Due
  <2>2. Due(ToInvite(g), g)' /\ Pending(ToInvite(g), g) /\ ~Due(ToInvite(g), g)
    BY <1>3, <1>6 DEF Due, Pending
  <2>3. CASE Due(ToJoin, g)
    BY <2>1, <2>3 DEF Right
  <2>4. CASE /\ Tells(list.cards, g) /\ (\A c \in About(g) : ~Due(c, g))
             /\ Pending(ToCreate, g) => req[ToCreate].leg = "sent"
    <3>1. ~Pending(ToCreate, g)
      BY <1>0, <1>1, <2>4 DEF Pending, RequestOK
    <3>2. Shows(list.cards, g, group[g].rev)
      BY <1>5, <2>4 DEF Tells
    <3>3. Has(list'.cards, g)
      BY <1>2, <3>2 DEF Has
    <3>4. ~Due(ToDelete(g), g)
      BY <2>4, KindFacts, CardFacts DEF About
    <3>5. /\ Due(ToInvite(g), g)' /\ ~Pending(ToCreate, g)' /\ ~Due(ToDelete(g), g)'
          /\ group'[g].rev > 0 /\ req'[ToInvite(g)].answer = Card(g, group'[g].rev)
      BY <1>5, <1>6, <2>1, <2>2, <3>1, <3>4
    <3> QED
      BY <3>3, <3>5 DEF Right
  <2> QED
    BY <1>5, <1>7, <2>2, <2>3, <2>4 DEF Right
<1> QED
  BY <1>0, <1>1, <1>2, <1>3, <1>4, <1>7, KindFacts, CardFacts, OneServed

(* A deleted group stays on the page until the answer is heard.            *)
LEMMA DeleteServed ==
  ASSUME GroupsInv, NEW g \in Groups, req[ToDelete(g)].g = g, req[ToDelete(g)].leg = "sent",
         group[g].rev > 0, Change(g, 0), Answered(ToDelete(g), "served", <<>>),
         UNCHANGED <<list, share, doubt, sent, mishaps>>
  PROVE  GroupsInv'
<1>0. /\ GroupsTypeOK /\ UsageOK /\ ToDelete(g) \in Kinds \ Loads
      /\ \A k \in {ToCreate, ToDelete(g)} : RequestOK(k)
  BY KindFacts, CardFacts DEF GroupsInv
<1>1. g \in Groups /\ group[g].used
  BY <1>0, CardFacts DEF RequestOK
<1>3. /\ Change(g, 0) /\ Answered(ToDelete(g), "served", <<>>) /\ req[ToDelete(g)].g = g
      /\ group[g].rev > 0
  OBVIOUS
<1>4. <<>> \in Seq(Cards) /\ 0 \in 0..MaxRevision
  BY GroupsAssumption
<1>5. group'[g].rev = 0
  BY <1>0, <1>1, <1>3, <1>4, ChangedOne
<1>6. /\ req'[ToDelete(g)].leg = "served" /\ req'[ToDelete(g)].g = g
      /\ \A c \in Kinds \ {ToDelete(g)} : req'[c] = req[c]
  <2>1. "served" \in {"served", "failed"}
    OBVIOUS
  <2> QED
    BY <1>0, <1>3, <1>4, <2>1, AnsweredOne
<1>7. ASSUME Right(g) PROVE Right(g)'
  <2>1. /\ Pending(ToCreate, g)' <=> Pending(ToCreate, g)
        /\ Due(ToJoin, g)' <=> Due(ToJoin, g)
    BY <1>6, KindFacts, CardFacts DEF Pending, Due
  <2>2. Due(ToDelete(g), g)' /\ Pending(ToDelete(g), g) /\ ~Due(ToDelete(g), g)
    BY <1>3, <1>6 DEF Due, Pending
  <2>3. CASE Due(ToJoin, g)
    BY <2>1, <2>3 DEF Right
  <2>4. CASE ~Pending(ToCreate, g)
    <3>1. ~Pending(ToCreate, g)'
      BY <2>1, <2>4
    <3> QED
      BY <1>5, <2>2, <3>1 DEF Right
  <2>5. CASE /\ Tells(list.cards, g) /\ (\A c \in About(g) : ~Due(c, g))
             /\ Pending(ToCreate, g) => req[ToCreate].leg = "sent"
    <3>1. ~Pending(ToCreate, g)
      BY <1>0, <1>1, <2>5 DEF Pending, RequestOK
    <3> QED
      BY <2>4, <3>1
  <2> QED
    BY <1>7, <2>2, <2>3, <2>4, <2>5 DEF Right
<1> QED
  BY <1>0, <1>1, <1>3, <1>4, <1>7, KindFacts, CardFacts, OneServed

(* tools-service makes a share, or refuses.                                *)
LEMMA QuietlyServed ==
  ASSUME GroupsInv, NEW k \in Kinds \ Loads, NEW g, req[k].g = g, req[k].leg = "sent",
         NEW leg \in {"served", "failed"}, Answered(k, leg, <<>>),
         k = ToShare \/ (leg = "failed" /\ k # ToCreate),
         UNCHANGED <<group, list, share, doubt, sent, mishaps>>
  PROVE  GroupsInv'
<1>0. GroupsTypeOK /\ RequestOK(k) /\ k \in Kinds
  BY DEF GroupsInv
<1>1. g \in Groups
  BY <1>0 DEF RequestOK
<1>2. <<>> \in Seq(Cards) /\ k # ToCreate
  BY KindFacts
<1>3. /\ group' = group /\ list' = list /\ share' = share /\ doubt' = doubt /\ sent' = sent
      /\ mishaps' = mishaps
  OBVIOUS
<1>4. /\ req'[k].leg = leg /\ req'[k].g = g /\ \A c \in Kinds \ {k} : req'[c] = req[c]
  BY <1>0, <1>2, AnsweredOne
<1>5. \A c \in Changes : Calm(c, g)
  BY <1>4, KindFacts DEF Calm, Pending, Due
<1>6. Right(g) => Right(g)'
  BY <1>0, <1>1, <1>3, <1>5, RightLasts, AlikeSame
<1>7. k \in Invites => leg # "served"
  BY KindFacts
<1> QED
  BY <1>1, <1>2, <1>3, <1>6, <1>7, OneServed

(* tools-service answers any of the requests.                              *)
LEMMA ServedKeeps ==
  ASSUME GroupsInv, NEW k \in Kinds, Served(k)
  PROVE  GroupsInv'
<1>0. PICK g : g = req[k].g
  OBVIOUS
<1>1. /\ req[k].leg = "sent" /\ UNCHANGED <<list, share, doubt, sent, mishaps>>
      /\ \/ k \in Loads /\ Answered(k, "served", Listed) /\ UNCHANGED group
         \/ k = ToCreate /\ Change(g, 1) /\ Answered(k, "served", Card(g, 1))
         \/ /\ k \in {ToJoin} \cup Invites
            /\ group[g].rev \in (IF k = ToJoin THEN 0 ELSE 1)..(MaxRevision - 1)
            /\ Change(g, group[g].rev + 1)
            /\ Answered(k, "served", Card(g, group[g].rev + 1))
         \/ /\ k \in Deletes /\ group[g].rev > 0 /\ Change(g, 0)
            /\ Answered(k, "served", <<>>)
         \/ k = ToShare /\ Answered(k, "served", <<>>) /\ UNCHANGED group
         \/ /\ k \in {ToJoin, ToShare} \cup Invites \cup Deletes
            /\ Answered(k, "failed", <<>>) /\ UNCHANGED group
  BY <1>0 DEF Served
<1>2. CASE k \in Loads /\ Answered(k, "served", Listed) /\ UNCHANGED group
  BY <1>1, <1>2, LoadServed
<1>8. k \notin Loads => /\ g \in Groups
                        /\ k \in Invites => k = ToInvite(g)
                        /\ k \in Deletes => k = ToDelete(g)
  BY <1>0, <1>1 DEF GroupsInv, RequestOK
<1>3. CASE k = ToCreate /\ Change(g, 1) /\ Answered(k, "served", Card(g, 1))
  <2>1. g \in Groups
    BY <1>3, <1>8, KindFacts
  <2> QED
    BY <1>0, <1>1, <1>3, <2>1, CreateServed
<1>4. CASE /\ k \in {ToJoin} \cup Invites
           /\ group[g].rev \in (IF k = ToJoin THEN 0 ELSE 1)..(MaxRevision - 1)
           /\ Change(g, group[g].rev + 1)
           /\ Answered(k, "served", Card(g, group[g].rev + 1))
  <2>1. PICK rev : rev = group[g].rev + 1
    OBVIOUS
  <2>2. rev \in 1..MaxRevision /\ (k \in Invites => group[g].rev > 0)
    BY <1>4, <2>1, KindFacts, GroupsAssumption
  <2>5. g \in Groups /\ (k \in Invites => k = ToInvite(g))
    BY <1>4, <1>8, KindFacts
  <2>6. Change(g, rev) /\ Answered(k, "served", Card(g, rev))
    BY <1>4, <2>1
  <2>3. CASE k = ToJoin
    BY <1>0, <1>1, <2>1, <2>2, <2>3, <2>5, <2>6, JoinServed
  <2>4. CASE k \in Invites
    <3>1. k = ToInvite(g)
      BY <2>4, <2>5
    <3> QED
      BY <1>0, <1>1, <2>1, <2>2, <2>4, <2>5, <2>6, <3>1, InviteServed
  <2> QED
    BY <1>4, <2>3, <2>4
<1>5. CASE k \in Deletes /\ group[g].rev > 0 /\ Change(g, 0) /\ Answered(k, "served", <<>>)
  <2>1. g \in Groups /\ k = ToDelete(g)
    BY <1>5, <1>8, KindFacts
  <2> QED
    BY <1>0, <1>1, <1>5, <2>1, DeleteServed
<1>6. CASE k = ToShare /\ Answered(k, "served", <<>>) /\ UNCHANGED group
  BY <1>0, <1>1, <1>6, KindFacts, QuietlyServed
<1>7. CASE k \in {ToJoin, ToShare} \cup Invites \cup Deletes /\ Answered(k, "failed", <<>>)
           /\ UNCHANGED group
  BY <1>0, <1>1, <1>7, KindFacts, QuietlyServed
<1> QED
  BY <1>1, <1>2, <1>3, <1>4, <1>5, <1>6, <1>7

(* A request or its answer gets lost.                                      *)
LEMMA LostKeeps ==
  ASSUME GroupsInv, NEW k \in Kinds, Lost(k)
  PROVE  GroupsInv'
<1>0. GroupsTypeOK /\ (k \notin Loads => RequestOK(k))
  BY DEF GroupsInv
<1>1. PICK gs : gs = IF k \in Changes THEN {req[k].g} ELSE {}
  OBVIOUS
<1>2. PICK reqs : reqs = [req EXCEPT ![k] = [@ EXCEPT !.leg = "failed"]]
  OBVIOUS
<1>3. /\ group' = group /\ list' = list /\ share' = share /\ sent' = sent
      /\ mishaps' = mishaps + 1 /\ mishaps < MaxMishaps /\ req[k].leg \in {"sent", "served"}
      /\ req' = Doubting(reqs, gs) /\ doubt' = doubt \cup gs
  BY <1>1, <1>2 DEF Lost
<1>4. gs \in SUBSET Groups /\ (k \in Changes => req[k].g \in gs)
  BY <1>0, <1>1, <1>3, KindFacts DEF RequestOK
<1>5. /\ reqs \in [Kinds -> Calls] /\ reqs[k].leg = "failed" /\ reqs[k].g = req[k].g
      /\ reqs[k].answer = req[k].answer /\ reqs[k].over = req[k].over
      /\ \A c \in Kinds \ {k} : reqs[c] = req[c]
  <2>1. req \in [Kinds -> Calls] /\ req[k] \in Calls
    BY <1>0 DEF GroupsTypeOK
  <2>2. PICK new : new = [req[k] EXCEPT !.leg = "failed"]
    OBVIOUS
  <2>3. /\ new \in Calls /\ new.leg = "failed" /\ new.g = req[k].g
        /\ new.answer = req[k].answer /\ new.over = req[k].over
    BY <2>1, <2>2 DEF Calls
  <2>4. reqs = [req EXCEPT ![k] = new]
    BY <1>2, <2>2
  <2> QED
    BY <2>1, <2>3, <2>4
<1>6. /\ req' \in [Kinds -> Calls]
      /\ \A c \in Kinds \ Loads : req'[c] = reqs[c]
      /\ \A l \in Loads : /\ req'[l].leg = reqs[l].leg /\ req'[l].answer = reqs[l].answer
                          /\ reqs[l].over \subseteq req'[l].over
                          /\ \A h \in gs : Spared(l, h)
  BY <1>3, <1>4, <1>5, DoubtingKeeps
<1>7. GroupsTypeOK'
  <2>1. doubt' \subseteq Groups /\ mishaps' \in 0..MaxMishaps
    BY <1>0, <1>3, <1>4, GroupsAssumption DEF GroupsTypeOK
  <2> QED
    BY <1>0, <1>3, <1>6, <2>1 DEF GroupsTypeOK
<1>8. \A c \in Kinds \ Loads :
        \/ req'[c] = req[c]
        \/ /\ req'[c].leg = "failed" /\ req'[c].g = req[c].g /\ req[c].leg # "idle"
           /\ c \in Changes => req[c].g \in gs
  BY <1>3, <1>4, <1>5, <1>6
<1>9. \A l \in Loads :
        /\ req'[l].answer = req[l].answer /\ req[l].over \subseteq req'[l].over
        /\ \/ req'[l].leg = req[l].leg /\ \A h \in gs : Spared(l, h)
           \/ req[l].leg # "idle" /\ req'[l].leg = "failed"
  BY <1>3, <1>5, <1>6, KindFacts
<1> QED
  BY <1>3, <1>4, <1>7, <1>8, <1>9, InDoubt

(* Other people change a group.                                            *)
LEMMA OthersChangeKeeps ==
  ASSUME GroupsInv, NEW g \in Groups, OthersChange(g)
  PROVE  GroupsInv'
<1>0. GroupsTypeOK
  BY DEF GroupsInv
<1>1. /\ list' = list /\ share' = share /\ sent' = sent
      /\ mishaps' = mishaps + 1 /\ mishaps < MaxMishaps /\ group[g].used
      /\ req' = Doubting(req, {g}) /\ doubt' = doubt \cup {g}
  BY DEF OthersChange
<1>2. PICK rev \in 0..MaxRevision : Change(g, rev)
  <2>1. group[g].rev \in 0..MaxRevision
    BY <1>0, GroupsFacts
  <2>2. CASE group[g].rev < MaxRevision /\ Change(g, group[g].rev + 1)
    <3>1. PICK rev : rev = group[g].rev + 1
      OBVIOUS
    <3>2. rev \in 0..MaxRevision
      BY <2>1, <2>2, <3>1, GroupsAssumption
    <3> QED
      BY <2>2, <3>1, <3>2
  <2>3. CASE Change(g, 0)
    <3>1. 0 \in 0..MaxRevision
      BY GroupsAssumption
    <3> QED
      BY <2>3, <3>1
  <2> QED
    BY <2>2, <2>3 DEF OthersChange
<1>3. /\ group' \in [Groups -> [rev : 0..MaxRevision, mine : BOOLEAN, used : BOOLEAN]]
      /\ group'[g].rev = rev /\ group'[g].used /\ group'[g].mine = group[g].mine
      /\ \A h \in Groups \ {g} : group'[h] = group[h]
  BY <1>0, <1>2, ChangedOne
<1>4. {g} \in SUBSET Groups /\ req \in [Kinds -> Calls]
  BY <1>0 DEF GroupsTypeOK
<1>5. /\ req' \in [Kinds -> Calls]
      /\ \A c \in Kinds \ Loads : req'[c] = req[c]
      /\ \A l \in Loads : /\ req'[l].leg = req[l].leg /\ req'[l].answer = req[l].answer
                          /\ req[l].over \subseteq req'[l].over
                          /\ \A h \in {g} : Spared(l, h)
  BY <1>1, <1>4, DoubtingKeeps
<1>6. GroupsTypeOK'
  <2>1. doubt' \subseteq Groups /\ mishaps' \in 0..MaxMishaps
    BY <1>0, <1>1, GroupsAssumption DEF GroupsTypeOK
  <2> QED
    BY <1>0, <1>1, <1>3, <1>5, <2>1 DEF GroupsTypeOK
<1>7. \A h \in Groups : /\ group'[h].mine = group[h].mine /\ group'[h].used = group[h].used
                        /\ group'[h] = group[h] \/ (h \in {g} /\ group[h].used)
  <2>1. group'[g].used = group[g].used
    <3>1. group[g].used = TRUE /\ group'[g].used = TRUE
      BY <1>0, <1>1, <1>3, <1>6, GroupsFacts DEF GroupsTypeOK
    <3> QED
      BY <3>1
  <2> QED
    BY <1>1, <1>3, <2>1
<1> QED
  BY <1>1, <1>4, <1>5, <1>6, <1>7, InDoubt

(* The page hears a request about one group.                               *)
LEMMA OneHeard ==
  ASSUME GroupsInv, NEW k \in Kinds \ Loads, NEW g \in Groups, req[k].g = g,
         req[k].leg # "idle", req' = [req EXCEPT ![k] = Idle],
         list' \in [loaded : BOOLEAN, cards : Seq(Cards)],
         \A h \in Groups \ {g} : Alike(list.cards, list'.cards, h),
         Ids(list'.cards) \subseteq Ids(list.cards) \cup {g},
         g \in Ids(list'.cards) => g \in Ids(list.cards) \/ group[g].used,
         Right(g) => Right(g)',
         UNCHANGED <<group, share, doubt, sent, mishaps>>
  PROVE  GroupsInv'
<1>0. GroupsTypeOK /\ k \in Kinds
  BY DEF GroupsInv
<1>1. /\ group' = group /\ share' = share /\ doubt' = doubt /\ sent' = sent
      /\ mishaps' = mishaps
  OBVIOUS
<1>2. Idle \in Calls /\ Idle.leg = "idle"
  BY <1>0, GroupsFacts DEF Idle
<1>3. /\ req' \in [Kinds -> Calls] /\ req'[k].leg = "idle"
      /\ \A c \in Kinds \ {k} : req'[c] = req[c]
  BY <1>0, <1>2 DEF GroupsTypeOK
<1>4. GroupsTypeOK'
  BY <1>0, <1>1, <1>3 DEF GroupsTypeOK
<1>5. RequestOK(k)'
  BY <1>3 DEF RequestOK
<1>6. /\ \A h \in Groups \ {g} : group'[h] = group[h] /\ Alike(list.cards, list'.cards, h)
      /\ group'[g] = group[g] /\ g \in Ids(list'.cards) => g \in Ids(list.cards) \/ group'[g].used
  BY <1>1
<1> QED
  BY <1>1, <1>3, <1>4, <1>5, <1>6, OneGroup

(* A failure is told, or the link of a share.                              *)
LEMMA ToldKeeps ==
  ASSUME GroupsInv, NEW k \in Kinds, Told(k)
  PROVE  GroupsInv'
<1>0. /\ GroupsTypeOK /\ k \in Kinds \ Loads /\ req[k].leg # "idle" /\ RequestOK(k)
      /\ k # ToShare => req[k].leg = "failed"
  BY DEF GroupsInv, Told
<1>1. PICK g \in Groups : g = req[k].g
  BY <1>0 DEF RequestOK
<1>2. /\ req' = [req EXCEPT ![k] = Idle] /\ list' = list /\ group' = group
      /\ UNCHANGED <<group, share, doubt, sent, mishaps>>
  BY DEF Told
<1>3. req'[k].leg = "idle" /\ \A c \in Kinds \ {k} : req'[c] = req[c]
  BY <1>0, <1>2 DEF GroupsTypeOK, Idle
<1>4. \A c \in Changes : Calm(c, g)
  BY <1>0, <1>1, <1>3, KindFacts DEF Calm, Pending, Due
<1>5. Right(g) => Right(g)'
  BY <1>0, <1>2, <1>4, RightLasts, AlikeSame
<1>6. /\ list' \in [loaded : BOOLEAN, cards : Seq(Cards)] /\ Ids(list'.cards) = Ids(list.cards)
      /\ \A h \in Groups \ {g} : Alike(list.cards, list'.cards, h)
  BY <1>0, <1>2, AlikeSame DEF GroupsTypeOK
<1> QED
  BY <1>0, <1>1, <1>2, <1>5, <1>6, OneHeard

(* The created group is put before the others.                             *)
LEMMA CreateHeardKeeps == GroupsInv /\ CreateHeard => GroupsInv'
<1> SUFFICES ASSUME GroupsInv, CreateHeard PROVE GroupsInv'
  OBVIOUS
<1>0. GroupsTypeOK /\ ToCreate \in Kinds \ Loads /\ RequestOK(ToCreate)
  BY KindFacts DEF GroupsInv
<1>1. PICK g \in Groups : g = req[ToCreate].g
  BY <1>0 DEF RequestOK, CreateHeard
<1>2. /\ req[ToCreate].leg = "served" /\ req[ToCreate].answer = Card(g, 1) /\ group[g].used
      /\ req' = [req EXCEPT ![ToCreate] = Idle] /\ group' = group
      /\ list' = [loaded |-> TRUE, cards |-> Card(g, 1) \o list.cards]
      /\ UNCHANGED <<group, share, doubt, sent, mishaps>>
  BY <1>0, <1>1 DEF CreateHeard, RequestOK
<1>3. 1 \in 1..MaxRevision /\ list.cards \in Seq(Cards) /\ list'.cards = Card(g, 1) \o list.cards
  BY <1>0, <1>2, GroupsAssumption, GroupsFacts
<1>4. /\ list'.cards \in Seq(Cards) /\ Ids(list'.cards) \subseteq Ids(list.cards) \cup {g}
      /\ Lacks(list.cards, g) => Shows(list'.cards, g, 1)
      /\ \A h \in Groups \ {g} : Alike(list.cards, list'.cards, h)
  BY <1>3, PrependedCard
<1>5. req'[ToCreate].leg = "idle" /\ \A c \in Kinds \ {ToCreate} : req'[c] = req[c]
  BY <1>0, <1>2 DEF GroupsTypeOK, Idle
<1>6. ASSUME Right(g) PROVE Right(g)'
  <2>1. /\ Due(ToJoin, g)' <=> Due(ToJoin, g)
        /\ Due(ToInvite(g), g)' <=> Due(ToInvite(g), g)
        /\ Due(ToDelete(g), g)' <=> Due(ToDelete(g), g)
        /\ ~Due(ToCreate, g)' /\ ~Pending(ToCreate, g)'
    BY <1>5, KindFacts, CardFacts DEF Due, Pending
  <2>2. Due(ToCreate, g) /\ Pending(ToCreate, g)
    BY <1>1, <1>2 DEF Due, Pending
  <2>3. CASE Due(ToJoin, g)
    BY <2>1, <2>3 DEF Right
  <2>4. CASE /\ ~Due(ToJoin, g) /\ group[g].rev = 1 /\ Lacks(list.cards, g)
             /\ ~Pending(ToInvite(g), g) /\ ~Pending(ToDelete(g), g)
    <3>1. Tells(list.cards, g)'
      BY <1>2, <1>4, <2>4 DEF Tells
    <3>2. ~Due(ToInvite(g), g) /\ ~Due(ToDelete(g), g)
      BY <2>4 DEF Due, Pending
    <3>3. \A c \in About(g) : ~Due(c, g)'
      BY <2>1, <2>4, <3>2, KindFacts, CardFacts DEF About
    <3> QED
      BY <2>1, <3>1, <3>3 DEF Right
  <2>5. Due(ToJoin, g) \/ /\ group[g].rev = 1 /\ Lacks(list.cards, g)
                          /\ ~Pending(ToInvite(g), g) /\ ~Pending(ToDelete(g), g)
    BY <1>6, <2>2, KindFacts, CardFacts DEF Right, About
  <2> QED
    BY <2>3, <2>4, <2>5
<1>7. list' \in [loaded : BOOLEAN, cards : Seq(Cards)]
  BY <1>2, <1>3, <1>4
<1>8. req[ToCreate].leg # "idle"
  BY <1>2
<1> QED
  BY <1>0, <1>1, <1>2, <1>4, <1>6, <1>7, <1>8, OneHeard

(* The answer to an invitation replaces the card of its group.             *)
LEMMA InviteHeardKeeps ==
  ASSUME GroupsInv, NEW g \in Groups, InviteHeard(g)
  PROVE  GroupsInv'
<1>0. GroupsTypeOK /\ ToInvite(g) \in Kinds \ Loads /\ RequestOK(ToInvite(g))
  BY KindFacts, CardFacts DEF GroupsInv
<1>1. g = req[ToInvite(g)].g
  BY <1>0, CardFacts DEF RequestOK, InviteHeard
<1>2. PICK rev \in 1..MaxRevision : req[ToInvite(g)].answer = Card(g, rev)
  BY <1>0, <1>1, CardFacts DEF RequestOK, InviteHeard
<1>3. /\ req[ToInvite(g)].leg = "served" /\ group[g].used
      /\ req' = [req EXCEPT ![ToInvite(g)] = Idle] /\ group' = group
      /\ UNCHANGED <<group, share, doubt, sent, mishaps>>
  BY <1>0, <1>1, CardFacts DEF InviteHeard, RequestOK
<1>4. /\ list \in [loaded : BOOLEAN, cards : Seq(Cards)] /\ list.cards \in Seq(Cards)
      /\ req[ToInvite(g)].answer[1] = [id |-> g, rev |-> rev]
  BY <1>0, <1>2, CardTyped DEF GroupsTypeOK
<1>5. PICK new : new = [i \in DOMAIN list.cards |->
                          IF list.cards[i].id = g THEN [id |-> g, rev |-> rev] ELSE list.cards[i]]
  OBVIOUS
<1>6. list' = [list EXCEPT !.cards = new]
  BY <1>1, <1>4, <1>5 DEF InviteHeard
<1>7. /\ new \in Seq(Cards) /\ Ids(new) \subseteq Ids(list.cards)
      /\ Has(list.cards, g) => Shows(new, g, rev)
      /\ Lacks(list.cards, g) => Lacks(new, g)
      /\ \A h \in Groups \ {g} : Alike(list.cards, new, h)
  BY <1>4, <1>5, PatchedCard
<1>8. list' \in [loaded : BOOLEAN, cards : Seq(Cards)] /\ list'.cards = new
  BY <1>4, <1>6, <1>7
<1>9. req'[ToInvite(g)].leg = "idle" /\ \A c \in Kinds \ {ToInvite(g)} : req'[c] = req[c]
  BY <1>0, <1>3 DEF GroupsTypeOK, Idle
<1>10. ASSUME Right(g) PROVE Right(g)'
  <2>1. /\ Due(ToJoin, g)' <=> Due(ToJoin, g)
        /\ Due(ToCreate, g)' <=> Due(ToCreate, g)
        /\ Due(ToDelete(g), g)' <=> Due(ToDelete(g), g)
        /\ Pending(ToCreate, g)' <=> Pending(ToCreate, g)
        /\ ~Due(ToInvite(g), g)'
    BY <1>9, KindFacts, CardFacts DEF Due, Pending
  <2>2. Due(ToInvite(g), g) /\ Pending(ToInvite(g), g)
    BY <1>1, <1>3 DEF Due, Pending
  <2>3. CASE Due(ToJoin, g)
    BY <2>1, <2>3 DEF Right
  <2>4. CASE Due(ToDelete(g), g) /\ group[g].rev = 0 /\ ~Pending(ToCreate, g)
    BY <1>3, <2>1, <2>4 DEF Right
  <2>5. CASE /\ ~Due(ToJoin, g) /\ ~Due(ToDelete(g), g) /\ ~Pending(ToCreate, g)
             /\ IF group[g].rev > 0
                THEN Has(list.cards, g) /\ req[ToInvite(g)].answer = Card(g, group[g].rev)
                ELSE Lacks(list.cards, g)
    <3>1. Tells(new, g)
      <4>1. CASE group[g].rev > 0
        <5>1. Shows(new, g, rev) /\ Card(g, group[g].rev) = Card(g, rev)
          BY <1>2, <1>7, <2>5, <4>1
        <5>2. group[g].rev = rev
          BY <5>1 DEF Card
        <5> QED
          BY <4>1, <5>1, <5>2 DEF Tells
      <4>2. CASE ~(group[g].rev > 0)
        BY <1>7, <2>5, <4>2 DEF Tells
      <4> QED
        BY <4>1, <4>2
    <3>2. Tells(list.cards, g)'
      BY <1>3, <1>8, <3>1 DEF Tells
    <3>3. ~Due(ToCreate, g)
      BY <2>5 DEF Due, Pending
    <3>4. \A c \in About(g) : ~Due(c, g)'
      BY <2>1, <2>5, <3>3, KindFacts, CardFacts DEF About
    <3>5. ~Pending(ToCreate, g)'
      BY <2>1, <2>5
    <3> QED
      BY <3>2, <3>4, <3>5 DEF Right
  <2>6. \/ Due(ToJoin, g)
        \/ Due(ToDelete(g), g) /\ group[g].rev = 0 /\ ~Pending(ToCreate, g)
        \/ /\ ~Pending(ToCreate, g) /\ (Due(ToDelete(g), g) => group[g].rev = 0)
           /\ IF group[g].rev > 0
              THEN Has(list.cards, g) /\ req[ToInvite(g)].answer = Card(g, group[g].rev)
              ELSE Lacks(list.cards, g)
    BY <1>10, <2>2, KindFacts, CardFacts DEF Right, About
  <2> QED
    BY <2>3, <2>4, <2>5, <2>6
<1>11. req[ToInvite(g)].leg # "idle" /\ \A h \in Groups \ {g} : Alike(list.cards, list'.cards, h)
  BY <1>3, <1>7, <1>8
<1> QED
  BY <1>0, <1>1, <1>3, <1>7, <1>8, <1>10, <1>11, OneHeard

(* The cards of the deleted group go.                                      *)
LEMMA DeleteHeardKeeps ==
  ASSUME GroupsInv, NEW g \in Groups, DeleteHeard(g)
  PROVE  GroupsInv'
<1>0. GroupsTypeOK /\ ToDelete(g) \in Kinds \ Loads /\ RequestOK(ToDelete(g))
  BY KindFacts, CardFacts DEF GroupsInv
<1>1. g = req[ToDelete(g)].g
  BY <1>0, CardFacts DEF RequestOK, DeleteHeard
<1>2. /\ req[ToDelete(g)].leg = "served" /\ group[g].used
      /\ req' = [req EXCEPT ![ToDelete(g)] = Idle] /\ group' = group
      /\ UNCHANGED <<group, share, doubt, sent, mishaps>>
  BY <1>0, <1>1, CardFacts DEF DeleteHeard, RequestOK
<1>3. list \in [loaded : BOOLEAN, cards : Seq(Cards)] /\ list.cards \in Seq(Cards)
  BY <1>0 DEF GroupsTypeOK
<1>4. PICK I : I = {i \in DOMAIN list.cards : list.cards[i].id # g}
  OBVIOUS
<1>5. PICK new : new = Kept(list.cards, I)
  OBVIOUS
<1>6. /\ I \in SUBSET DOMAIN list.cards
      /\ \A i \in DOMAIN list.cards : i \in I <=> list.cards[i].id # g
  BY <1>4
<1>7. list' = [list EXCEPT !.cards = new]
  BY <1>1, <1>4, <1>5 DEF DeleteHeard, Filter, Kept
<1>8. /\ new \in Seq(Cards) /\ Ids(new) \subseteq Ids(list.cards) /\ Lacks(new, g)
      /\ \A h \in Groups \ {g} : Alike(list.cards, new, h)
  BY <1>3, <1>5, <1>6, DroppedCard, CardFacts
<1>9. list' \in [loaded : BOOLEAN, cards : Seq(Cards)] /\ list'.cards = new
  BY <1>3, <1>7, <1>8
<1>10. req'[ToDelete(g)].leg = "idle" /\ \A c \in Kinds \ {ToDelete(g)} : req'[c] = req[c]
  BY <1>0, <1>2 DEF GroupsTypeOK, Idle
<1>11. ASSUME Right(g) PROVE Right(g)'
  <2>1. /\ Due(ToJoin, g)' <=> Due(ToJoin, g)
        /\ Due(ToCreate, g)' <=> Due(ToCreate, g)
        /\ Due(ToInvite(g), g)' <=> Due(ToInvite(g), g)
        /\ Pending(ToCreate, g)' <=> Pending(ToCreate, g)
        /\ ~Due(ToDelete(g), g)'
    BY <1>10, KindFacts, CardFacts DEF Due, Pending
  <2>2. Due(ToDelete(g), g) /\ Pending(ToDelete(g), g)
    BY <1>1, <1>2 DEF Due, Pending
  <2>3. CASE Due(ToJoin, g)
    BY <2>1, <2>3 DEF Right
  <2>4. CASE ~Due(ToJoin, g) /\ group[g].rev = 0 /\ ~Pending(ToCreate, g)
    <3>1. Lacks(list'.cards, g) /\ group'[g].rev = 0 /\ ~(group'[g].rev > 0)
      BY <1>2, <1>8, <1>9, <2>4
    <3>2. CASE Due(ToInvite(g), g)
      BY <2>1, <2>4, <3>1, <3>2 DEF Right
    <3>3. CASE ~Due(ToInvite(g), g)
      <4>1. Tells(list.cards, g)'
        BY <3>1 DEF Tells
      <4>2. ~Due(ToCreate, g)
        BY <2>4 DEF Due, Pending
      <4>3. \A c \in About(g) : ~Due(c, g)'
        BY <2>1, <2>4, <3>3, <4>2, KindFacts, CardFacts DEF About
      <4>4. ~Pending(ToCreate, g)'
        BY <2>1, <2>4
      <4> QED
        BY <4>1, <4>3, <4>4 DEF Right
    <3> QED
      BY <3>2, <3>3
  <2>5. Due(ToJoin, g) \/ (group[g].rev = 0 /\ ~Pending(ToCreate, g))
    BY <1>11, <2>2, KindFacts, CardFacts DEF Right, About
  <2> QED
    BY <2>3, <2>4, <2>5
<1>12. req[ToDelete(g)].leg # "idle" /\ \A h \in Groups \ {g} : Alike(list.cards, list'.cards, h)
  BY <1>2, <1>8, <1>9
<1> QED
  BY <1>0, <1>1, <1>2, <1>8, <1>9, <1>11, <1>12, OneHeard

(* After a join the list is loaded again.                                  *)
LEMMA JoinHeardKeeps == GroupsInv /\ JoinHeard => GroupsInv'
<1> SUFFICES ASSUME GroupsInv, JoinHeard PROVE GroupsInv'
  OBVIOUS
<1>0. GroupsTypeOK /\ UsageOK
  BY DEF GroupsInv
<1>1. PICK reqs : reqs = [req EXCEPT ![ToJoin] = Idle]
  OBVIOUS
<1>2. PICK free : free = IF reqs[ToLoad].leg = "idle" THEN ToLoad ELSE ToLoadAgain
  OBVIOUS
<1>3. /\ req' = [reqs EXCEPT ![free] = SentLoad(reqs)]
      /\ group' = group /\ list' = list /\ share' = share /\ doubt' = doubt /\ sent' = sent
      /\ mishaps' = mishaps
  BY <1>1, <1>2 DEF JoinHeard, Refresh
<1>4. /\ reqs \in [Kinds -> Calls] /\ reqs[ToJoin] = Idle /\ Idle.leg = "idle"
      /\ \A c \in Kinds \ {ToJoin} : reqs[c] = req[c]
  BY <1>0, <1>1, GroupsFacts, KindFacts DEF GroupsTypeOK, Idle
<1>5. free \in Loads
  BY <1>2, KindFacts
<1>6. Changing(reqs) \subseteq Groups
  <2>1. Changing(reqs) \subseteq Changing(req)
    BY <1>4, KindFacts DEF Changing
  <2> QED
    BY <2>1, SentLoads
<1>7. SentLoad(reqs) \in Calls /\ SentLoad(reqs).leg = "sent" /\ SentLoad(reqs).answer = <<>>
  BY <1>6, SentLoads
<1>8. /\ req' \in [Kinds -> Calls] /\ req'[free] = SentLoad(reqs)
      /\ \A c \in Kinds \ {free} : req'[c] = reqs[c]
  BY <1>3, <1>4, <1>5, <1>7, KindFacts
<1>9. GroupsTypeOK'
  BY <1>0, <1>3, <1>8 DEF GroupsTypeOK
<1>10. ASSUME NEW c \in Kinds \ Loads PROVE RequestOK(c)'
  <2>1. RequestOK(c)
    BY DEF GroupsInv
  <2>2. req'[c] = req[c] \/ req'[c].leg = "idle"
    BY <1>4, <1>5, <1>8
  <2> QED
    BY <1>0, <1>3, <2>1, <2>2, RequestLasts
<1>11. ASSUME NEW l \in Loads PROVE LoadOK(l)'
  <2>1. CASE l = free
    <3>1. \A c \in Changes : req'[c] = reqs[c]
      BY <1>5, <1>8, KindFacts
    <3> QED
      BY <1>8, <2>1, <3>1, NewLoad
  <2>2. CASE l # free
    <3>1. req'[l] = req[l] /\ LoadOK(l)
      BY <1>4, <1>8, <2>2, KindFacts DEF GroupsInv
    <3>2. \A c \in Changes : req'[c].leg # "idle" => req[c].leg # "idle" /\ req'[c].g = req[c].g
      BY <1>4, <1>5, <1>8, KindFacts
    <3> QED
      BY <1>3, <3>1, <3>2, LoadLasts
  <2> QED
    BY <2>1, <2>2
<1>12. UsageOK'
  <2>1. Ids(<<>>) = {}
    BY DEF Ids
  <2>2. \A l \in Loads : \A g \in Ids(req'[l].answer) : g \in Ids(req[l].answer)
    BY <1>4, <1>7, <1>8, <2>1, KindFacts
  <2> QED
    BY <1>0, <1>3, <1>9, <2>2, UsageLasts
<1>13. Settled'
  BY <1>5, <1>7, <1>8 DEF Settled, Loading
<1> QED
  BY <1>9, <1>10, <1>11, <1>12, <1>13 DEF GroupsInv

(* The answer to a load becomes the list.                                  *)
LEMMA LoadHeardKeeps ==
  ASSUME GroupsInv, NEW k \in Kinds, LoadHeard(k)
  PROVE  GroupsInv'
<1>0. GroupsTypeOK /\ UsageOK /\ k \in Loads /\ LoadOK(k) /\ req[k] \in Calls
  BY GroupsFacts DEF GroupsInv, LoadHeard
<1>1. /\ group' = group /\ share' = share /\ sent' = sent /\ mishaps' = mishaps
      /\ req' = [req EXCEPT ![k] = Idle]
      /\ \/ /\ req[k].leg = "served" /\ doubt' = req[k].over
            /\ list' = [loaded |-> TRUE, cards |-> req[k].answer]
         \/ req[k].leg = "failed" /\ doubt' = Groups /\ list' = list
  BY DEF LoadHeard
<1>2. Idle \in Calls /\ Idle.leg = "idle" /\ Idle.answer = <<>>
  BY <1>0, GroupsFacts DEF Idle
<1>3. /\ req' \in [Kinds -> Calls] /\ req'[k] = Idle
      /\ \A c \in Kinds \ {k} : req'[c] = req[c]
  BY <1>0, <1>1, <1>2 DEF GroupsTypeOK
<1>4. list' \in [loaded : BOOLEAN, cards : Seq(Cards)] /\ doubt' \subseteq Groups
  <2>1. req[k].answer \in Seq(Cards) /\ req[k].over \subseteq Groups
    BY <1>0 DEF Calls
  <2>2. list \in [loaded : BOOLEAN, cards : Seq(Cards)]
    BY <1>0 DEF GroupsTypeOK
  <2>3. CASE doubt' = req[k].over /\ list' = [loaded |-> TRUE, cards |-> req[k].answer]
    BY <2>1, <2>3
  <2>4. CASE doubt' = Groups /\ list' = list
    BY <2>2, <2>4
  <2> QED
    BY <1>1, <2>3, <2>4
<1>5. GroupsTypeOK'
  BY <1>0, <1>1, <1>3, <1>4 DEF GroupsTypeOK
<1>6. ASSUME NEW c \in Kinds \ Loads PROVE RequestOK(c)'
  <2>1. RequestOK(c) /\ req'[c] = req[c]
    BY <1>0, <1>3 DEF GroupsInv
  <2> QED
    BY <1>0, <1>1, <2>1, RequestLasts
<1>7. \A c \in Changes : req'[c] = req[c]
  BY <1>0, <1>3, KindFacts
<1>8. ASSUME NEW l \in Loads PROVE LoadOK(l)'
  <2>1. CASE l = k
    BY <1>2, <1>3, <2>1 DEF LoadOK
  <2>2. CASE l # k
    <3>1. LoadOK(l) /\ req'[l] = req[l]
      BY <1>3, <2>2, KindFacts DEF GroupsInv
    <3> QED
      BY <1>1, <1>7, <3>1, LoadLasts
  <2> QED
    BY <2>1, <2>2
<1>9. UsageOK'
  <2>1. Ids(<<>>) = {}
    BY DEF Ids
  <2>2. \A l \in Loads : \A g \in Ids(req'[l].answer) : g \in Ids(req[l].answer)
    BY <1>2, <1>3, <2>1, KindFacts
  <2>3. \A g \in Ids(req[k].answer) : group[g].used
    BY <1>0 DEF UsageOK
  <2>4. \A g \in Ids(list'.cards) : g \in Ids(list.cards) \/ group'[g].used
    BY <1>1, <2>3
  <2> QED
    BY <1>0, <1>1, <1>5, <2>2, <2>4, UsageLasts
<1>10. Settled'
  <2>1. CASE doubt' = Groups
    BY <2>1 DEF Settled
  <2>2. CASE /\ req[k].leg = "served" /\ doubt' = req[k].over
             /\ list' = [loaded |-> TRUE, cards |-> req[k].answer]
    <3>1. ASSUME NEW g \in Groups \ doubt' PROVE Right(g)'
      <4>1. g \notin Changing(req) /\ Tells(req[k].answer, g)
        BY <1>0, <2>2, <3>1 DEF LoadOK
      <4>2. \A c \in Changes : ~Pending(c, g)
        BY <4>1 DEF Changing, Pending
      <4>3. \A c \in About(g) : ~Due(c, g)' /\ ~Pending(c, g)'
        BY <1>7, <4>2, CardFacts DEF Due, Pending, About
      <4>4. Tells(list.cards, g)'
        BY <1>1, <2>2, <4>1 DEF Tells
      <4> QED
        BY <4>3, <4>4, KindFacts, CardFacts DEF Right, About
    <3> QED
      BY <3>1 DEF Settled
  <2> QED
    BY <1>1, <2>1, <2>2
<1> QED
  BY <1>5, <1>6, <1>8, <1>9, <1>10 DEF GroupsInv

(* Every step of the groups page, of tools-service and of other people.    *)
LEMMA GroupsKept == GroupsInv /\ [GroupsStep]_groupsVars => GroupsInv'
<1> SUFFICES ASSUME GroupsInv, [GroupsStep]_groupsVars PROVE GroupsInv'
  OBVIOUS
<1>1. CASE UNCHANGED groupsVars
  <2>1. /\ group' = group /\ req' = req /\ list' = list /\ share' = share /\ doubt' = doubt
        /\ sent' = sent /\ mishaps' = mishaps
    BY <1>1 DEF groupsVars
  <2>2. GroupsTypeOK'
    BY <2>1 DEF GroupsInv, GroupsTypeOK
  <2> QED
    BY <2>1, <2>2, NoDoubt
<1>2. CASE Mount
  BY <1>2, MountKeeps
<1>3. CASE Create \/ Share \/ \E g \in Groups : Join(g) \/ Invite(g) \/ Delete(g)
  BY <1>3, FormsKeep
<1>4. CASE Select \/ \E g \in {0} \cup Groups : Choose(g)
  BY <1>4, SelectKeeps
<1>5. CASE \E g \in Groups : OthersChange(g)
  BY <1>5, OthersChangeKeeps
<1>6. CASE \E k \in Kinds : Served(k)
  BY <1>6, ServedKeeps
<1>7. CASE \E k \in Kinds : Lost(k)
  BY <1>7, LostKeeps
<1>8. CASE \E k \in Kinds : LoadHeard(k)
  BY <1>8, LoadHeardKeeps
<1>9. CASE \E k \in Kinds : Told(k)
  BY <1>9, ToldKeeps
<1>10. CASE CreateHeard \/ JoinHeard \/ \E g \in Groups : InviteHeard(g) \/ DeleteHeard(g)
  BY <1>10, CreateHeardKeeps, JoinHeardKeeps, InviteHeardKeeps, DeleteHeardKeeps
<1> QED
  BY <1>1, <1>2, <1>3, <1>4, <1>5, <1>6, <1>7, <1>8, <1>9, <1>10 DEF GroupsStep

(* Nothing is under way, and the page has its list.                        *)
LEMMA SettledIsTrue == GroupsInv => ListIsTrue
<1> SUFFICES ASSUME GroupsInv, list.loaded, \A k \in Kinds : req[k].leg = "idle",
                    NEW g \in Groups \ doubt
             PROVE  Tells(list.cards, g)
  BY DEF ListIsTrue
<1>1. ~Unmounted /\ ~Loading
  BY KindFacts DEF Unmounted, Loading
<1>2. Right(g)
  BY <1>1 DEF GroupsInv, Settled
<1>3. \A k \in About(g) : ~Due(k, g)
  BY KindFacts, CardFacts DEF Due
<1> QED
  BY <1>2, <1>3, KindFacts, CardFacts DEF Right, About

(* The requests of the groups page, its list and its panel have their      *)
(* types.                                                                  *)
THEOREM GroupsTypeSafety == GroupsSpec => []GroupsTypeOK
<1>1. GroupsInv => GroupsTypeOK
  BY DEF GroupsInv
<1> QED
  BY GroupsStart, GroupsKept, <1>1, PTL DEF GroupsSpec

(* When nothing is under way, the groups page shows each group that is not *)
(* in doubt once, with its members as they are, or not at all when it is   *)
(* not visible.                                                            *)
THEOREM ListsAreTrue == GroupsSpec => []ListIsTrue
BY GroupsStart, GroupsKept, SettledIsTrue, PTL DEF GroupsSpec

=============================================================================
