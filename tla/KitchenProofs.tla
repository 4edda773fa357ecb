--------------------------- MODULE KitchenProofs ---------------------------
(***************************************************************************)
(* The chef keeps right books for any names, recipes, connections and      *)
(* goroutines that learn: the count of a recipe is the connections it has, *)
(* never above MaxConnections, no connection is leaked, and the order      *)
(* lists the named recipes once each.                                      *)
(*                                                                         *)
(* KitchenInv is inductive.  It adds that a connection is in one hand only *)
(* (HandsApart), that what a Learn has dialled is its own (LearnOK), that  *)
(* no recipe has two names (NamesApart), and what the places of Cook mean  *)
(* (CookOK).                                                               *)
(***************************************************************************)
EXTENDS Kitchen, SlicesProofs, FiniteSetTheorems

\* A connection that a Learn or a critic has in hand is in nobody's books.
HandsApart ==
  /\ \A t \in Learners : \A c \in learn[t].added :
       /\ byConn[c] = Nil /\ c # taster
       /\ \A x \in Learners : c \in learn[x].added => x = t
  /\ taster # Nil => byConn[taster] = Nil

\* A Learn has a recipe object of its own, not yet under any name.
LearnOK ==
  \A t \in Learners :
    /\ learn[t].recipe = Nil => learn[t].added = {}
    /\ learn[t].recipe # Nil =>
         /\ learn[t].name \in Names
         /\ \A n \in Names : byName[n] # learn[t].recipe
         /\ \A x \in Learners : learn[x].recipe = learn[t].recipe => x = t

\* No recipe is registered under two names.
NamesApart == \A n, m \in Names : byName[n] = byName[m] /\ byName[n] # Nil => n = m

\* The loop has a position, a dial or a tasting a recipe, and only a tasting a taster.
CookOK ==
  /\ cpc \in {"loop", "dialing"} => idx >= 1
  /\ cpc \in {"dialing", "tasting"} => cur \in Recipes
  /\ cpc # "tasting" => taster = Nil

\* The inductive invariant.
KitchenInv ==
  /\ Books /\ NoConnLeaked
  /\ HandsApart /\ LearnOK /\ NamesApart /\ CookOK

\* The connections that a Learn has dialled for r, and the one Cook is dialling.
Dialled(r) == UNION {learn[t].added : t \in {x \in Learners : learn[x].recipe = r}}
Busy(r) == IF cpc = "dialing" /\ cur = r THEN 1 ELSE 0

-----------------------------------------------------------------------------

\* There are finitely many connections.
LEMMA Finite ==
  ASSUME NEW S, S \subseteq Conns
  PROVE  IsFiniteSet(S) /\ Cardinality(S) \in Nat
BY Zenon, KitchenAssumption, FS_Subset, FS_CardinalityType

\* Cardinalities of sets of connections.
LEMMA Counting ==
  /\ Cardinality({}) = 0
  /\ \A S, T \in SUBSET Conns : S \cap T = {} => Cardinality(S \cup T) = Cardinality(S) + Cardinality(T)
  /\ \A S \in SUBSET Conns : \A c \in Conns \ S : Cardinality(S \cup {c}) = Cardinality(S) + 1
  /\ \A S \in SUBSET Conns : \A c \in S : Cardinality(S \ {c}) = Cardinality(S) - 1
<1>1. Cardinality({}) = 0
  BY Zenon, FS_EmptySet
<1>2. ASSUME NEW S \in SUBSET Conns, NEW T \in SUBSET Conns, S \cap T = {}
      PROVE  Cardinality(S \cup T) = Cardinality(S) + Cardinality(T)
  <2>1. IsFiniteSet(S) /\ IsFiniteSet(T) /\ Cardinality(S) \in Nat /\ Cardinality(T) \in Nat
    BY Zenon, Finite
  <2>2. Cardinality(S \cup T) = Cardinality(S) + Cardinality(T) - Cardinality(S \cap T)
    BY Zenon, <2>1, FS_Union
  <2>3. Cardinality(S \cap T) = 0
    BY Zenon, <1>1, <1>2
  <2> QED  BY <2>1, <2>2, <2>3
<1>3. ASSUME NEW S \in SUBSET Conns, NEW c \in Conns \ S
      PROVE  Cardinality(S \cup {c}) = Cardinality(S) + 1
  BY Zenon, <1>3, Finite, FS_AddElement
<1>4. ASSUME NEW S \in SUBSET Conns, NEW c \in S
      PROVE  Cardinality(S \ {c}) = Cardinality(S) - 1
  BY Zenon, <1>4, Finite, FS_RemoveElement
<1> QED  BY Zenon, <1>1, <1>2, <1>3, <1>4

\* The sets of connections that the books count.
LEMMA CountedSets ==
  ASSUME TypeOK, NEW r \in Recipes
  PROVE  /\ ConnsOf(r) \in SUBSET Conns /\ Dialled(r) \in SUBSET Conns
         /\ Cardinality(ConnsOf(r)) \in Nat /\ Cardinality(Dialled(r)) \in Nat
         /\ Busy(r) \in 0..1
         /\ InFlight(r) = Busy(r) + Cardinality(Dialled(r))
<1>1. ConnsOf(r) \in SUBSET Conns
  BY Zenon DEF ConnsOf
<1>2. Dialled(r) \in SUBSET Conns
  BY DEF Dialled, TypeOK
<1> QED  BY <1>1, <1>2, Finite DEF Busy, InFlight, Dialled

\* What is dialled for a recipe is what its one Learn has dialled.
LEMMA OneLearner ==
  ASSUME LearnOK, NEW t \in Learners, learn[t].recipe # Nil
  PROVE  Dialled(learn[t].recipe) = learn[t].added
BY DEF Dialled, LearnOK

\* Somebody answers for c: the books, a Learn or a critic.
Owned(c) == byConn[c] # Nil \/ c = taster \/ \E t \in Learners : c \in learn[t].added

\* No connection is leaked iff the open ones are those somebody answers for.
LEMMA OpenOwned ==
  ASSUME TypeOK
  PROVE  NoConnLeaked <=> \A c \in Conns : c \in open <=> Owned(c)
<1> DEFINE hands == UNION {learn[t].added : t \in Learners}
           held == {c \in Conns : byConn[c] # Nil} \cup hands \cup ({taster} \ {Nil})
<1>3. NoConnLeaked <=> open = held
  BY Zenon DEF NoConnLeaked
<1>4. \A c : c \in hands <=> \E t \in Learners : c \in learn[t].added
  BY Zenon
<1> HIDE DEF hands
<1>1. \A c \in Conns : c \in held <=> Owned(c)
  BY Zenon, <1>4, KitchenAssumption DEF Owned
<1>5. \A t \in Learners : learn[t].added \subseteq Conns
  BY Zenon DEF TypeOK
<1>2. held \subseteq Conns /\ open \subseteq Conns
  BY Zenon, <1>4, <1>5 DEF TypeOK
<1> HIDE DEF held
<1> QED  BY Zenon, <1>1, <1>2, <1>3

\* The same in the next state.
LEMMA OpenOwnedP ==
  ASSUME TypeOK', \A c \in Conns : c \in open' <=> Owned(c)'
  PROVE  NoConnLeaked'
<1> DEFINE hands == UNION {learn'[t].added : t \in Learners}
           held == {c \in Conns : byConn'[c] # Nil} \cup hands \cup ({taster'} \ {Nil})
<1>3. NoConnLeaked' <=> open' = held
  BY Zenon DEF NoConnLeaked
<1>4. \A c : c \in hands <=> \E t \in Learners : c \in learn'[t].added
  BY Zenon
<1> HIDE DEF hands
<1>1. \A c \in Conns : c \in held <=> Owned(c)'
  BY Zenon, <1>4, KitchenAssumption DEF Owned
<1>5. \A t \in Learners : learn'[t].added \subseteq Conns
  BY Zenon DEF TypeOK
<1>2. held \subseteq Conns /\ open' \subseteq Conns
  BY Zenon, <1>4, <1>5 DEF TypeOK
<1> HIDE DEF held
<1> QED  BY Zenon, <1>1, <1>2, <1>3

\* The initial state.
LEMMA KitchenInitially == Init => KitchenInv
<1> SUFFICES ASSUME Init PROVE KitchenInv
  BY Zenon
<1> USE DEF Init, NotLearning
<1>1. TypeOK
  BY Zenon, KitchenAssumption, EmptyElements DEF TypeOK
<1>2. \A r \in Recipes : ConnsOf(r) = {} /\ Dialled(r) = {} /\ Busy(r) = 0
  BY Zenon, KitchenAssumption DEF ConnsOf, Dialled, Busy
<1>3. Accounting
  BY <1>1, <1>2, Counting, CountedSets DEF Accounting
<1>4. WithinMax
  BY KitchenAssumption DEF WithinMax
<1>5. OrderMatchesNames
  BY Zenon, EmptyElements DEF OrderMatchesNames
<1>6. NoConnLeaked
  BY Zenon DEF NoConnLeaked
<1>7. HandsApart /\ LearnOK /\ NamesApart /\ CookOK
  BY Zenon DEF HandsApart, LearnOK, NamesApart, CookOK
<1> QED  BY Zenon, <1>1, <1>3, <1>4, <1>5, <1>6, <1>7 DEF KitchenInv, Books

-----------------------------------------------------------------------------
\* The counts are right if no connection and no place changes hands.
LEMMA SameBooks ==
  ASSUME KitchenInv, TypeOK', UNCHANGED <<byConn, count, learn>>,
         \A r \in Recipes : Busy(r)' = Busy(r)
  PROVE  Accounting' /\ WithinMax'
<1>1. \A r \in Recipes : ConnsOf(r)' = ConnsOf(r) /\ Dialled(r)' = Dialled(r)
  BY Zenon DEF ConnsOf, Dialled
<1>2. \A r \in Recipes : InFlight(r)' = InFlight(r)
  BY Zenon DEF InFlight, Busy
<1> QED  BY Zenon, <1>1, <1>2 DEF KitchenInv, Books, Accounting, WithinMax

\* The order matches the names if neither changes.
LEMMA SameNames ==
  ASSUME KitchenInv, UNCHANGED <<byName, order>>
  PROVE  OrderMatchesNames' /\ NamesApart'
BY Zenon DEF KitchenInv, Books, OrderMatchesNames, NamesApart

\* Connections are not leaked if they stay in the same hands.
LEMMA SameHands ==
  ASSUME KitchenInv, UNCHANGED <<open, byConn, learn, taster>>
  PROVE  NoConnLeaked' /\ HandsApart'
BY DEF KitchenInv, NoConnLeaked, HandsApart

\* What a Learn holds is its own if no name and no Learn changes.
LEMMA SameLearners ==
  ASSUME KitchenInv, UNCHANGED <<byName, learn>>
  PROVE  LearnOK'
BY Zenon DEF KitchenInv, LearnOK

-----------------------------------------------------------------------------
\* The slice that the loop of Cook sees stays a slice of recipes when another
\* method writes to the array below it.
LEMMA OverwrittenType ==
  ASSUME TypeOK, NEW s \in Seq(Recipes)
  PROVE  Overwritten(s) \in Seq(Recipes)
<1>1. view \in Seq(Recipes) /\ Len(s) \in Nat /\ Len(view) \in Nat
  BY DEF TypeOK
<1> DEFINE rest == SubSeq(view, Len(s) + 1, Len(view))
           cells == s \o rest
<1>2. rest \in Seq(Recipes) /\ Len(s) + Len(rest) >= Len(view)
  <2>1. CASE Len(s) >= Len(view)
    BY <1>1, <2>1
  <2>2. CASE Len(s) < Len(view)
    <3>1. \A k \in (Len(s) + 1)..Len(view) : view[k] \in Recipes
      BY <1>1
    <3> QED  BY <1>1, <2>2, <3>1
  <2> QED  BY <1>1, <2>1, <2>2
<1> HIDE DEF rest
<1>3. cells \in Seq(Recipes) /\ Len(cells) = Len(s) + Len(rest)
  BY <1>1, <1>2
<1> HIDE DEF cells
<1>4. SubSeq(cells, 1, Len(view)) \in Seq(Recipes)
  <2>1. \A k \in 1..Len(view) : cells[k] \in Recipes
    BY <1>1, <1>2, <1>3
  <2> QED  BY <1>1, <2>1
<1> QED  BY Zenon, <1>1, <1>4 DEF Overwritten, cells, rest

\* Free for every connection of r, which is what Forget and Learn do.
LEMMA Freed ==
  ASSUME KitchenInv, NEW r \in Recipes
  PROVE  /\ count[r] - Cardinality(ConnsOf(r)) = InFlight(r)
         /\ InFlight(r) \in Nat
<1>1. TypeOK /\ count[r] = Cardinality(ConnsOf(r)) + InFlight(r)
  BY Zenon DEF KitchenInv, Books, Accounting
<1> QED  BY <1>1, CountedSets

\* Forgetting a name.
LEMMA ForgetStep ==
  ASSUME KitchenInv, NEW n \in Names, Forget(n)
  PROVE  KitchenInv'
<1>t. TypeOK
  BY Zenon DEF KitchenInv, Books
<1>r. PICK r \in Recipes : r = byName[n]
  BY Zenon DEF Forget, KitchenInv, Books, TypeOK
<1>a. /\ r \in Recipes
      /\ byName' = [byName EXCEPT ![n] = Nil]
      /\ count' = [count EXCEPT ![r] = @ - Cardinality(ConnsOf(r))]
      /\ byConn' = [c \in Conns |-> IF byConn[c] = r THEN Nil ELSE byConn[c]]
      /\ open' = open \ ConnsOf(r)
      /\ order' = Remove(order, r)
      /\ view' = ViewAfterRemove(r)
      /\ UNCHANGED <<score, rated, learn, cpc, todo, taster, cur, shared, idx>>
  BY Zenon, <1>r DEF Forget, DropConns
<1>b. r # Nil
  BY Zenon, <1>a, KitchenAssumption
<1>o. order' \in Seq(Recipes) /\ Distinct(order') /\ Elements(order') = Elements(order) \ {r}
  BY <1>t, <1>a, RemoveProperties DEF KitchenInv, Books, OrderMatchesNames, TypeOK
<1>v. view' \in Seq(Recipes)
  <2>1. Append(Remove(order, r), r) \in Seq(Recipes)
    BY <1>a, <1>o
  <2> QED  BY Zenon, <1>t, <1>a, <2>1, OverwrittenType DEF ViewAfterRemove, TypeOK
<1>c. count' \in [Recipes -> Nat]
  BY Zenon, <1>t, <1>a, Freed DEF TypeOK
<1>1. TypeOK'
  BY Zenon, <1>t, <1>a, <1>o, <1>v, <1>c DEF TypeOK
<1>2. /\ ConnsOf(r)' = {}
      /\ \A q \in Recipes : q # r => ConnsOf(q)' = ConnsOf(q)
      /\ \A q \in Recipes : InFlight(q)' = InFlight(q)
  <2>1. ConnsOf(r)' = {}
    BY Zenon, <1>a, <1>b DEF ConnsOf
  <2>2. \A q \in Recipes : q # r => ConnsOf(q)' = ConnsOf(q)
    BY <1>a, KitchenAssumption DEF ConnsOf
  <2>3. \A q \in Recipes : InFlight(q)' = InFlight(q)
    BY Zenon, <1>a DEF InFlight
  <2> QED  BY Zenon, <2>1, <2>2, <2>3
<1>3. Accounting'
  <2> SUFFICES ASSUME NEW q \in Recipes
               PROVE  count'[q] = Cardinality(ConnsOf(q)') + InFlight(q)'
    BY Zenon DEF Accounting
  <2>1. CASE q = r
    <3>1. Cardinality(ConnsOf(r)') = 0
      BY Zenon, <1>2, Counting
    <3>2. count'[r] = InFlight(r)' /\ InFlight(r)' \in Nat
      BY Zenon, <1>t, <1>a, <1>2, Freed DEF TypeOK
    <3> QED  BY <2>1, <3>1, <3>2
  <2>2. CASE q # r
    BY Zenon, <1>t, <1>a, <1>2, <2>2 DEF TypeOK, KitchenInv, Books, Accounting
  <2> QED  BY Zenon, <2>1, <2>2
<1>4. WithinMax'
  <2>1. \A q \in Recipes : count'[q] <= count[q]
    BY <1>t, <1>a, CountedSets DEF TypeOK
  <2> QED  BY <1>t, <1>1, <2>1, KitchenAssumption DEF TypeOK, KitchenInv, Books, WithinMax
<1>5. OrderMatchesNames' /\ NamesApart'
  <2>1. NamesApart'
    BY Zenon, <1>t, <1>a DEF KitchenInv, NamesApart, TypeOK
  <2>2. {byName'[m] : m \in Names} \ {Nil} = ({byName[m] : m \in Names} \ {Nil}) \ {r}
    BY Zenon, <1>t, <1>r, <1>a, <1>b DEF KitchenInv, NamesApart, TypeOK
  <2> QED  BY Zenon, <1>o, <2>1, <2>2 DEF KitchenInv, Books, OrderMatchesNames
<1>6. NoConnLeaked'
  <2>1. \A x \in Conns : x \in open <=> Owned(x)
    BY Zenon, <1>t, OpenOwned DEF KitchenInv
  <2>2. \A x \in Conns : x \in open' <=> Owned(x)'
    BY <1>t, <1>a, <2>1, KitchenAssumption DEF Owned, KitchenInv, HandsApart, TypeOK, ConnsOf
  <2> QED  BY Zenon, <1>1, <2>2, OpenOwnedP
<1>7. HandsApart'
  BY Zenon, <1>t, <1>a DEF KitchenInv, HandsApart, TypeOK
<1>8. LearnOK'
  BY Zenon, <1>t, <1>a DEF KitchenInv, LearnOK, TypeOK
<1>9. CookOK'
  BY Zenon, <1>a DEF KitchenInv, CookOK
<1> QED  BY Zenon, <1>1, <1>3, <1>4, <1>5, <1>6, <1>7, <1>8, <1>9 DEF KitchenInv, Books

\* A connection leaves the kitchen: Burn and Ignite.
LEMMA DiscardStep ==
  ASSUME KitchenInv, NEW c \in Conns, byConn[c] # Nil, Discard(c)
  PROVE  KitchenInv'
<1>t. TypeOK
  BY Zenon DEF KitchenInv, Books
<1>r. PICK r \in Recipes : r = byConn[c]
  BY Zenon DEF KitchenInv, Books, TypeOK
<1>a. /\ r \in Recipes
      /\ byConn[c] = r /\ r # Nil
      /\ count' = [count EXCEPT ![r] = @ - 1]
      /\ open' = open \ {c}
      /\ byConn' = [byConn EXCEPT ![c] = Nil]
      /\ UNCHANGED <<byName, order, score, rated, learn, cpc, todo, taster, cur,
                     view, shared, idx>>
  BY Zenon, <1>r DEF Discard, cookVars
<1>2. /\ ConnsOf(r)' = ConnsOf(r) \ {c} /\ c \in ConnsOf(r)
      /\ \A q \in Recipes : q # r => ConnsOf(q)' = ConnsOf(q)
      /\ \A q \in Recipes : InFlight(q)' = InFlight(q)
  <2>1. ConnsOf(r)' = ConnsOf(r) \ {c} /\ c \in ConnsOf(r)
    BY Zenon, <1>t, <1>a DEF ConnsOf, TypeOK
  <2>2. \A q \in Recipes : q # r => ConnsOf(q)' = ConnsOf(q)
    BY Zenon, <1>t, <1>a, KitchenAssumption DEF ConnsOf, TypeOK
  <2>3. \A q \in Recipes : InFlight(q)' = InFlight(q)
    BY Zenon, <1>a DEF InFlight
  <2> QED  BY Zenon, <2>1, <2>2, <2>3
<1>3. count'[r] = Cardinality(ConnsOf(r)') + InFlight(r) /\ count'[r] \in Nat
  <2>1. Cardinality(ConnsOf(r)') = Cardinality(ConnsOf(r)) - 1
    BY Zenon, <1>t, <1>a, <1>2, Counting, CountedSets
  <2>2. Cardinality(ConnsOf(r)') \in Nat
    BY Zenon, Finite DEF ConnsOf
  <2>3. count'[r] = count[r] - 1
    BY Zenon, <1>t, <1>a DEF TypeOK
  <2>4. /\ count[r] = Cardinality(ConnsOf(r)) + InFlight(r)
        /\ Cardinality(ConnsOf(r)) \in Nat /\ InFlight(r) \in Nat
    BY Zenon, <1>t, <1>a, Freed, CountedSets DEF KitchenInv, Books, Accounting
  <2> QED  BY <2>1, <2>2, <2>3, <2>4
<1>1. TypeOK'
  BY Zenon, <1>t, <1>a, <1>3 DEF TypeOK
<1>4. Accounting'
  <2> SUFFICES ASSUME NEW q \in Recipes
               PROVE  count'[q] = Cardinality(ConnsOf(q)') + InFlight(q)'
    BY Zenon DEF Accounting
  <2>1. CASE q = r
    BY Zenon, <1>a, <1>2, <1>3, <2>1
  <2>2. CASE q # r
    BY Zenon, <1>t, <1>a, <1>2, <2>2 DEF TypeOK, KitchenInv, Books, Accounting
  <2> QED  BY Zenon, <2>1, <2>2
<1>5. WithinMax'
  <2>1. \A q \in Recipes : count'[q] <= count[q]
    BY <1>t, <1>a DEF TypeOK
  <2> QED  BY <1>t, <1>1, <2>1, KitchenAssumption DEF TypeOK, KitchenInv, Books, WithinMax
<1>6. NoConnLeaked'
  <2>1. \A x \in Conns : x \in open <=> Owned(x)
    BY Zenon, <1>t, OpenOwned DEF KitchenInv
  <2>2. \A x \in Conns : x \in open' <=> Owned(x)'
    BY <1>t, <1>a, <2>1, KitchenAssumption DEF Owned, KitchenInv, HandsApart, TypeOK
  <2> QED  BY Zenon, <1>1, <2>2, OpenOwnedP
<1>7. HandsApart'
  BY Zenon, <1>t, <1>a DEF KitchenInv, HandsApart, TypeOK
<1>8. CookOK'
  BY Zenon, <1>a DEF KitchenInv, CookOK
<1> QED
  BY Zenon, <1>a, <1>1, <1>4, <1>5, <1>6, <1>7, <1>8, SameNames, SameLearners DEF KitchenInv, Books

\* Close forgets every recipe.
LEMMA CloseStep ==
  ASSUME KitchenInv, Close
  PROVE  KitchenInv'
<1>t. TypeOK
  BY Zenon DEF KitchenInv, Books
<1>a. /\ byName' = [n \in Names |-> Nil]
      /\ order' = <<>>
      /\ count' = [r \in Recipes |-> count[r] - Cardinality(ConnsOf(r))]
      /\ open' = {c \in open : byConn[c] = Nil}
      /\ byConn' = [c \in Conns |-> Nil]
      /\ UNCHANGED <<score, rated, learn, cpc, todo, taster, cur, view, shared, idx>>
  BY Zenon DEF Close, cookVars
<1>c. \A r \in Recipes : count'[r] = InFlight(r) /\ InFlight(r) \in Nat
  BY Zenon, <1>a, Freed
<1>1. TypeOK'
  <2>1. count' \in [Recipes -> Nat]
    BY Zenon, <1>a, Freed
  <2>2. byName' \in [Names -> Recipes \cup {Nil}] /\ byConn' \in [Conns -> Recipes \cup {Nil}]
    BY Zenon, <1>a
  <2> QED  BY Zenon, <1>t, <1>a, <2>1, <2>2, EmptyElements DEF TypeOK
<1>2. Accounting'
  <2> SUFFICES ASSUME NEW r \in Recipes
               PROVE  count'[r] = Cardinality(ConnsOf(r)') + InFlight(r)'
    BY Zenon DEF Accounting
  <2>1. ConnsOf(r)' = {}
    BY Zenon, <1>a, KitchenAssumption DEF ConnsOf
  <2>2. Cardinality(ConnsOf(r)') = 0
    BY Zenon, <2>1, Counting
  <2>3. InFlight(r)' = InFlight(r)
    BY Zenon, <1>a DEF InFlight
  <2> QED  BY <1>c, <2>2, <2>3
<1>3. WithinMax'
  <2>1. \A q \in Recipes : count'[q] <= count[q]
    BY <1>t, <1>a, CountedSets DEF TypeOK
  <2> QED  BY <1>t, <1>1, <2>1, KitchenAssumption DEF TypeOK, KitchenInv, Books, WithinMax
<1>4. OrderMatchesNames' /\ NamesApart'
  BY Zenon, <1>a, EmptyElements DEF OrderMatchesNames, NamesApart
<1>5. NoConnLeaked'
  <2>1. \A x \in Conns : x \in open <=> Owned(x)
    BY Zenon, <1>t, OpenOwned DEF KitchenInv
  <2>2. \A x \in Conns : x \in open' <=> Owned(x)'
    BY <1>t, <1>a, <2>1, KitchenAssumption DEF Owned, KitchenInv, HandsApart, TypeOK
  <2> QED  BY Zenon, <1>1, <2>2, OpenOwnedP
<1>6. HandsApart'
  BY Zenon, <1>t, <1>a DEF KitchenInv, HandsApart, TypeOK
<1>7. LearnOK'
  BY Zenon, <1>t, <1>a DEF KitchenInv, LearnOK, TypeOK
<1>8. CookOK'
  BY Zenon, <1>a DEF KitchenInv, CookOK
<1> QED  BY Zenon, <1>1, <1>2, <1>3, <1>4, <1>5, <1>6, <1>7, <1>8 DEF KitchenInv, Books

\* The initial dials of Learn.
LEMMA LearnDialStep ==
  ASSUME KitchenInv, NEW t \in Learners, NEW n \in Names, NEW r \in Recipes,
         LearnDial(t, n, r)
  PROVE  KitchenInv'
<1>t. TypeOK
  BY Zenon DEF KitchenInv, Books
<1>a. PICK added \in SUBSET NewConns :
        /\ Cardinality(added) <= MinConns
        /\ count' = [count EXCEPT ![r] = Cardinality(added)]
        /\ learn' = [learn EXCEPT ![t] = [name |-> n, recipe |-> r, added |-> added]]
        /\ open' = open \cup added
  BY Zenon DEF LearnDial
<1>b. /\ learn[t].recipe = Nil
      /\ score' = [score EXCEPT ![r] = 0]
      /\ rated' = rated \ {r}
      /\ UNCHANGED <<byName, byConn, order, cpc, todo, taster, cur, view, shared, idx>>
  BY Zenon DEF LearnDial, cookVars
<1>n. /\ \A m \in Names : byName[m] # r
      /\ \A c \in Conns : byConn[c] # r
      /\ \A x \in Learners : learn[x].recipe # r
      /\ cur # r
  BY Zenon DEF LearnDial, NewRecipes
<1>d. added \subseteq Conns /\ \A c \in added : c \notin open /\ byConn[c] = Nil
  BY Zenon, <1>a DEF NewConns
<1>f. Cardinality(added) \in Nat
  BY Zenon, <1>d, Finite
<1>l. /\ learn'[t] = [name |-> n, recipe |-> r, added |-> added]
      /\ \A x \in Learners : x # t => learn'[x] = learn[x]
      /\ learn[t].added = {}
      /\ r # Nil
  BY Zenon, <1>t, <1>a, <1>b, KitchenAssumption DEF TypeOK, KitchenInv, LearnOK
<1>w. \A c \in Conns : c \in open <=> Owned(c)
  BY Zenon, <1>t, OpenOwned DEF KitchenInv
<1>1. TypeOK'
  <2>1. learn' \in [Learners -> [name : Names \cup {Nil}, recipe : Recipes \cup {Nil},
                                 added : SUBSET Conns]]
    BY Zenon, <1>t, <1>a, <1>d DEF TypeOK
  <2>2. count' \in [Recipes -> Nat] /\ open' \in SUBSET Conns
    BY Zenon, <1>t, <1>a, <1>d, <1>f DEF TypeOK
  <2>3. score' \in [Recipes -> Scores \cup {MaxInt}] /\ rated' \in SUBSET Recipes
    BY Zenon, <1>t, <1>b, KitchenAssumption DEF TypeOK
  <2> QED  BY Zenon, <1>t, <1>b, <2>1, <2>2, <2>3 DEF TypeOK
<1>2. LearnOK'
  <2> SUFFICES ASSUME NEW x \in Learners
               PROVE  /\ learn'[x].recipe = Nil => learn'[x].added = {}
                      /\ learn'[x].recipe # Nil =>
                           /\ learn'[x].name \in Names
                           /\ \A m \in Names : byName[m] # learn'[x].recipe
                           /\ \A y \in Learners : learn'[y].recipe = learn'[x].recipe => y = x
    BY Zenon, <1>b DEF LearnOK
  <2>1. CASE x = t
    BY <1>n, <1>l, <2>1
  <2>2. CASE x # t
    BY <1>n, <1>l, <2>2 DEF KitchenInv, LearnOK
  <2> QED  BY Zenon, <2>1, <2>2
<1>3. HandsApart'
  <2>1. \A c \in added : ~Owned(c)
    BY Zenon, <1>d, <1>w
  <2> QED  BY <1>b, <1>d, <1>l, <2>1 DEF KitchenInv, HandsApart, Owned
<1>4. NoConnLeaked'
  <2>1. \A x \in Conns : x \in open' <=> Owned(x)'
    BY <1>a, <1>b, <1>l, <1>w DEF Owned
  <2> QED  BY Zenon, <1>1, <2>1, OpenOwnedP
<1>5. Accounting'
  <2> SUFFICES ASSUME NEW q \in Recipes
               PROVE  count'[q] = Cardinality(ConnsOf(q)') + InFlight(q)'
    BY Zenon DEF Accounting
  <2>1. CASE q = r
    <3>1. ConnsOf(r)' = {}
      BY Zenon, <1>b, <1>n DEF ConnsOf
    <3>2. Dialled(r)' = added
      BY <1>n, <1>l DEF Dialled
    <3>3. InFlight(r)' = Busy(r)' + Cardinality(Dialled(r)')
      BY Zenon DEF InFlight, Busy, Dialled
    <3>4. Busy(r)' = 0
      BY Zenon, <1>b, <1>n DEF Busy
    <3>5. Cardinality(ConnsOf(r)') = 0 /\ Cardinality(Dialled(r)') = Cardinality(added)
      BY Zenon, <3>1, <3>2, Counting
    <3>6. count'[r] = Cardinality(added)
      BY Zenon, <1>t, <1>a DEF TypeOK
    <3> QED  BY <1>f, <2>1, <3>3, <3>4, <3>5, <3>6
  <2>2. CASE q # r
    <3>1. ConnsOf(q)' = ConnsOf(q)
      BY Zenon, <1>b DEF ConnsOf
    <3>2. {x \in Learners : learn'[x].recipe = q} = {x \in Learners : learn[x].recipe = q}
      BY <1>b, <1>l, <2>2, KitchenAssumption
    <3>3. \A x \in {y \in Learners : learn[y].recipe = q} : learn'[x].added = learn[x].added
      BY Zenon, <1>b, <1>l, <2>2, KitchenAssumption
    <3>4. Dialled(q)' = Dialled(q)
      BY Zenon, <3>2, <3>3 DEF Dialled
    <3>5. InFlight(q)' = InFlight(q)
      BY Zenon, <1>b, <3>4 DEF InFlight, Dialled
    <3>6. count'[q] = count[q]
      BY Zenon, <1>t, <1>a, <2>2 DEF TypeOK
    <3> QED  BY Zenon, <3>1, <3>5, <3>6 DEF KitchenInv, Books, Accounting
  <2> QED  BY Zenon, <2>1, <2>2
<1>6. WithinMax'
  <2>1. Cardinality(added) <= MaxConns \/ MaxConns = 0
    BY <1>a, <1>f, KitchenAssumption
  <2> QED  BY Zenon, <1>t, <1>a, <2>1 DEF TypeOK, KitchenInv, Books, WithinMax
<1>7. CookOK'
  BY Zenon, <1>b DEF KitchenInv, CookOK
<1> QED
  BY Zenon, <1>b, <1>1, <1>2, <1>3, <1>4, <1>5, <1>6, <1>7, SameNames DEF KitchenInv, Books

\* The rest of Learn, under the mutex.
LEMMA LearnCommitStep ==
  ASSUME KitchenInv, NEW t \in Learners, LearnCommit(t)
  PROVE  KitchenInv'
<1>t. TypeOK
  BY Zenon DEF KitchenInv, Books
<1>r. PICK r \in Recipes, n \in Names, old \in Recipes \cup {Nil}, added \in SUBSET Conns :
        r = learn[t].recipe /\ n = learn[t].name /\ old = byName[n] /\ added = learn[t].added
  BY Zenon, <1>t DEF LearnCommit, KitchenInv, LearnOK, TypeOK
<1>a. /\ byName' = [byName EXCEPT ![n] = r]
      /\ byConn' = [c \in Conns |->
                      IF c \in added THEN r
                      ELSE IF old # Nil /\ byConn[c] = old THEN Nil ELSE byConn[c]]
      /\ open' = IF old = Nil THEN open ELSE open \ ConnsOf(old)
      /\ count' = IF old = Nil THEN count
                  ELSE [count EXCEPT ![old] = @ - Cardinality(ConnsOf(old))]
      /\ order' = Append(Remove(order, old), r)
      /\ learn' = [learn EXCEPT ![t] = NotLearning]
      /\ UNCHANGED <<score, rated, cpc, taster, cur, idx>>
  BY Zenon, <1>r DEF LearnCommit
<1>b. /\ \/ view' = Overwritten(Append(order, r)) /\ UNCHANGED shared
         \/ view' = Overwritten(Append(Remove(order, old), r)) /\ UNCHANGED shared
         \/ shared' = FALSE /\ UNCHANGED view
      /\ todo' \in {todo \cup {n}, todo \ {n}, todo}
  BY Zenon, <1>r DEF LearnCommit
<1>l. /\ learn'[t] = NotLearning
      /\ \A x \in Learners : x # t => learn'[x] = learn[x]
  BY Zenon, <1>t, <1>a DEF TypeOK
<1>n. /\ r # Nil /\ old # r
      /\ \A m \in Names : byName[m] # r
      /\ \A x \in Learners : learn[x].recipe = r => x = t
  BY Zenon, <1>r, KitchenAssumption DEF KitchenInv, LearnOK
<1>d. \A c \in added : /\ byConn[c] = Nil /\ c # taster
                       /\ \A x \in Learners : c \in learn[x].added => x = t
  BY Zenon, <1>r DEF KitchenInv, HandsApart
<1>w. \A c \in Conns : c \in open <=> Owned(c)
  BY Zenon, <1>t, OpenOwned DEF KitchenInv
<1>s. order \in Seq(Recipes) /\ Distinct(order)
  BY Zenon, <1>t DEF TypeOK, KitchenInv, Books, OrderMatchesNames
<1>k. /\ Remove(order, old) \in Seq(Recipes) /\ Distinct(Remove(order, old))
      /\ Elements(Remove(order, old)) = Elements(order) \ {old}
  BY Zenon, <1>s, RemoveProperties
<1>e. r \notin Elements(order)
  BY Zenon, <1>n DEF KitchenInv, Books, OrderMatchesNames
<1>o. /\ order' \in Seq(Recipes) /\ Distinct(order')
      /\ Elements(order') = (Elements(order) \ {old}) \cup {r}
  BY <1>a, <1>k, <1>e, AppendElements
<1>c. count' \in [Recipes -> Nat]
  BY Zenon, <1>t, <1>a, Freed DEF TypeOK
<1>1. TypeOK'
  <2>1. view' \in Seq(Recipes) /\ shared' \in BOOLEAN
    <3>1. Append(order, r) \in Seq(Recipes) /\ Append(Remove(order, old), r) \in Seq(Recipes)
      BY <1>s, <1>k
    <3>2. view \in Seq(Recipes) /\ shared \in BOOLEAN
      BY Zenon, <1>t DEF TypeOK
    <3> QED  BY Zenon, <1>t, <1>b, <3>1, <3>2, OverwrittenType
  <2>2. todo' \in SUBSET Names
    BY Zenon, <1>t, <1>b DEF TypeOK
  <2>3. learn' \in [Learners -> [name : Names \cup {Nil}, recipe : Recipes \cup {Nil},
                                 added : SUBSET Conns]]
    BY Zenon, <1>t, <1>a DEF TypeOK, NotLearning
  <2>4. byName' \in [Names -> Recipes \cup {Nil}] /\ byConn' \in [Conns -> Recipes \cup {Nil}]
    BY Zenon, <1>t, <1>a DEF TypeOK
  <2>5. open' \in SUBSET Conns
    BY Zenon, <1>t, <1>a DEF TypeOK
  <2> QED  BY Zenon, <1>t, <1>a, <1>o, <1>c, <2>1, <2>2, <2>3, <2>4, <2>5 DEF TypeOK
<1>2. LearnOK'
  BY Zenon, <1>t, <1>a, <1>l, <1>n DEF KitchenInv, LearnOK, TypeOK, NotLearning
<1>3. HandsApart'
  BY <1>t, <1>a, <1>l, <1>d, <1>r DEF KitchenInv, HandsApart, TypeOK, NotLearning
<1>4. NoConnLeaked'
  <2> SUFFICES ASSUME NEW x \in Conns PROVE x \in open' <=> Owned(x)'
    BY Zenon, <1>1, OpenOwnedP
  <2>1. CASE x \in added
    BY Zenon, <1>t, <1>a, <1>r, <1>n, <1>d, <1>w, <2>1 DEF Owned, ConnsOf
  <2>2. CASE x \notin added
    <3>1. (\E y \in Learners : x \in learn'[y].added) <=> \E y \in Learners : x \in learn[y].added
      BY <1>l, <1>r, <2>2 DEF NotLearning
    <3>2. CASE old # Nil /\ byConn[x] = old
      <4>1. x # taster /\ \A y \in Learners : x \notin learn[y].added
        BY Zenon, <3>2, KitchenAssumption DEF KitchenInv, HandsApart
      <4> QED  BY Zenon, <1>a, <2>2, <3>1, <3>2, <4>1 DEF Owned, ConnsOf
    <3>3. CASE ~(old # Nil /\ byConn[x] = old)
      BY Zenon, <1>a, <1>w, <2>2, <3>1, <3>3 DEF Owned, ConnsOf
    <3> QED  BY Zenon, <3>2, <3>3
  <2> QED  BY Zenon, <2>1, <2>2
<1>5. Accounting'
  <2> SUFFICES ASSUME NEW q \in Recipes
               PROVE  count'[q] = Cardinality(ConnsOf(q)') + InFlight(q)'
    BY Zenon DEF Accounting
  <2>f. /\ count[q] = Cardinality(ConnsOf(q)) + InFlight(q)
        /\ InFlight(q) = Busy(q) + Cardinality(Dialled(q))
        /\ InFlight(q)' = Busy(q)' + Cardinality(Dialled(q)')
        /\ Busy(q)' = Busy(q)
        /\ Cardinality(ConnsOf(q)) \in Nat /\ Cardinality(Dialled(q)) \in Nat /\ Busy(q) \in Nat
    <3>1. InFlight(q)' = Busy(q)' + Cardinality(Dialled(q)')
      BY Zenon DEF InFlight, Busy, Dialled
    <3>2. Busy(q)' = Busy(q)
      BY Zenon, <1>a DEF Busy
    <3> QED  BY <1>t, <3>1, <3>2, CountedSets DEF KitchenInv, Books, Accounting
  <2>g. q # r => Dialled(q)' = Dialled(q)
    <3> SUFFICES ASSUME q # r PROVE Dialled(q)' = Dialled(q)
      BY Zenon
    <3>1. {x \in Learners : learn'[x].recipe = q} = {x \in Learners : learn[x].recipe = q}
      BY <1>l, <1>r, KitchenAssumption DEF NotLearning
    <3>2. \A x \in {y \in Learners : learn[y].recipe = q} : learn'[x].added = learn[x].added
      BY Zenon, <1>l, <1>r
    <3> QED  BY Zenon, <3>1, <3>2 DEF Dialled
  <2>1. CASE q = r
    <3>1. ConnsOf(r)' = ConnsOf(r) \cup added
      BY Zenon, <1>a, <1>n, KitchenAssumption DEF ConnsOf
    <3>2. ConnsOf(r) \cap added = {} /\ ConnsOf(r) \in SUBSET Conns
      BY Zenon, <1>d, <1>n DEF ConnsOf
    <3>3. Dialled(r) = added
      BY Zenon, <1>r, <1>n, OneLearner DEF KitchenInv
    <3>4. Dialled(r)' = {}
      <4>1. {x \in Learners : learn'[x].recipe = r} = {}
        BY <1>l, <1>n DEF NotLearning
      <4> QED  BY Zenon, <4>1 DEF Dialled
    <3>5. count'[r] = count[r]
      BY Zenon, <1>t, <1>a, <1>n DEF TypeOK
    <3>6. Cardinality(ConnsOf(r)') = Cardinality(ConnsOf(r)) + Cardinality(added)
      BY Zenon, <3>1, <3>2, Counting
    <3>7. Cardinality(Dialled(r)') = 0 /\ Cardinality(Dialled(r)) = Cardinality(added)
      BY Zenon, <3>3, <3>4, Counting
    <3> QED  BY <2>f, <2>1, <3>5, <3>6, <3>7
  <2>2. CASE q = old
    <3>1. ConnsOf(q)' = {}
      BY Zenon, <1>a, <1>n, <2>2, KitchenAssumption DEF ConnsOf
    <3>2. count'[q] = count[q] - Cardinality(ConnsOf(q))
      BY Zenon, <1>t, <1>a, <2>2, KitchenAssumption DEF TypeOK
    <3>3. Cardinality(ConnsOf(q)') = 0
      BY Zenon, <3>1, Counting
    <3>4. Cardinality(Dialled(q)') = Cardinality(Dialled(q))
      BY Zenon, <1>n, <2>g, <2>2
    <3> QED  BY <2>f, <3>2, <3>3, <3>4
  <2>3. CASE q # r /\ q # old
    <3>1. ConnsOf(q)' = ConnsOf(q)
      BY Zenon, <1>a, <1>d, <2>3, KitchenAssumption DEF ConnsOf
    <3>2. count'[q] = count[q]
      BY Zenon, <1>t, <1>a, <2>3 DEF TypeOK
    <3>3. Cardinality(Dialled(q)') = Cardinality(Dialled(q))
      BY Zenon, <2>g, <2>3
    <3> QED  BY Zenon, <2>f, <3>1, <3>2, <3>3
  <2> QED  BY Zenon, <2>1, <2>2, <2>3
<1>6. WithinMax'
  <2>1. \A q \in Recipes : count'[q] <= count[q]
    BY <1>t, <1>a, CountedSets DEF TypeOK
  <2> QED  BY <1>t, <1>1, <2>1, KitchenAssumption DEF TypeOK, KitchenInv, Books, WithinMax
<1>7. NamesApart'
  BY Zenon, <1>t, <1>a, <1>n DEF KitchenInv, NamesApart, TypeOK
<1>8. OrderMatchesNames'
  <2>1. {byName'[m] : m \in Names} \ {Nil} = (({byName[m] : m \in Names} \ {Nil}) \ {old}) \cup {r}
    BY <1>t, <1>r, <1>a, <1>n DEF KitchenInv, NamesApart, TypeOK
  <2> QED  BY Zenon, <1>o, <2>1 DEF KitchenInv, Books, OrderMatchesNames
<1>9. CookOK'
  BY Zenon, <1>a DEF KitchenInv, CookOK
<1> QED
  BY Zenon, <1>1, <1>2, <1>3, <1>4, <1>5, <1>6, <1>7, <1>8, <1>9 DEF KitchenInv, Books

-----------------------------------------------------------------------------
\* A permutation of the order: as many positions as recipes, every recipe at
\* one of them.
LEMMA Permuted ==
  ASSUME NEW S, NEW s \in Seq(S), Distinct(s),
         NEW p \in [DOMAIN s -> Elements(s)], Elements(p) = Elements(s)
  PROVE  p \in Seq(S) /\ Distinct(p)
<1> DEFINE D == DOMAIN s
           T == Elements(s)
<1>1. D = 1..Len(s) /\ Len(s) \in Nat /\ T \subseteq S
  BY ElementsType
<1>2. p \in Seq(S)
  BY <1>1
<1>3. IsFiniteSet(D)
  <2>1. IsFiniteSet(1..Len(s))
    <3>1. 1 \in Int /\ Len(s) \in Int
      BY <1>1
    <3> QED  BY Zenon, <3>1, FS_Interval
  <2> QED  BY Zenon, <1>1, <2>1
<1>4. s \in [D -> T] /\ p \in [D -> T] /\ DOMAIN p = D
  BY DEF Elements
<1>5. /\ \A x \in T : \E i \in D : s[i] = x
      /\ \A x \in T : \E i \in D : p[i] = x
      /\ \A i, j \in D : s[i] = s[j] => i = j
  BY Zenon, <1>4 DEF Elements, Distinct
<1> HIDE DEF D, T
<1>6. s \in Injection(D, T) /\ s \in Surjection(D, T) /\ p \in Surjection(D, T)
  BY Zenon, <1>4, <1>5 DEF Injection, Surjection, IsInjective
<1>7. Cardinality(T) = Cardinality(D)
  BY Zenon, <1>3, <1>6, FS_Surjection
<1>8. p \in Injection(D, T)
  BY Zenon, <1>3, <1>6, <1>7, FS_Surjection
<1>9. \A i, j \in D : p[i] = p[j] => i = j
  BY Zenon, <1>4, <1>8 DEF Injection, IsInjective
<1> QED  BY Zenon, <1>2, <1>4, <1>9 DEF Distinct

\* Sorting the order.
LEMMA CookSortStep ==
  ASSUME KitchenInv, CookSort
  PROVE  KitchenInv'
<1>t. TypeOK
  BY Zenon DEF KitchenInv, Books
<1>a. PICK s \in [DOMAIN order -> Elements(order)] :
        Elements(s) = Elements(order) /\ order' = s /\ view' = s
  BY Zenon DEF CookSort
<1>b. /\ cpc = "score" /\ todo' = {} /\ shared' = TRUE /\ idx' = 1 /\ cpc' = "loop"
      /\ UNCHANGED <<byName, byConn, count, score, rated, open, learn, taster, cur>>
  BY Zenon DEF CookSort
<1>c. s \in Seq(Recipes) /\ Distinct(s)
  BY Zenon, <1>t, <1>a, Permuted DEF TypeOK, KitchenInv, Books, OrderMatchesNames
<1>1. TypeOK'
  BY Zenon, <1>t, <1>a, <1>b, <1>c DEF TypeOK
<1>2. \A r \in Recipes : Busy(r)' = Busy(r)
  BY Zenon, <1>b DEF Busy
<1>3. OrderMatchesNames' /\ NamesApart'
  BY Zenon, <1>a, <1>b, <1>c DEF KitchenInv, Books, OrderMatchesNames, NamesApart
<1>4. CookOK'
  BY <1>b DEF KitchenInv, CookOK
<1> QED
  BY Zenon, <1>b, <1>1, <1>2, <1>3, <1>4, SameBooks, SameHands, SameLearners DEF KitchenInv, Books

\* The steps of Cook that touch no books: it starts, scores a recipe without
\* a dial, passes over a full one, or finds none.
LEMMA QuietStep ==
  ASSUME KitchenInv,
         CookStart \/ (\E n \in Names : ScoreFast(n)) \/ CookSkip \/ CookExhausted
  PROVE  KitchenInv'
<1>t. TypeOK
  BY Zenon DEF KitchenInv, Books
<1>a. /\ UNCHANGED <<byName, byConn, order, count, score, rated, open, learn, taster>>
      /\ cpc \in {"idle", "score", "loop"} /\ cpc' \in {"idle", "score", "loop"}
      /\ cpc' = "loop" => cpc = "loop" /\ idx' = idx + 1
      /\ cur' \in {cur, Nil} /\ view' \in {view, <<>>} /\ shared' \in {shared, FALSE}
      /\ idx' \in {idx, idx + 1, 0}
      /\ todo' \in SUBSET Names
  BY Zenon, <1>t DEF CookStart, ScoreFast, CookSkip, CookExhausted, CookReturn, recipeVars, TypeOK
<1>b. view' \in Seq(Recipes) /\ idx' \in Nat
  <2>1. <<>> \in Seq(Recipes) /\ view \in Seq(Recipes) /\ idx \in Nat
    BY <1>t DEF TypeOK
  <2>2. view' \in Seq(Recipes)
    BY Zenon, <1>a, <2>1
  <2>3. idx' \in Nat
    BY <1>a, <2>1
  <2> QED  BY Zenon, <2>2, <2>3
<1>c. shared' \in BOOLEAN
  BY Zenon, <1>t, <1>a DEF TypeOK
<1>1. TypeOK'
  BY Zenon, <1>t, <1>a, <1>b, <1>c DEF TypeOK
<1>2. \A r \in Recipes : Busy(r)' = Busy(r)
  BY Zenon, <1>a DEF Busy
<1>3. CookOK'
  BY <1>t, <1>a DEF KitchenInv, CookOK, TypeOK
<1> QED
  BY Zenon, <1>a, <1>1, <1>2, <1>3, SameBooks, SameNames, SameHands, SameLearners
     DEF KitchenInv, Books

\* Dialling a connection for the critics, and closing it.
LEMMA TasteStep ==
  ASSUME KitchenInv, (\E n \in Names : ScoreDial(n)) \/ ScoreDone
  PROVE  KitchenInv'
<1>t. TypeOK
  BY Zenon DEF KitchenInv, Books
<1>w. \A c \in Conns : c \in open <=> Owned(c)
  BY Zenon, <1>t, OpenOwned DEF KitchenInv
<1>a. /\ UNCHANGED <<byName, byConn, order, count, learn, view, shared, idx>>
      /\ cpc # "dialing" /\ cpc' # "dialing"
  BY Zenon DEF ScoreDial, ScoreDone, recipeVars
<1>2. \A r \in Recipes : Busy(r)' = Busy(r)
  BY Zenon, <1>a DEF Busy
<1>3. CASE \E n \in Names : ScoreDial(n)
  <2>1. PICK n \in Names : ScoreDial(n)
    BY Zenon, <1>3
  <2>2. /\ cpc = "score" /\ cpc' = "tasting" /\ todo' = todo \ {n}
        /\ cur' = byName[n] /\ byName[n] \in Recipes
        /\ UNCHANGED <<score, rated>>
        /\ taster = Nil
    BY Zenon, <1>t, <2>1 DEF ScoreDial, TypeOK, KitchenInv, CookOK
  <2>3. \/ \E c \in NewConns : taster' = c /\ open' = open \cup {c}
        \/ UNCHANGED <<taster, open>>
    BY Zenon, <2>1 DEF ScoreDial
  <2>4. TypeOK'
    BY Zenon, <1>t, <1>a, <2>2, <2>3 DEF TypeOK, NewConns
  <2>5. CookOK'
    BY Zenon, <2>2 DEF CookOK
  <2>6. NoConnLeaked' /\ HandsApart'
    <3>1. CASE UNCHANGED <<taster, open>>
      BY Zenon, <1>a, <3>1, SameHands
    <3>2. CASE \E c \in NewConns : taster' = c /\ open' = open \cup {c}
      <4>1. PICK c \in NewConns : taster' = c /\ open' = open \cup {c}
        BY Zenon, <3>2
      <4>2. c \in Conns /\ byConn[c] = Nil /\ ~Owned(c)
        BY Zenon, <1>w DEF NewConns
      <4>3. HandsApart'
        BY Zenon, <1>a, <4>1, <4>2 DEF KitchenInv, HandsApart, Owned
      <4>4. \A x \in Conns : x \in open' <=> Owned(x)'
        BY Zenon, <1>a, <1>w, <2>2, <4>1, KitchenAssumption DEF Owned
      <4> QED  BY Zenon, <2>4, <4>3, <4>4, OpenOwnedP
    <3> QED  BY Zenon, <2>3, <3>1, <3>2
  <2> QED
    BY Zenon, <1>a, <1>2, <2>4, <2>5, <2>6, SameBooks, SameNames, SameLearners DEF KitchenInv, Books
<1>4. CASE ScoreDone
  <2>2. /\ cpc = "tasting" /\ cpc' = "score" /\ open' = open \ {taster}
        /\ taster' = Nil /\ cur' = Nil /\ todo' = todo
        /\ cur \in Recipes
    BY Zenon, <1>4 DEF ScoreDone, KitchenInv, CookOK
  <2>3. score' \in [Recipes -> Scores \cup {MaxInt}] /\ rated' \in SUBSET Recipes
    BY Zenon, <1>t, <1>4, <2>2 DEF ScoreDone, TypeOK
  <2>4. TypeOK'
    BY Zenon, <1>t, <1>a, <2>2, <2>3 DEF TypeOK
  <2>5. CookOK'
    BY Zenon, <2>2 DEF CookOK
  <2>6. HandsApart'
    BY Zenon, <1>t, <1>a, <2>2, KitchenAssumption DEF KitchenInv, HandsApart, TypeOK
  <2>7. \A x \in Conns : x \in open' <=> Owned(x)'
    BY <1>a, <1>w, <2>2, KitchenAssumption DEF Owned, KitchenInv, HandsApart
  <2>8. NoConnLeaked'
    BY Zenon, <2>4, <2>7, OpenOwnedP
  <2> QED
    BY Zenon, <1>a, <1>2, <2>4, <2>5, <2>6, <2>8, SameBooks, SameNames, SameLearners
       DEF KitchenInv, Books
<1> QED  BY Zenon, <1>3, <1>4

\* Taking a place of a recipe, and giving it back when the dial fails.
LEMMA PlaceStep ==
  ASSUME KitchenInv, CookAllocate \/ CookDialErr
  PROVE  KitchenInv'
<1>t. TypeOK
  BY Zenon DEF KitchenInv, Books
<1>a. /\ UNCHANGED <<byName, byConn, order, score, rated, open, learn, todo, taster>>
      /\ \A r \in Recipes : ConnsOf(r)' = ConnsOf(r) /\ Dialled(r)' = Dialled(r)
      /\ \A r \in Recipes : InFlight(r)' = Busy(r)' + Cardinality(Dialled(r)')
  BY DEF CookAllocate, CookDialErr, ConnsOf, Dialled, InFlight, Busy
<1>f. \A r \in Recipes :
        /\ count[r] = Cardinality(ConnsOf(r)) + (Busy(r) + Cardinality(Dialled(r)))
        /\ Cardinality(ConnsOf(r)) \in Nat /\ Cardinality(Dialled(r)) \in Nat
  BY Zenon, <1>t, CountedSets DEF KitchenInv, Books, Accounting
<1>b. /\ TypeOK'
      /\ \A r \in Recipes : count'[r] = count[r] + Busy(r)' - Busy(r)
      /\ \A r \in Recipes : Busy(r) \in Int /\ Busy(r)' \in Int
      /\ WithinMax' /\ CookOK'
  <2>1. CASE CookAllocate
    <3>1. /\ cpc = "loop" /\ cpc' = "dialing" /\ idx >= 1
          /\ view[idx] \in Recipes /\ cur' = view[idx]
          /\ UNCHANGED <<view, shared, idx>>
          /\ taster = Nil
      BY <1>t, <2>1 DEF CookAllocate, TypeOK, KitchenInv, CookOK
    <3>2. PICK q \in Recipes : q = view[idx]
      BY Zenon, <3>1
    <3>3. count' = [count EXCEPT ![q] = @ + 1] /\ (MaxConns = 0 \/ count[q] < MaxConns)
      BY Zenon, <2>1, <3>2 DEF CookAllocate, CanAllocate
    <3>4. count' \in [Recipes -> Nat]
      BY <1>t, <3>3 DEF TypeOK
    <3>5. TypeOK'
      BY Zenon, <1>t, <1>a, <3>1, <3>4 DEF TypeOK
    <3>6. \A r \in Recipes : Busy(r) = 0 /\ Busy(r)' = IF r = q THEN 1 ELSE 0
      BY Zenon, <3>1, <3>2 DEF Busy
    <3>7. \A r \in Recipes : count'[r] = count[r] + Busy(r)' - Busy(r)
      BY <1>t, <3>3, <3>6 DEF TypeOK
    <3>8. WithinMax'
      BY <1>t, <3>3, KitchenAssumption DEF TypeOK, KitchenInv, Books, WithinMax
    <3>9. CookOK'
      BY Zenon, <1>a, <3>1 DEF CookOK
    <3> QED  BY <3>5, <3>6, <3>7, <3>8, <3>9
  <2>2. CASE CookDialErr
    <3>1. PICK q \in Recipes : q = cur
      BY Zenon, <2>2 DEF CookDialErr, KitchenInv, CookOK
    <3>2. /\ count' = [count EXCEPT ![q] = @ - 1]
          /\ cpc = "dialing" /\ cpc' \in {"idle", "loop"} /\ cur' = Nil
          /\ \/ view' = <<>> /\ shared' = FALSE /\ idx' = 0 /\ cpc' = "idle"
             \/ UNCHANGED <<view, shared>> /\ idx' = idx + 1
          /\ taster = Nil
      BY Zenon, <2>2, <3>1 DEF CookDialErr, CookReturn, KitchenInv, CookOK
    <3>3. \A r \in Recipes : Busy(r)' = 0 /\ Busy(r) = IF r = q THEN 1 ELSE 0
      BY Zenon, <3>1, <3>2 DEF Busy
    <3>4. count[q] - 1 \in Nat
      BY <1>f, <3>3
    <3>5. count' \in [Recipes -> Nat]
      BY Zenon, <1>t, <3>2, <3>4 DEF TypeOK
    <3>6. view' \in Seq(Recipes) /\ idx' \in Nat
      <4>1. <<>> \in Seq(Recipes) /\ view \in Seq(Recipes) /\ idx \in Nat
        BY <1>t DEF TypeOK
      <4>2. view' \in Seq(Recipes)
        BY Zenon, <3>2, <4>1
      <4>3. idx' \in Nat
        BY <3>2, <4>1
      <4> QED  BY Zenon, <4>2, <4>3
    <3>7. shared' \in BOOLEAN
      BY Zenon, <1>t, <3>2 DEF TypeOK
    <3>8. TypeOK'
      BY Zenon, <1>t, <1>a, <3>2, <3>5, <3>6, <3>7 DEF TypeOK
    <3>9. \A r \in Recipes : count'[r] = count[r] + Busy(r)' - Busy(r)
      BY <1>t, <3>2, <3>3 DEF TypeOK
    <3>10. WithinMax'
      <4>1. \A r \in Recipes : count'[r] <= count[r]
        BY <1>t, <3>2 DEF TypeOK
      <4> QED
        BY <1>t, <3>8, <4>1, KitchenAssumption DEF TypeOK, KitchenInv, Books, WithinMax
    <3>11. CookOK'
      BY <1>t, <1>a, <3>2 DEF TypeOK, CookOK
    <3> QED  BY <3>3, <3>8, <3>9, <3>10, <3>11
  <2> QED  BY Zenon, <2>1, <2>2
<1>1. Accounting'
  <2> SUFFICES ASSUME NEW r \in Recipes
               PROVE  count'[r] = Cardinality(ConnsOf(r)') + InFlight(r)'
    BY Zenon DEF Accounting
  <2>1. /\ Cardinality(ConnsOf(r)') = Cardinality(ConnsOf(r))
        /\ InFlight(r)' = Busy(r)' + Cardinality(Dialled(r))
    BY Zenon, <1>a
  <2> QED  BY <1>b, <1>f, <2>1
<1> QED
  BY Zenon, <1>a, <1>b, <1>1, SameNames, SameHands, SameLearners DEF KitchenInv, Books

\* The dial succeeds and the connection enters the books.
LEMMA CookDialOkStep ==
  ASSUME KitchenInv, NEW c \in Conns, CookDialOk(c)
  PROVE  KitchenInv'
<1>t. TypeOK
  BY Zenon DEF KitchenInv, Books
<1>r. PICK r \in Recipes : r = cur
  BY Zenon DEF CookDialOk, KitchenInv, CookOK
<1>a. /\ cpc = "dialing" /\ cpc' = "idle"
      /\ c \notin open /\ byConn[c] = Nil
      /\ open' = open \cup {c}
      /\ byConn' = [byConn EXCEPT ![c] = r]
      /\ view' = <<>> /\ shared' = FALSE /\ idx' = 0 /\ cur' = Nil
      /\ UNCHANGED <<byName, order, count, score, rated, learn, todo, taster>>
      /\ r # Nil
  BY Zenon, <1>r, KitchenAssumption DEF CookDialOk, CookReturn, NewConns
<1>w. \A x \in Conns : x \in open <=> Owned(x)
  BY Zenon, <1>t, OpenOwned DEF KitchenInv
<1>1. TypeOK'
  BY Zenon, <1>t, <1>a, EmptyElements DEF TypeOK
<1>2. Accounting'
  <2> SUFFICES ASSUME NEW q \in Recipes
               PROVE  count'[q] = Cardinality(ConnsOf(q)') + InFlight(q)'
    BY Zenon DEF Accounting
  <2>1. /\ count[q] = Cardinality(ConnsOf(q)) + (Busy(q) + Cardinality(Dialled(q)))
        /\ Cardinality(ConnsOf(q)) \in Nat /\ Cardinality(Dialled(q)) \in Nat
    BY Zenon, <1>t, CountedSets DEF KitchenInv, Books, Accounting
  <2>2. Dialled(q)' = Dialled(q) /\ InFlight(q)' = Busy(q)' + Cardinality(Dialled(q)')
    BY Zenon, <1>a DEF Dialled, InFlight, Busy
  <2>3. Busy(q)' = 0 /\ Busy(q) = IF q = r THEN 1 ELSE 0
    BY Zenon, <1>r, <1>a DEF Busy
  <2>4. CASE q = r
    <3>1. ConnsOf(q)' = ConnsOf(q) \cup {c} /\ c \notin ConnsOf(q) /\ ConnsOf(q) \in SUBSET Conns
      BY Zenon, <1>t, <1>a, <2>4 DEF ConnsOf, TypeOK
    <3>2. Cardinality(ConnsOf(q)') = Cardinality(ConnsOf(q)) + 1
      BY Zenon, <3>1, Counting
    <3> QED  BY <1>a, <2>1, <2>2, <2>3, <2>4, <3>2
  <2>5. CASE q # r
    <3>1. ConnsOf(q)' = ConnsOf(q)
      BY Zenon, <1>t, <1>a, <2>5, KitchenAssumption DEF ConnsOf, TypeOK
    <3> QED  BY Zenon, <1>a, <2>1, <2>2, <2>3, <2>5, <3>1
  <2> QED  BY Zenon, <2>4, <2>5
<1>3. WithinMax'
  BY Zenon, <1>a DEF KitchenInv, Books, WithinMax
<1>4. HandsApart'
  BY <1>t, <1>a, <1>w, KitchenAssumption DEF KitchenInv, HandsApart, Owned, TypeOK
<1>5. NoConnLeaked'
  <2>1. \A x \in Conns : x \in open' <=> Owned(x)'
    BY Zenon, <1>t, <1>a, <1>w DEF Owned, TypeOK
  <2> QED  BY Zenon, <1>1, <2>1, OpenOwnedP
<1>6. CookOK'
  BY Zenon, <1>a DEF KitchenInv, CookOK
<1> QED
  BY Zenon, <1>a, <1>1, <1>2, <1>3, <1>4, <1>5, <1>6, SameNames, SameLearners DEF KitchenInv, Books

\* KitchenInv is inductive: one case for each operation of the chef.
LEMMA KitchenStep == KitchenInv /\ [Next]_vars => KitchenInv'
<1> SUFFICES ASSUME KitchenInv, [Next]_vars PROVE KitchenInv'
  BY Zenon
<1>1. CASE Next
  <2>1. CASE \E t \in Learners :
               LearnCommit(t) \/ \E n \in Names, r \in Recipes : LearnDial(t, n, r)
    BY Zenon, <2>1, LearnCommitStep, LearnDialStep
  <2>2. CASE \E n \in Names : Forget(n)
    BY Zenon, <2>2, ForgetStep
  <2>3. CASE \E c \in Conns : Burn(c) \/ Ignite(c)
    BY Zenon, <2>3, DiscardStep DEF Burn, Ignite
  <2>4. CASE Cook
    BY Zenon, <2>4, QuietStep, TasteStep, CookSortStep, PlaceStep, CookDialOkStep DEF Cook
  <2>5. CASE Close
    BY Zenon, <2>5, CloseStep
  <2> QED  BY Zenon, <1>1, <2>1, <2>2, <2>3, <2>4, <2>5 DEF Next
<1>2. CASE UNCHANGED vars
  <2>1. UNCHANGED <<byName, byConn, order, count, score, rated, open, learn, cpc, todo,
                    taster, cur, view, shared, idx>>
    BY Zenon, <1>2 DEF vars, recipeVars, cookVars
  <2>2. TypeOK' /\ CookOK' /\ \A r \in Recipes : Busy(r)' = Busy(r)
    BY Zenon, <2>1 DEF KitchenInv, Books, TypeOK, CookOK, Busy
  <2> QED
    BY Zenon, <2>1, <2>2, SameBooks, SameNames, SameHands, SameLearners DEF KitchenInv, Books
<1> QED  BY Zenon, <1>1, <1>2

\* The books of the chef are right whatever runs while a dial has the mutex
\* released: the count of each recipe is the connections it has and those
\* being dialled, within MaxConnections, and the order lists the names' recipes.
THEOREM KitchenBooks == Spec => []Books
<1>1. KitchenInv => Books
  BY Zenon DEF KitchenInv
<1> QED  BY KitchenInitially, KitchenStep, <1>1, PTL DEF Spec

\* Every open connection is in the books or in the hand of the Learn or the
\* critic that dialled it, and no connection in the books is closed.
THEOREM KitchenKeepsConns == Spec => []NoConnLeaked
<1>1. KitchenInv => NoConnLeaked
  BY Zenon DEF KitchenInv
<1> QED  BY KitchenInitially, KitchenStep, <1>1, PTL DEF Spec

=============================================================================
