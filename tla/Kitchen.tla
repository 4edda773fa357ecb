------------------------------ MODULE Kitchen ------------------------------
(***************************************************************************)
(* lib/gat/handlers/pool/spool/kitchen: the Chef, which dials server       *)
(* connections from recipes and keeps the books of a recipe's connections  *)
(* (pool.Recipe).                                                          *)
(*                                                                         *)
(* Forget, Burn, Ignite and Close run under Chef.mu.  Learn dials before   *)
(* it takes the mutex.  Cook, which only the scale loop calls, gives the   *)
(* mutex up around every dial; its states "tasting" and "dialing" are the  *)
(* points where another method may run.                                    *)
(*                                                                         *)
(* r.conns and byConn change together: ConnsOf(r) stands for r.conns.      *)
(* Every Learn brings a recipe object of its own, as its callers do.       *)
(***************************************************************************)
EXTENDS Slices, FiniteSets

CONSTANTS
  Names,      \* names recipes are learned under
  Recipes,    \* recipe objects that can be alive at once
  Conns,      \* connections that can be alive at once
  Learners,   \* goroutines that call Learn
  Nil,
  Critics,    \* TRUE iff critics are configured
  MinConns,   \* MinConnections of every recipe
  MaxConns,   \* MaxConnections of every recipe, 0 = unlimited
  Priority,   \* Priority of a recipe
  Scores,     \* scores critics can give
  MaxInt      \* math.MaxInt, the score of a recipe that failed tasting

ASSUME KitchenAssumption ==
  /\ Nil \notin Names \cup Recipes \cup Conns
  /\ IsFiniteSet(Conns)
  /\ Critics \in BOOLEAN
  /\ MinConns \in Nat /\ MaxConns \in Nat
  /\ MaxConns = 0 \/ MinConns <= MaxConns
  /\ Priority \in [Recipes -> Int]
  /\ Scores \subseteq Int /\ 0 \in Scores
  /\ MaxInt \in Int

VARIABLES
  byName,     \* the recipe of a name
  byConn,     \* the recipe of a connection
  order,      \* recipes, best first after the sort of Cook
  count,      \* pool.Recipe.count
  score,      \* Recipe.score
  rated,      \* recipes whose ratings were all filled in when last scored
  open,       \* connections dialled and not closed
  learn,      \* what a Learn has dialled and not yet registered
  cpc,        \* where Cook stands
  todo,       \* names the scoring loop of Cook has not reached
  taster,     \* the connection the critics taste
  cur,        \* the recipe Cook is tasting or dialling
  view,       \* the slice the loop of Cook ranges over
  shared,     \* the view and order share their array
  idx         \* position of the loop

recipeVars == <<byName, byConn, order, count>>
cookVars == <<cpc, todo, taster, cur, view, shared, idx>>
vars == <<recipeVars, score, rated, open, learn, cookVars>>

NotLearning == [name |-> Nil, recipe |-> Nil, added |-> {}]

TypeOK ==
  /\ byName \in [Names -> Recipes \cup {Nil}]
  /\ byConn \in [Conns -> Recipes \cup {Nil}]
  /\ order \in Seq(Recipes)
  /\ count \in [Recipes -> Nat]
  /\ score \in [Recipes -> Scores \cup {MaxInt}]
  /\ rated \in SUBSET Recipes
  /\ open \in SUBSET Conns
  /\ learn \in [Learners -> [name : Names \cup {Nil}, recipe : Recipes \cup {Nil},
                             added : SUBSET Conns]]
  /\ cpc \in {"idle", "score", "tasting", "loop", "dialing"}
  /\ todo \in SUBSET Names
  /\ taster \in Conns \cup {Nil}
  /\ cur \in Recipes \cup {Nil}
  /\ view \in Seq(Recipes)
  /\ shared \in BOOLEAN
  /\ idx \in Nat

Init ==
  /\ byName = [n \in Names |-> Nil]
  /\ byConn = [c \in Conns |-> Nil]
  /\ order = <<>>
  /\ count = [r \in Recipes |-> 0]
  /\ score = [r \in Recipes |-> 0]
  /\ rated = {}
  /\ open = {}
  /\ learn = [t \in Learners |-> NotLearning]
  /\ cpc = "idle"
  /\ todo = {}
  /\ taster = Nil
  /\ cur = Nil
  /\ view = <<>>
  /\ shared = FALSE
  /\ idx = 0

-----------------------------------------------------------------------------
\* The mutex is free: Cook holds it while it scores and while it loops.
Unlocked == cpc \notin {"score", "loop"}

ConnsOf(r) == {c \in Conns : byConn[c] = r}

\* What nothing refers to can be a new object.
NewConns ==
  {c \in Conns \ open : byConn[c] = Nil}

NewRecipes ==
  Recipes \ (Elements(order) \cup Elements(view) \cup {cur}
             \cup {byName[n] : n \in Names} \cup {byConn[c] : c \in Conns}
             \cup {learn[t].recipe : t \in Learners})

\* What the view holds once the first Len(s) cells of the array are s.
Overwritten(s) ==
  IF shared
  THEN SubSeq(s \o SubSeq(view, Len(s) + 1, Len(view)), 1, Len(view))
  ELSE view

\* slices.Remove shifts the cells behind r and moves r to the last one.
ViewAfterRemove(r) ==
  IF r \in Elements(order) THEN Overwritten(Append(Remove(order, r), r)) ELSE view

\* Free for every connection of r, which are closed and dropped from the books.
DropConns(r) ==
  /\ byConn' = [c \in Conns |-> IF byConn[c] = r THEN Nil ELSE byConn[c]]
  /\ open' = open \ ConnsOf(r)

-----------------------------------------------------------------------------
\* AllocateInitial and the initial dials, which succeed for the connections
\* added; the first dial that fails frees its place and those not yet used.
LearnDial(t, n, r) ==
  /\ learn[t].recipe = Nil
  /\ r \in NewRecipes
  /\ \E added \in SUBSET NewConns :
       /\ Cardinality(added) <= MinConns
       /\ count' = [count EXCEPT ![r] = Cardinality(added)]
       /\ learn' = [learn EXCEPT ![t] = [name |-> n, recipe |-> r, added |-> added]]
       /\ open' = open \cup added
  /\ score' = [score EXCEPT ![r] = 0]
  /\ rated' = rated \ {r}
  /\ UNCHANGED <<byName, byConn, order, cookVars>>

\* The rest of Learn: forget the old recipe of that name, register the new one
\* and append it to the order, in place if the array has room for it.  A loop
\* over a map may or may not reach an entry made meanwhile.
LearnCommit(t) ==
  LET n == learn[t].name
      r == learn[t].recipe
      old == byName[n]
      kept == Remove(order, old)
  IN  /\ Unlocked
      /\ r # Nil
      /\ byName' = [byName EXCEPT ![n] = r]
      /\ byConn' = [c \in Conns |->
                      IF c \in learn[t].added THEN r
                      ELSE IF old # Nil /\ byConn[c] = old THEN Nil ELSE byConn[c]]
      /\ open' = IF old = Nil THEN open ELSE open \ ConnsOf(old)
      /\ count' = IF old = Nil THEN count
                  ELSE [count EXCEPT ![old] = @ - Cardinality(ConnsOf(old))]
      /\ order' = Append(kept, r)
      /\ \/ /\ view' = IF old = Nil THEN Overwritten(Append(order, r))
                       ELSE Overwritten(Append(kept, r))
            /\ UNCHANGED shared
         \/ /\ Len(order) >= Len(view) /\ old = Nil
            /\ shared' = FALSE
            /\ UNCHANGED view
      /\ todo' \in IF cpc = "tasting" THEN {todo \cup {n}, todo \ {n}} ELSE {todo}
      /\ learn' = [learn EXCEPT ![t] = NotLearning]
      /\ UNCHANGED <<score, rated, cpc, taster, cur, idx>>

\* Mutant: the connections of the recipe stay open.
ForgetLeavesOpen(n) ==
  LET r == byName[n]
  IN  /\ Unlocked
      /\ r # Nil
      /\ byName' = [byName EXCEPT ![n] = Nil]
      /\ count' = [count EXCEPT ![r] = @ - Cardinality(ConnsOf(r))]
      /\ byConn' = [c \in Conns |-> IF byConn[c] = r THEN Nil ELSE byConn[c]]
      /\ order' = Remove(order, r)
      /\ view' = ViewAfterRemove(r)
      /\ UNCHANGED <<score, rated, open, learn, cpc, todo, taster, cur, shared, idx>>

Forget(n) ==
  LET r == byName[n]
  IN  /\ Unlocked
      /\ r # Nil
      /\ byName' = [byName EXCEPT ![n] = Nil]
      /\ count' = [count EXCEPT ![r] = @ - Cardinality(ConnsOf(r))]
      /\ DropConns(r)
      /\ order' = Remove(order, r)
      /\ view' = ViewAfterRemove(r)
      /\ UNCHANGED <<score, rated, learn, cpc, todo, taster, cur, shared, idx>>

\* Free or TryFree has succeeded: the connection leaves the kitchen.
Discard(c) ==
  /\ count' = [count EXCEPT ![byConn[c]] = @ - 1]
  /\ open' = open \ {c}
  /\ byConn' = [byConn EXCEPT ![c] = Nil]
  /\ UNCHANGED <<byName, order, score, rated, learn, cookVars>>

Burn(c) ==
  /\ Unlocked
  /\ byConn[c] # Nil
  /\ Discard(c)

Ignite(c) ==
  /\ Unlocked
  /\ byConn[c] # Nil
  /\ count[byConn[c]] > MinConns
  /\ Discard(c)

Close ==
  /\ Unlocked
  /\ byName' = [n \in Names |-> Nil]
  /\ order' = <<>>
  /\ count' = [r \in Recipes |-> count[r] - Cardinality(ConnsOf(r))]
  /\ open' = {c \in open : byConn[c] = Nil}
  /\ byConn' = [c \in Conns |-> Nil]
  /\ UNCHANGED <<score, rated, learn, cookVars>>

-----------------------------------------------------------------------------
CookStart ==
  /\ cpc = "idle"
  /\ cpc' = "score"
  /\ todo' = {n \in Names : byName[n] # Nil}
  /\ UNCHANGED <<recipeVars, score, rated, open, learn, taster, cur, view,
                 shared, idx>>

\* Every rating is still valid, or there are no critics.
ScoreFast(n) ==
  /\ cpc = "score"
  /\ n \in todo /\ byName[n] # Nil
  /\ Critics => byName[n] \in rated
  /\ todo' = todo \ {n}
  /\ UNCHANGED <<recipeVars, score, rated, open, learn, cpc, taster, cur, view,
                 shared, idx>>

\* Some rating has expired: unlock and dial a connection for the critics.
ScoreDial(n) ==
  /\ cpc = "score"
  /\ Critics
  /\ n \in todo /\ byName[n] # Nil
  /\ todo' = todo \ {n}
  /\ cpc' = "tasting"
  /\ cur' = byName[n]
  /\ \/ \E c \in NewConns : taster' = c /\ open' = open \cup {c}
     \/ UNCHANGED <<taster, open>>
  /\ UNCHANGED <<recipeVars, score, rated, learn, view, shared, idx>>

\* Close the connection and lock again.  Without a connection, or with a
\* critic that fails, the recipe gets the worst score.
ScoreDone ==
  /\ cpc = "tasting"
  /\ cpc' = "score"
  /\ open' = open \ {taster}
  /\ taster' = Nil
  /\ cur' = Nil
  /\ \/ /\ taster # Nil
        /\ \E x \in Scores : score' = [score EXCEPT ![cur] = x]
        /\ rated' = rated \cup {cur}
     \/ /\ score' = [score EXCEPT ![cur] = MaxInt]
        /\ rated' = rated \ {cur}
  /\ UNCHANGED <<recipeVars, learn, todo, view, shared, idx>>

Rating(r) == IF score[r] = MaxInt THEN MaxInt ELSE score[r] + Priority[r]

\* sort.Slice: by rating, then by number of connections; not stable.
Sorted(s) ==
  \A i, j \in DOMAIN s : i < j =>
    \/ Rating(s[i]) < Rating(s[j])
    \/ /\ Rating(s[i]) = Rating(s[j])
       /\ Cardinality(ConnsOf(s[i])) <= Cardinality(ConnsOf(s[j]))

CookSort ==
  /\ cpc = "score"
  /\ \A n \in todo : byName[n] = Nil
  /\ \E s \in [DOMAIN order -> Elements(order)] :
       /\ Elements(s) = Elements(order)
       /\ Sorted(s)
       /\ order' = s
       /\ view' = s
  /\ todo' = {}
  /\ shared' = TRUE
  /\ idx' = 1
  /\ cpc' = "loop"
  /\ UNCHANGED <<byName, byConn, count, score, rated, open, learn, taster, cur>>

CookReturn ==
  /\ cpc' = "idle"
  /\ view' = <<>>
  /\ shared' = FALSE
  /\ idx' = 0
  /\ cur' = Nil

CanAllocate(r) == MaxConns = 0 \/ count[r] < MaxConns

CookSkip ==
  /\ cpc = "loop"
  /\ idx <= Len(view)
  /\ ~CanAllocate(view[idx])
  /\ idx' = idx + 1
  /\ UNCHANGED <<recipeVars, score, rated, open, learn, cpc, todo, taster, cur,
                 view, shared>>

\* Take a place of the recipe, unlock and dial.
CookAllocate ==
  /\ cpc = "loop"
  /\ idx <= Len(view)
  /\ CanAllocate(view[idx])
  /\ count' = [count EXCEPT ![view[idx]] = @ + 1]
  /\ cur' = view[idx]
  /\ cpc' = "dialing"
  /\ UNCHANGED <<byName, byConn, order, score, rated, open, learn, todo, taster,
                 view, shared, idx>>

\* The dial succeeds: lock again and enter the connection in the books.
CookDialOk(c) ==
  /\ cpc = "dialing"
  /\ c \in NewConns
  /\ open' = open \cup {c}
  /\ byConn' = [byConn EXCEPT ![c] = cur]
  /\ CookReturn
  /\ UNCHANGED <<byName, order, count, score, rated, learn, todo, taster>>

\* Mutant: the place of a failed dial is not freed.
CookDialErrKeepsPlace ==
  /\ cpc = "dialing"
  /\ CookReturn
  /\ UNCHANGED <<recipeVars, score, rated, open, learn, todo, taster>>

\* The dial fails: lock again, free the place, return the error at the last
\* position of what the order is by then.
CookDialErr ==
  /\ cpc = "dialing"
  /\ count' = [count EXCEPT ![cur] = @ - 1]
  /\ \/ idx = Len(order) /\ CookReturn
     \/ /\ idx # Len(order)
        /\ cpc' = "loop"
        /\ cur' = Nil
        /\ idx' = idx + 1
        /\ UNCHANGED <<view, shared>>
  /\ UNCHANGED <<byName, byConn, order, score, rated, open, learn, todo, taster>>

\* The loop ends: ErrNoRecipes.
CookExhausted ==
  /\ cpc = "loop"
  /\ idx > Len(view)
  /\ CookReturn
  /\ UNCHANGED <<recipeVars, score, rated, open, learn, todo, taster>>

Cook ==
  \/ CookStart \/ (\E n \in Names : ScoreFast(n) \/ ScoreDial(n)) \/ ScoreDone
  \/ CookSort \/ CookSkip \/ CookAllocate
  \/ (\E c \in Conns : CookDialOk(c)) \/ CookDialErr \/ CookExhausted

Next ==
  \/ \E t \in Learners :
       LearnCommit(t) \/ \E n \in Names, r \in Recipes : LearnDial(t, n, r)
  \/ \E n \in Names : Forget(n)
  \/ \E c \in Conns : Burn(c) \/ Ignite(c)
  \/ Cook
  \/ Close

Spec == Init /\ [][Next]_vars

-----------------------------------------------------------------------------
\* Connections dialled for r that are not in the books yet.
InFlight(r) ==
  (IF cpc = "dialing" /\ cur = r THEN 1 ELSE 0)
  + Cardinality(UNION {learn[t].added : t \in {x \in Learners : learn[x].recipe = r}})

\* The count of a recipe is the number of connections it really has, with those
\* being dialled: a dial that fails, a Forget or a Close during a dial, a Burn
\* of a connection that is already gone free each place exactly once.
Accounting == \A r \in Recipes : count[r] = Cardinality(ConnsOf(r)) + InFlight(r)

\* A recipe never has more places taken than MaxConnections, whoever frees and
\* allocates while Cook has the mutex released.
WithinMax == MaxConns # 0 => \A r \in Recipes : count[r] <= MaxConns

\* No connection is leaked and none in the books is closed: what is open is in
\* the books, or a Learn or a critic still has it in hand.
NoConnLeaked ==
  open = {c \in Conns : byConn[c] # Nil} \cup (UNION {learn[t].added : t \in Learners})
         \cup ({taster} \ {Nil})

\* The order lists the named recipes, each one once.
OrderMatchesNames ==
  /\ Elements(order) = {byName[n] : n \in Names} \ {Nil}
  /\ Distinct(order)

\* The books of the chef, all together.
Books == TypeOK /\ Accounting /\ WithinMax /\ OrderMatchesNames

\* The comment on Forget: "All conn made with the recipe will be closed."
ForgottenClosed ==
  \A c \in Conns : byConn[c] # Nil => \E n \in Names : byName[n] = byConn[c]

=============================================================================
