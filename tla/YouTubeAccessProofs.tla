------------------------ MODULE YouTubeAccessProofs ------------------------
(***************************************************************************)
(* Theorems about YouTubeAccess for any number of calls, any limits, any   *)
(* number of attempts and any pool.                                        *)
(***************************************************************************)
EXTENDS YouTubeAccess, FiniteSetTheorems, TLAPS

USE AccessAssumption

\* The calls whose answer from InnerTube may still change a counter.
AskingSearches == {c \in Searches : stage[c] = "api"}
AskingVisits   == {c \in Visits : stage[c] = "api"}

\* All that a step may do to the searches' counter: nothing while no call joins
\* those that ask; one failure more and one call less; or, from below the limit or
\* by the answer of one that asks, a value below the limit.
SearchStep ==
    \/ searchFails' = searchFails /\ AskingSearches' \subseteq AskingSearches
    \/ /\ searchFails' = searchFails + 1
       /\ \E c \in AskingSearches : AskingSearches' = AskingSearches \ {c}
    \/ /\ searchFails' < SearchFailLimit
       /\ searchFails < SearchFailLimit \/ AskingSearches # {}

\* The same for the visits, whose block is a variable of its own.
BrowseStep ==
    \/ UNCHANGED browseVars /\ AskingVisits' \subseteq AskingVisits
    \/ /\ browseFails' = browseFails + 1
       /\ browseBlocked' = (browseBlocked \/ browseFails' >= BrowseFailLimit)
       /\ \E c \in AskingVisits : AskingVisits' = AskingVisits \ {c}
    \/ ~browseBlocked /\ UNCHANGED browseVars
    \/ browseFails' = 0 /\ UNCHANGED browseBlocked /\ AskingVisits # {}

\* A call that asks may turn into one failure: together they stay below the bound.
Counted ==
    /\ searchFails + Cardinality(AskingSearches)
          < SearchFailLimit + Cardinality(Searches)
    /\ browseFails + Cardinality(AskingVisits)
          < BrowseFailLimit + Cardinality(Visits)
    /\ ~browseBlocked => browseFails < BrowseFailLimit

-----------------------------------------------------------------------------
(* Typing of the calls *)

\* Initially all calls are idle.
LEMMA TypeInit == Init => CallsTyped
<1> SUFFICES ASSUME Init PROVE CallsTyped
  OBVIOUS
<1>1. /\ stage \in [Calls -> {"idle", "api", "html", "more"}]
      /\ at \in [Calls -> {"wait", "sent", "sleep"}]
      /\ attempt \in [Calls -> Nat \ {0}]
  BY DEF Init
<1>2. searchFails \in Nat /\ browseFails \in Nat /\ browseBlocked \in BOOLEAN
  BY DEF Init
<1> QED
  BY <1>1, <1>2 DEF CallsTyped

\* Goto moves one call and keeps the types.
LEMMA GotoTyped ==
    ASSUME CallsTyped, NEW c \in Calls,
           NEW s \in {"idle", "api", "html", "more"},
           NEW a \in {"wait", "sent", "sleep"}, NEW n \in Nat \ {0}, Goto(c, s, a, n)
    PROVE  /\ stage' \in [Calls -> {"idle", "api", "html", "more"}]
           /\ at' \in [Calls -> {"wait", "sent", "sleep"}]
           /\ attempt' \in [Calls -> Nat \ {0}]
           /\ stage'[c] = s /\ \A d \in Calls \ {c} : stage'[d] = stage[d]
  BY DEF CallsTyped, Goto

\* NextTurn keeps the types; a search that leaves InnerTube counts a failure.
LEMMA NextTurnTyped ==
    ASSUME CallsTyped, NEW c \in Calls, NextTurn(c)
    PROVE  /\ stage' \in [Calls -> {"idle", "api", "html", "more"}]
           /\ at' \in [Calls -> {"wait", "sent", "sleep"}]
           /\ attempt' \in [Calls -> Nat \ {0}]
           /\ \A d \in Calls \ {c} : stage'[d] = stage[d]
           /\ \/ searchFails' = searchFails /\ stage'[c] \in {stage[c], "idle"}
              \/ /\ searchFails' = searchFails + 1
                 /\ stage[c] = "api" /\ stage'[c] = "html"
  BY DEF CallsTyped, NextTurn, Goto, ToHtml, Return

\* A step of one call in which only the named things happen to the searches.
LEMMA SearchMoves ==
    ASSUME CallsTyped, NEW c \in Calls,
           \A d \in Calls \ {c} : stage'[d] = stage[d],
           \/ searchFails' = searchFails /\ (stage'[c] # "api" \/ stage[c] = "api")
           \/ searchFails' = searchFails /\ c \notin Searches
           \/ /\ searchFails' = searchFails + 1 /\ c \in Searches
              /\ stage[c] = "api" /\ stage'[c] = "html"
           \/ searchFails' = searchFails /\ searchFails < SearchFailLimit
           \/ searchFails' = 0 /\ c \in Searches /\ stage[c] = "api"
    PROVE  SearchStep
<1> USE DEF Calls
<1>1. CASE searchFails' = searchFails /\ (stage'[c] # "api" \/ stage[c] = "api")
  <2>1. AskingSearches' \subseteq AskingSearches
    BY <1>1 DEF AskingSearches
  <2> QED
    BY <1>1, <2>1 DEF SearchStep
<1>2. CASE searchFails' = searchFails /\ c \notin Searches
  <2>1. AskingSearches' \subseteq AskingSearches
    BY <1>2 DEF AskingSearches
  <2> QED
    BY <1>2, <2>1 DEF SearchStep
<1>3. CASE /\ searchFails' = searchFails + 1 /\ c \in Searches
           /\ stage[c] = "api" /\ stage'[c] = "html"
  <2>1. AskingSearches' = AskingSearches \ {c} /\ c \in AskingSearches
    BY <1>3 DEF AskingSearches
  <2> QED
    BY <1>3, <2>1 DEF SearchStep
<1>4. CASE searchFails' = searchFails /\ searchFails < SearchFailLimit
  BY <1>4 DEF SearchStep
<1>5. CASE searchFails' = 0 /\ c \in Searches /\ stage[c] = "api"
  <2>1. c \in AskingSearches
    BY <1>5 DEF AskingSearches
  <2>2. 0 < SearchFailLimit
    BY DEF AccessAssumption
  <2> QED
    BY <1>5, <2>1, <2>2 DEF SearchStep
<1> QED
  BY <1>1, <1>2, <1>3, <1>4, <1>5

\* The same for the visits.
LEMMA BrowseMoves ==
    ASSUME CallsTyped, NEW c \in Calls,
           \A d \in Calls \ {c} : stage'[d] = stage[d],
           \/ UNCHANGED browseVars /\ (stage'[c] # "api" \/ stage[c] = "api")
           \/ UNCHANGED browseVars /\ c \notin Visits
           \/ /\ browseFails' = browseFails + 1
              /\ browseBlocked' = (browseBlocked \/ browseFails' >= BrowseFailLimit)
              /\ c \in Visits /\ stage[c] = "api" /\ stage'[c] = "html"
           \/ ~browseBlocked /\ UNCHANGED browseVars
           \/ /\ browseFails' = 0 /\ UNCHANGED browseBlocked
              /\ c \in Visits /\ stage[c] = "api"
    PROVE  BrowseStep
<1> USE DEF Calls
<1>1. CASE UNCHANGED browseVars /\ (stage'[c] # "api" \/ stage[c] = "api")
  <2>1. AskingVisits' \subseteq AskingVisits
    BY <1>1 DEF AskingVisits
  <2> QED
    BY <1>1, <2>1 DEF BrowseStep
<1>2. CASE UNCHANGED browseVars /\ c \notin Visits
  <2>1. AskingVisits' \subseteq AskingVisits
    BY <1>2 DEF AskingVisits
  <2> QED
    BY <1>2, <2>1 DEF BrowseStep
<1>3. CASE /\ browseFails' = browseFails + 1
           /\ browseBlocked' = (browseBlocked \/ browseFails' >= BrowseFailLimit)
           /\ c \in Visits /\ stage[c] = "api" /\ stage'[c] = "html"
  <2>1. AskingVisits' = AskingVisits \ {c} /\ c \in AskingVisits
    BY <1>3 DEF AskingVisits
  <2> QED
    BY <1>3, <2>1 DEF BrowseStep
<1>4. CASE ~browseBlocked /\ UNCHANGED browseVars
  BY <1>4 DEF BrowseStep
<1>5. CASE /\ browseFails' = 0 /\ UNCHANGED browseBlocked
           /\ c \in Visits /\ stage[c] = "api"
  <2>1. c \in AskingVisits
    BY <1>5 DEF AskingVisits
  <2> QED
    BY <1>5, <2>1 DEF BrowseStep
<1> QED
  BY <1>1, <1>2, <1>3, <1>4, <1>5

-----------------------------------------------------------------------------
(* Every step keeps the types and is a step of both counters *)

\* Begin: InnerTube is asked only while its counter, or its block, allows it.
LEMMA BeginStep ==
    ASSUME CallsTyped, NEW c \in Calls, Begin(c)
    PROVE  CallsTyped' /\ SearchStep /\ BrowseStep
<1>1. /\ UNCHANGED <<searchFails, browseVars>>
      /\ \/ Goto(c, "html", "wait", 1)
         \/ c \in Searches /\ ~SearchOff /\ Goto(c, "api", "wait", 1)
         \/ c \in Visits /\ ~browseBlocked /\ Goto(c, "api", "wait", 1)
  BY DEF Begin, ToHtml
<1>2. /\ stage' \in [Calls -> {"idle", "api", "html", "more"}]
      /\ at' \in [Calls -> {"wait", "sent", "sleep"}]
      /\ attempt' \in [Calls -> Nat \ {0}]
      /\ \A d \in Calls \ {c} : stage'[d] = stage[d]
      /\ \/ stage'[c] = "html"
         \/ c \in Searches /\ ~SearchOff
         \/ c \in Visits /\ ~browseBlocked
  BY <1>1, GotoTyped
<1>3. ~SearchOff => searchFails < SearchFailLimit
  BY DEF SearchOff, CallsTyped, AccessAssumption
<1>4. c \in Searches => c \notin Visits
  BY DEF AccessAssumption
<1>5. SearchStep
  BY <1>1, <1>2, <1>3, <1>4, SearchMoves
<1>6. BrowseStep
  BY <1>1, <1>2, <1>4, BrowseMoves
<1> QED
  BY <1>1, <1>2, <1>5, <1>6 DEF CallsTyped, browseVars

\* A step that leaves the stages and the counters alone.
LEMMA QuietStep ==
    ASSUME CallsTyped, UNCHANGED <<stage, searchFails, browseVars>>
    PROVE  SearchStep /\ BrowseStep
  BY DEF SearchStep, BrowseStep, AskingSearches, AskingVisits, browseVars

\* Send and RateLimited move a call within its stage.
LEMMA WithinStageStep ==
    ASSUME CallsTyped, NEW c \in Calls, Send(c) \/ RateLimited(c)
    PROVE  CallsTyped' /\ SearchStep /\ BrowseStep
<1>1. /\ UNCHANGED <<stage, attempt, searchFails, browseVars>>
      /\ \/ at' = [at EXCEPT ![c] = "sent"]
         \/ at' = [at EXCEPT ![c] = "sleep"]
  BY DEF Send, RateLimited
<1> QED
  BY <1>1, QuietStep DEF CallsTyped, browseVars

\* Refused and Wake end a turn of the loop.
LEMMA TurnStep ==
    ASSUME CallsTyped, NEW c \in Calls,
           NextTurn(c), UNCHANGED browseVars,
           stage[c] = "api" => c \in Searches
    PROVE  CallsTyped' /\ SearchStep /\ BrowseStep
<1>1. /\ stage' \in [Calls -> {"idle", "api", "html", "more"}]
      /\ at' \in [Calls -> {"wait", "sent", "sleep"}]
      /\ attempt' \in [Calls -> Nat \ {0}]
      /\ \A d \in Calls \ {c} : stage'[d] = stage[d]
      /\ \/ searchFails' = searchFails /\ stage'[c] \in {stage[c], "idle"}
         \/ /\ searchFails' = searchFails + 1
            /\ stage[c] = "api" /\ stage'[c] = "html"
  BY NextTurnTyped
<1>2. stage'[c] # "api" \/ stage[c] = "api"
  BY <1>1
<1>3. SearchStep
  BY <1>1, <1>2, SearchMoves
<1>4. BrowseStep
  BY <1>1, <1>2, BrowseMoves
<1>5. searchFails' \in Nat
  BY <1>1 DEF CallsTyped
<1> QED
  BY <1>1, <1>3, <1>4, <1>5 DEF CallsTyped, browseVars

\* A call that neither joins InnerTube nor changes a counter.
LEMMA UncountedStep ==
    ASSUME CallsTyped, NEW c \in Calls,
           NEW s \in {"idle", "html", "more", stage[c]},
           NEW a \in {"wait", "sent", "sleep"}, NEW n \in Nat \ {0}, Goto(c, s, a, n),
           UNCHANGED <<searchFails, browseVars>>
    PROVE  CallsTyped' /\ SearchStep /\ BrowseStep
<1>1. s \in {"idle", "api", "html", "more"}
  BY DEF CallsTyped
<1>2. /\ stage' \in [Calls -> {"idle", "api", "html", "more"}]
      /\ at' \in [Calls -> {"wait", "sent", "sleep"}]
      /\ attempt' \in [Calls -> Nat \ {0}]
      /\ stage'[c] = s /\ \A d \in Calls \ {c} : stage'[d] = stage[d]
  BY <1>1, GotoTyped
<1>3. stage'[c] # "api" \/ stage[c] = "api"
  BY <1>2
<1>4. SearchStep
  BY <1>2, <1>3, SearchMoves
<1>5. BrowseStep
  BY <1>2, <1>3, BrowseMoves
<1> QED
  BY <1>2, <1>4, <1>5 DEF CallsTyped, browseVars

\* A search's answer from InnerTube: channels, or none.
LEMMA SearchAnswerStep ==
    ASSUME CallsTyped, NEW c \in Calls, SearchFound(c) \/ SearchEmpty(c)
    PROVE  CallsTyped' /\ SearchStep /\ BrowseStep
<1>1. /\ c \in Searches /\ c \notin Visits /\ stage[c] = "api" /\ UNCHANGED browseVars
      /\ \/ searchFails' = 0 /\ Goto(c, "idle", "wait", 1)
         \/ searchFails' = 0 /\ Goto(c, "more", "wait", 1)
         \/ searchFails' = searchFails + 1 /\ Goto(c, "html", "wait", 1)
  BY DEF SearchFound, SearchEmpty, Return, ToHtml, AccessAssumption
<1>2. /\ stage' \in [Calls -> {"idle", "api", "html", "more"}]
      /\ at' \in [Calls -> {"wait", "sent", "sleep"}]
      /\ attempt' \in [Calls -> Nat \ {0}]
      /\ \A d \in Calls \ {c} : stage'[d] = stage[d]
      /\ \/ searchFails' = 0
         \/ searchFails' = searchFails + 1 /\ stage'[c] = "html"
  BY <1>1, GotoTyped
<1>3. SearchStep
  BY <1>1, <1>2, SearchMoves
<1>4. BrowseStep
  BY <1>1, <1>2, BrowseMoves
<1>5. searchFails' \in Nat
  BY <1>2 DEF CallsTyped
<1> QED
  BY <1>1, <1>2, <1>3, <1>4, <1>5 DEF CallsTyped, browseVars

\* A visit's answer from InnerTube that is counted.
LEMMA BrowseAnswerStep ==
    ASSUME CallsTyped, NEW c \in Calls, BrowseFound(c) \/ BrowseMissed(c)
    PROVE  CallsTyped' /\ SearchStep /\ BrowseStep
<1>1. /\ c \in Visits /\ stage[c] = "api" /\ searchFails' = searchFails
      /\ \/ /\ browseFails' = 0 /\ UNCHANGED browseBlocked
            /\ Goto(c, "idle", "wait", 1)
         \/ /\ browseFails' = browseFails + 1
            /\ browseBlocked' = (browseBlocked \/ browseFails' >= BrowseFailLimit)
            /\ Goto(c, "html", "wait", 1)
  BY DEF BrowseFound, BrowseMissed, Browsed, Return, ToHtml
<1>2. /\ stage' \in [Calls -> {"idle", "api", "html", "more"}]
      /\ at' \in [Calls -> {"wait", "sent", "sleep"}]
      /\ attempt' \in [Calls -> Nat \ {0}]
      /\ \A d \in Calls \ {c} : stage'[d] = stage[d]
      /\ stage'[c] \in {"idle", "html"}
      /\ \/ browseFails' = 0 /\ UNCHANGED browseBlocked
         \/ /\ browseFails' = browseFails + 1 /\ stage'[c] = "html"
            /\ browseBlocked' = (browseBlocked \/ browseFails' >= BrowseFailLimit)
  BY <1>1, GotoTyped
<1>3. SearchStep
  BY <1>1, <1>2, SearchMoves
<1>4. BrowseStep
  BY <1>1, <1>2, BrowseMoves
<1>5. browseFails' \in Nat
  BY <1>2 DEF CallsTyped
<1>6. browseBlocked' \in BOOLEAN
  BY <1>2, Zenon DEF CallsTyped
<1> QED
  BY <1>1, <1>2, <1>3, <1>4, <1>5, <1>6 DEF CallsTyped

\* All steps together.
LEMMA StepCounted ==
    ASSUME CallsTyped, [Next]_vars
    PROVE  CallsTyped' /\ SearchStep /\ BrowseStep
<1>1. CASE UNCHANGED vars \/ Cooldown
  <2>1. UNCHANGED <<stage, at, attempt, searchFails, browseVars>>
    BY <1>1 DEF vars, callVars, Cooldown
  <2> QED
    BY <2>1, QuietStep DEF CallsTyped, browseVars
<1>2. ASSUME NEW c \in Calls, Begin(c)
      PROVE  CallsTyped' /\ SearchStep /\ BrowseStep
  BY <1>2, BeginStep
<1>3. ASSUME NEW c \in Calls, Send(c) \/ RateLimited(c)
      PROVE  CallsTyped' /\ SearchStep /\ BrowseStep
  BY <1>3, WithinStageStep
<1>4. ASSUME NEW c \in Calls, Refused(c) \/ Wake(c)
      PROVE  CallsTyped' /\ SearchStep /\ BrowseStep
  <2>1. NextTurn(c) /\ UNCHANGED browseVars /\ (stage[c] = "api" => c \in Searches)
    BY <1>4 DEF Refused, Wake, InLoop
  <2> QED
    BY <2>1, TurnStep
<1>5. ASSUME NEW c \in Calls, Raised(c)
      PROVE  CallsTyped' /\ SearchStep /\ BrowseStep
  <2>1. UNCHANGED <<searchFails, browseVars>>
    BY <1>5 DEF Raised
  <2>2. attempt[c] \in Nat \ {0} /\ attempt[c] + 1 \in Nat \ {0}
    BY DEF CallsTyped
  <2>3. \/ Goto(c, "idle", "wait", 1)
        \/ Goto(c, stage[c], "sleep", attempt[c])
        \/ Goto(c, "html", "wait", attempt[c] + 1)
    BY <1>5 DEF Raised, Return
  <2>4. CASE Goto(c, "idle", "wait", 1)
    BY <2>1, <2>4, UncountedStep
  <2>5. CASE Goto(c, stage[c], "sleep", attempt[c])
    BY <2>1, <2>2, <2>5, UncountedStep
  <2>6. CASE Goto(c, "html", "wait", attempt[c] + 1)
    BY <2>1, <2>2, <2>6, UncountedStep
  <2> QED
    BY <2>3, <2>4, <2>5, <2>6
<1>6. ASSUME NEW c \in Calls, HtmlPage(c) \/ BrowseRaised(c)
      PROVE  CallsTyped' /\ SearchStep /\ BrowseStep
  <2>1. /\ UNCHANGED <<searchFails, browseVars>>
        /\ Goto(c, "idle", "wait", 1) \/ Goto(c, "html", "wait", 1)
    BY <1>6 DEF HtmlPage, BrowseRaised, Return, ToHtml
  <2> QED
    BY <2>1, UncountedStep
<1>7. ASSUME NEW c \in Calls, NextPage(c)
      PROVE  CallsTyped' /\ SearchStep /\ BrowseStep
  <2>1. attempt[c] + 1 \in Nat \ {0}
    BY DEF CallsTyped
  <2>2. /\ UNCHANGED <<searchFails, browseVars>>
        /\ Goto(c, "idle", "wait", 1) \/ Goto(c, "more", "wait", attempt[c] + 1)
    BY <1>7 DEF NextPage, Return
  <2>3. CASE Goto(c, "idle", "wait", 1)
    BY <2>2, <2>3, UncountedStep
  <2>4. CASE Goto(c, "more", "wait", attempt[c] + 1)
    BY <2>1, <2>2, <2>4, UncountedStep
  <2> QED
    BY <2>2, <2>3, <2>4
<1>8. ASSUME NEW c \in Calls, SearchFound(c) \/ SearchEmpty(c)
      PROVE  CallsTyped' /\ SearchStep /\ BrowseStep
  BY <1>8, SearchAnswerStep
<1>9. ASSUME NEW c \in Calls, BrowseFound(c) \/ BrowseMissed(c)
      PROVE  CallsTyped' /\ SearchStep /\ BrowseStep
  BY <1>9, BrowseAnswerStep
<1> QED
  BY <1>1, <1>2, <1>3, <1>4, <1>5, <1>6, <1>7, <1>8, <1>9 DEF Next, Answer

-----------------------------------------------------------------------------
(* The bound of the counters *)

\* How many calls ask: a number, at most all of them, and one less when one stops.
LEMMA AskingSize ==
    /\ Cardinality(Searches) \in Nat /\ Cardinality(Visits) \in Nat
    /\ \A A \in SUBSET Searches :
          /\ Cardinality(A) \in Nat /\ Cardinality(A) <= Cardinality(Searches)
          /\ \A B \in SUBSET A : Cardinality(B) <= Cardinality(A)
          /\ \A c \in A : Cardinality(A \ {c}) = Cardinality(A) - 1
    /\ \A A \in SUBSET Visits :
          /\ Cardinality(A) \in Nat /\ Cardinality(A) <= Cardinality(Visits)
          /\ \A B \in SUBSET A : Cardinality(B) <= Cardinality(A)
          /\ \A c \in A : Cardinality(A \ {c}) = Cardinality(A) - 1
<1>1. ASSUME NEW S, IsFiniteSet(S), NEW A \in SUBSET S
      PROVE  /\ Cardinality(A) \in Nat /\ Cardinality(A) <= Cardinality(S)
             /\ \A B \in SUBSET A : Cardinality(B) <= Cardinality(A)
             /\ \A c \in A : Cardinality(A \ {c}) = Cardinality(A) - 1
  <2>1. IsFiniteSet(A) /\ Cardinality(A) <= Cardinality(S)
    BY <1>1, FS_Subset
  <2>2. \A B \in SUBSET A : Cardinality(B) <= Cardinality(A)
    BY <2>1, FS_Subset
  <2>3. \A c \in A : Cardinality(A \ {c}) = Cardinality(A) - 1
    BY <2>1, FS_RemoveElement
  <2> QED
    BY <2>1, <2>2, <2>3, FS_CardinalityType
<1>2. IsFiniteSet(Searches) /\ IsFiniteSet(Visits)
  BY DEF AccessAssumption
<1>3. Cardinality(Searches) \in Nat /\ Cardinality(Visits) \in Nat
  BY <1>2, FS_CardinalityType
<1> QED
  BY <1>1, <1>2, <1>3

\* Nobody asks initially.
LEMMA CountedInit == Init => Counted
<1> SUFFICES ASSUME Init PROVE Counted
  OBVIOUS
<1>1. AskingSearches = {} /\ AskingVisits = {}
  BY DEF Init, AskingSearches, AskingVisits, Calls
<1>2. Cardinality({}) = 0
  BY FS_EmptySet
<1>3. searchFails = 0 /\ browseFails = 0
  BY DEF Init
<1>4. SearchFailLimit \in Nat \ {0} /\ BrowseFailLimit \in Nat \ {0}
  BY DEF AccessAssumption
<1>5. Cardinality(Searches) \in Nat /\ Cardinality(Visits) \in Nat
  BY AskingSize
<1> QED
  BY <1>1, <1>2, <1>3, <1>4, <1>5 DEF Counted

\* A step of the searches' counter keeps its bound.
LEMMA SearchBound ==
    ASSUME CallsTyped, CallsTyped', Counted, SearchStep
    PROVE  searchFails' + Cardinality(AskingSearches')
              < SearchFailLimit + Cardinality(Searches)
<1>1. AskingSearches \in SUBSET Searches /\ AskingSearches' \in SUBSET Searches
  BY DEF AskingSearches
<1>2. /\ searchFails \in Nat /\ searchFails' \in Nat /\ SearchFailLimit \in Nat
      /\ Cardinality(Searches) \in Nat
      /\ Cardinality(AskingSearches) \in Nat /\ Cardinality(AskingSearches') \in Nat
      /\ Cardinality(AskingSearches') <= Cardinality(Searches)
  BY <1>1, AskingSize DEF CallsTyped, AccessAssumption
<1>3. searchFails + Cardinality(AskingSearches)
         < SearchFailLimit + Cardinality(Searches)
  BY DEF Counted
<1>4. CASE searchFails' = searchFails /\ AskingSearches' \subseteq AskingSearches
  <2>1. Cardinality(AskingSearches') <= Cardinality(AskingSearches)
    BY <1>1, <1>4, AskingSize
  <2> QED
    BY <1>2, <1>3, <1>4, <2>1
<1>5. CASE /\ searchFails' = searchFails + 1
           /\ \E c \in AskingSearches : AskingSearches' = AskingSearches \ {c}
  <2>1. Cardinality(AskingSearches') = Cardinality(AskingSearches) - 1
    BY <1>1, <1>5, AskingSize
  <2> QED
    BY <1>2, <1>3, <1>5, <2>1
<1>6. CASE searchFails' < SearchFailLimit
  BY <1>2, <1>6
<1> QED
  BY <1>4, <1>5, <1>6 DEF SearchStep

\* A step of the visits' counter keeps its bound, and passes its limit only together
\* with the block.
LEMMA BrowseBound ==
    ASSUME CallsTyped, CallsTyped', Counted, BrowseStep
    PROVE  /\ browseFails' + Cardinality(AskingVisits')
                 < BrowseFailLimit + Cardinality(Visits)
           /\ ~browseBlocked' => browseFails' < BrowseFailLimit
<1>1. AskingVisits \in SUBSET Visits /\ AskingVisits' \in SUBSET Visits
  BY DEF AskingVisits
<1>2. /\ browseFails \in Nat /\ browseFails' \in Nat /\ BrowseFailLimit \in Nat \ {0}
      /\ Cardinality(Visits) \in Nat
      /\ Cardinality(AskingVisits) \in Nat /\ Cardinality(AskingVisits') \in Nat
      /\ Cardinality(AskingVisits') <= Cardinality(Visits)
  BY <1>1, AskingSize DEF CallsTyped, AccessAssumption
<1>3. /\ browseFails + Cardinality(AskingVisits)
            < BrowseFailLimit + Cardinality(Visits)
      /\ ~browseBlocked => browseFails < BrowseFailLimit
  BY DEF Counted
<1>4. CASE UNCHANGED browseVars /\ AskingVisits' \subseteq AskingVisits
  <2>1. Cardinality(AskingVisits') <= Cardinality(AskingVisits)
    BY <1>1, <1>4, AskingSize
  <2> QED
    BY <1>2, <1>3, <1>4, <2>1 DEF browseVars
<1>5. CASE /\ browseFails' = browseFails + 1
           /\ browseBlocked' = (browseBlocked \/ browseFails' >= BrowseFailLimit)
           /\ \E c \in AskingVisits : AskingVisits' = AskingVisits \ {c}
  <2>1. Cardinality(AskingVisits') = Cardinality(AskingVisits) - 1
    BY <1>1, <1>5, AskingSize
  <2>2. browseFails' + Cardinality(AskingVisits')
           < BrowseFailLimit + Cardinality(Visits)
    BY <1>2, <1>3, <1>5, <2>1
  <2>3. ~browseBlocked' => ~(browseFails' >= BrowseFailLimit)
    BY <1>5
  <2> QED
    BY <1>2, <2>2, <2>3
<1>6. CASE ~browseBlocked /\ UNCHANGED browseVars
  BY <1>2, <1>3, <1>6 DEF browseVars
<1>7. CASE browseFails' = 0 /\ UNCHANGED browseBlocked /\ AskingVisits # {}
  BY <1>2, <1>3, <1>7
<1> QED
  BY <1>4, <1>5, <1>6, <1>7 DEF BrowseStep

\* The inductive invariant.
THEOREM CallsCounted == Spec => [](CallsTyped /\ Counted)
<1>1. Init => CallsTyped /\ Counted
  BY TypeInit, CountedInit
<1>2. CallsTyped /\ Counted /\ [Next]_vars => (CallsTyped /\ Counted)'
  <2> SUFFICES ASSUME CallsTyped, Counted, [Next]_vars
               PROVE  CallsTyped' /\ Counted'
    OBVIOUS
  <2>1. CallsTyped' /\ SearchStep /\ BrowseStep
    BY StepCounted
  <2> QED
    BY <2>1, SearchBound, BrowseBound DEF Counted
<1> QED
  BY <1>1, <1>2, PTL DEF Spec

\* Both counters stay below their limits and the number of calls, since a call that
\* asks InnerTube began below the limit and counts at most once.
THEOREM FailuresBoundedAlways == Spec => []FailuresBounded
<1>1. CallsTyped /\ Counted => FailuresBounded
  <2> SUFFICES ASSUME CallsTyped, Counted PROVE FailuresBounded
    OBVIOUS
  <2>1. AskingSearches \in SUBSET Searches /\ AskingVisits \in SUBSET Visits
    BY DEF AskingSearches, AskingVisits
  <2>2. /\ Cardinality(AskingSearches) \in Nat /\ Cardinality(AskingVisits) \in Nat
        /\ Cardinality(Searches) \in Nat /\ Cardinality(Visits) \in Nat
    BY <2>1, AskingSize
  <2> QED
    BY <2>2 DEF FailuresBounded, Counted, CallsTyped, AccessAssumption
<1> QED
  BY <1>1, CallsCounted, PTL

-----------------------------------------------------------------------------
(* InnerTube off for good *)

\* While no search asks, a step leaves the searches' counter alone; likewise the
\* visits' block.  The guards of Begin keep new calls away from InnerTube.
LEMMA GivenUpStep ==
    ASSUME CallsTyped, SearchStep, BrowseStep
    PROVE  /\ SearchGivenUp => SearchGivenUp'
           /\ BrowseGivenUp => BrowseGivenUp'
<1>1. ASSUME SearchGivenUp PROVE SearchGivenUp'
  <2>1. AskingSearches = {} /\ ~(searchFails < SearchFailLimit)
    BY <1>1 DEF SearchGivenUp, SearchOff, AskingSearches, CallsTyped, AccessAssumption
  <2>2. searchFails' = searchFails /\ AskingSearches' = {}
    BY <2>1 DEF SearchStep
  <2> QED
    BY <1>1, <2>2 DEF SearchGivenUp, SearchOff, AskingSearches
<1>2. ASSUME BrowseGivenUp PROVE BrowseGivenUp'
  <2>1. AskingVisits = {} /\ browseBlocked
    BY <1>2 DEF BrowseGivenUp, AskingVisits
  <2>2. UNCHANGED browseVars /\ AskingVisits' = {}
    BY <2>1 DEF BrowseStep
  <2> QED
    BY <1>2, <2>2 DEF BrowseGivenUp, AskingVisits, browseVars
<1> QED
  BY <1>1, <1>2

\* Only the answer to a first request leads a search to further pages.
LEMMA GivenUpPages ==
    ASSUME CallsTyped, [Next]_vars, SearchGivenUp
    PROVE  PagesRunOut
<1> SUFFICES ASSUME NEW d \in Calls, stage'[d] = "more"
             PROVE  stage[d] = "more" /\ attempt[d] <= attempt'[d]
  BY DEF PagesRunOut
<1> USE DEF Goto, Return, ToHtml
<1>0. /\ stage \in [Calls -> {"idle", "api", "html", "more"}]
      /\ attempt \in [Calls -> Nat \ {0}]
  BY DEF CallsTyped
<1>1. CASE UNCHANGED <<stage, attempt>>
  BY <1>0, <1>1
<1>2. CASE UNCHANGED vars
  BY <1>1, <1>2 DEF vars, callVars
<1>3. ASSUME NEW c \in Calls, Begin(c)
      PROVE  stage[d] = "more" /\ attempt[d] <= attempt'[d]
  BY <1>0, <1>3 DEF Begin
<1>4. ASSUME NEW c \in Calls, Send(c) \/ RateLimited(c)
      PROVE  stage[d] = "more" /\ attempt[d] <= attempt'[d]
  BY <1>1, <1>4 DEF Send, RateLimited
<1>5. ASSUME NEW c \in Calls, InLoop(c), NextTurn(c)
      PROVE  stage[d] = "more" /\ attempt[d] <= attempt'[d]
  BY <1>0, <1>5 DEF InLoop, NextTurn
<1>6. ASSUME NEW c \in Calls, Refused(c) \/ Wake(c)
      PROVE  stage[d] = "more" /\ attempt[d] <= attempt'[d]
  BY <1>5, <1>6 DEF Refused, Wake
<1>7. ASSUME NEW c \in Calls, Raised(c)
      PROVE  stage[d] = "more" /\ attempt[d] <= attempt'[d]
  BY <1>0, <1>7 DEF Raised, InLoop
<1>8. ASSUME NEW c \in Calls, HtmlPage(c) \/ SearchEmpty(c)
      PROVE  stage[d] = "more" /\ attempt[d] <= attempt'[d]
  BY <1>0, <1>8 DEF HtmlPage, SearchEmpty
<1>9. ASSUME NEW c \in Calls
      PROVE  ~SearchFound(c)
  BY DEF SearchFound, SearchGivenUp
<1>10. ASSUME NEW c \in Calls, NextPage(c)
       PROVE  stage[d] = "more" /\ attempt[d] <= attempt'[d]
  BY <1>0, <1>10 DEF NextPage
<1>11. ASSUME NEW c \in Calls, BrowseFound(c) \/ BrowseMissed(c) \/ BrowseRaised(c)
       PROVE  stage[d] = "more" /\ attempt[d] <= attempt'[d]
  BY <1>0, <1>11 DEF BrowseFound, BrowseMissed, BrowseRaised
<1>12. CASE Cooldown
  BY <1>1, <1>12 DEF Cooldown, callVars
<1> QED
  BY <1>2, <1>3, <1>4, <1>6, <1>7, <1>8, <1>9, <1>10, <1>11, <1>12 DEF Next, Answer

\* Once no first request can turn InnerTube on again, none ever does, and no search
\* goes on to further pages.
THEOREM OffForGoodAlways == Spec => OffForGood
<1>1. CallsTyped /\ [Next]_vars
         => [/\ SearchGivenUp => SearchGivenUp' /\ PagesRunOut
             /\ BrowseGivenUp => BrowseGivenUp']_vars
  BY StepCounted, GivenUpStep, GivenUpPages
<1> QED
  BY <1>1, CallsCounted, PTL DEF Spec, OffForGood

-----------------------------------------------------------------------------
(* Typing of the pool and of the requests *)

\* What a step may do to the pool: its members are fixed.
PoolStep == PoolTyped' /\ UNCHANGED pool

\* The first of the queue leaves it.
LEMMA HeadLeaves ==
    ASSUME PoolTyped, resting # <<>>, resting' = Tail(resting), UNCHANGED pool,
           streak' \in [pool -> 0..MaxFailures]
    PROVE  PoolStep /\ Head(resting) \in pool
<1>1. resting \in Seq(pool)
  BY DEF PoolTyped
<1>2. /\ Len(resting) \in Nat \ {0} /\ Head(resting) = resting[1] /\ resting[1] \in pool
      /\ resting' \in Seq(pool) /\ Len(resting') = Len(resting) - 1
      /\ \A i \in 1..Len(resting') : resting'[i] = resting[i + 1]
  BY <1>1
<1>3. DOMAIN resting = 1..Len(resting) /\ DOMAIN resting' = 1..Len(resting')
  BY <1>1, <1>2
<1>4. ASSUME NEW i \in DOMAIN resting', NEW k \in DOMAIN resting', resting'[i] = resting'[k]
      PROVE  i = k
  <2>1. i + 1 \in DOMAIN resting /\ k + 1 \in DOMAIN resting /\ i \in Nat /\ k \in Nat
    <3>1. i \in 1..Len(resting') /\ k \in 1..Len(resting')
      BY <1>3, <1>4, Zenon
    <3>2. Len(resting) \in Nat /\ Len(resting') = Len(resting) - 1
      BY <1>2
    <3>3. i + 1 \in 1..Len(resting) /\ k + 1 \in 1..Len(resting) /\ i \in Nat /\ k \in Nat
      BY <3>1, <3>2
    <3> QED
      BY <1>3, <3>3, Zenon
  <2>2. resting[i + 1] = resting[k + 1]
    BY <1>2, <1>3, <1>4
  <2>3. i + 1 = k + 1
    BY <2>1, <2>2 DEF PoolTyped
  <2> QED
    BY <2>1, <2>3
<1> QED
  BY <1>2, <1>4 DEF PoolTyped, PoolStep

\* A proxy is put at the end of the queue, from wherever it stood.
LEMMA ToBackTyped ==
    ASSUME PoolTyped, NEW p \in pool
    PROVE  /\ ToBack(p) \in Seq(pool)
           /\ \A i, k \in DOMAIN ToBack(p) : ToBack(p)[i] = ToBack(p)[k] => i = k
<1>1. /\ resting \in Seq(pool) /\ Len(resting) \in Nat
      /\ DOMAIN resting = 1..Len(resting)
      /\ \A i \in 1..Len(resting) : resting[i] \in pool
      /\ \A i, k \in 1..Len(resting) : resting[i] = resting[k] => i = k
  BY SMTT(20) DEF PoolTyped
<1>2. CASE p \in Resting
  <2> DEFINE n == Len(resting)
             j == CHOOSE k \in DOMAIN resting : resting[k] = p
             s == [k \in 1..n |-> IF k = n THEN p ELSE IF k < j THEN resting[k]
                                  ELSE resting[k + 1]]
  <2>1. j \in 1..n /\ resting[j] = p /\ n \in Nat
    <3>1. \E k \in DOMAIN resting : resting[k] = p
      BY <1>2 DEF Resting
    <3> QED
      BY <1>1, <3>1
  <2>2. ToBack(p) = s
    BY <1>2 DEF ToBack
  <2> HIDE DEF j
  <2>3. \A k \in 1..n : s[k] = IF k = n THEN p ELSE IF k < j THEN resting[k]
                                ELSE resting[k + 1]
    OBVIOUS
  <2>4. DOMAIN s = 1..n
    OBVIOUS
  <2>5. s = [k \in 1..n |-> s[k]]
    OBVIOUS
  <2> HIDE DEF s, n
  <2>6. n = Len(resting)
    BY DEF n
  <2>7. \A k \in 1..n : k = n \/ k + 1 \in 1..n
    BY <2>1
  <2>8. \A k \in 1..n : s[k] \in pool
    <3> SUFFICES ASSUME NEW k \in 1..n
                 PROVE  s[k] \in pool
      OBVIOUS
    <3>1. CASE k = n
      BY <2>3, <3>1
    <3>2. CASE k # n
      BY <1>1, <2>3, <2>6, <2>7, <3>2
    <3> QED
      BY <3>1, <3>2
  <2>9. s \in Seq(pool)
    BY <2>1, <2>8, <2>5
  <2>10. ASSUME NEW i \in 1..n, NEW k \in 1..n, s[i] = s[k]
        PROVE  i = k
    <3>1. ASSUME NEW m \in 1..n, m # n
          PROVE  s[m] # p
      <4>1. CASE m < j
        <5>1. s[m] = resting[m]
          BY <2>3, <3>1, <4>1
        <5>2. m # j
          BY <2>1, <4>1
        <5> QED
          BY <1>1, <2>1, <2>6, <5>1, <5>2
      <4>2. CASE ~(m < j)
        <5>1. m + 1 \in 1..n /\ m + 1 # j
          BY <2>1, <3>1, <4>2
        <5>2. s[m] = resting[m + 1]
          BY <2>3, <3>1, <4>2
        <5> QED
          BY <1>1, <2>1, <2>6, <5>1, <5>2
      <4> QED
        BY <4>1, <4>2
    <3>2. CASE i = n \/ k = n
      <4>1. s[n] = p
        <5>1. n \in 1..n
          BY <2>1
        <5> QED
          BY <2>3, <5>1
      <4> QED
        BY <2>10, <3>1, <3>2, <4>1
    <3>3. CASE i # n /\ k # n
      <4>1. i + 1 \in 1..n /\ k + 1 \in 1..n
        BY <2>1, <3>3
      <4>2. /\ s[i] = IF i < j THEN resting[i] ELSE resting[i + 1]
            /\ s[k] = IF k < j THEN resting[k] ELSE resting[k + 1]
        BY <2>3, <3>3
      <4>3. i \in Nat /\ k \in Nat /\ j \in Nat
        BY <2>1
      <4>4. \A l, m \in 1..n : resting[l] = resting[m] => l = m
        BY <1>1, <2>6
      <4>5. CASE i < j /\ k < j
        BY <2>10, <4>2, <4>4, <4>5
      <4>6. CASE i < j /\ ~(k < j)
        <5>1. i = k + 1
          BY <2>10, <4>1, <4>2, <4>4, <4>6
        <5> QED
          BY <4>3, <4>6, <5>1
      <4>7. CASE ~(i < j) /\ k < j
        <5>1. i + 1 = k
          BY <2>10, <4>1, <4>2, <4>4, <4>7
        <5> QED
          BY <4>3, <4>7, <5>1
      <4>8. CASE ~(i < j) /\ ~(k < j)
        <5>1. i + 1 = k + 1
          BY <2>10, <4>1, <4>2, <4>4, <4>8
        <5> QED
          BY <4>3, <5>1
      <4> QED
        BY <4>5, <4>6, <4>7, <4>8
    <3> QED
      BY <3>2, <3>3
  <2> QED
    BY <2>2, <2>9, <2>4, <2>10
<1>3. CASE p \notin Resting
  <2> DEFINE n == Len(resting) + 1
             s == [k \in 1..n |-> IF k = n THEN p ELSE IF k < n THEN resting[k]
                                  ELSE resting[k + 1]]
  <2>1. ToBack(p) = s
    BY <1>3 DEF ToBack
  <2>2. n \in Nat /\ DOMAIN s = 1..n /\ s[n] = p
    BY <1>1
  <2>3. \A k \in 1..n : k # n => k \in 1..Len(resting) /\ s[k] = resting[k] /\ s[k] # p
    BY <1>1, <1>3 DEF Resting
  <2>4. \A k \in 1..n : s[k] \in pool
    BY <1>1, <2>2, <2>3
  <2>5. s \in Seq(pool)
    BY <2>2, <2>4
  <2> HIDE DEF s
  <2>6. \A i, k \in 1..n : s[i] = s[k] => i = k
    BY <1>1, <2>2, <2>3
  <2> QED
    BY <2>1, <2>2, <2>5, <2>6
<1> QED
  BY <1>2, <1>3

\* The reports keep the pool typed.
LEMMA ReportsTyped ==
    ASSUME PoolTyped, NEW p, ReportSuccess(p) \/ ReportFailure(p)
    PROVE  PoolStep
<1>0. MaxFailures \in Nat /\ \A q \in pool : streak[q] \in 0..MaxFailures
  BY PoolAssumption DEF PoolTyped
<1>1. CASE ReportSuccess(p)
  <2>1. streak' \in [pool -> 0..MaxFailures]
    BY <1>0, <1>1 DEF ReportSuccess
  <2> QED
    BY <1>1, <2>1 DEF ReportSuccess, PoolTyped, PoolStep
<1>2. CASE ReportFailure(p)
  <2>1. streak' \in [pool -> 0..MaxFailures]
    BY <1>0, <1>2 DEF ReportFailure
  <2>2. CASE p \in pool /\ resting' = ToBack(p)
    BY <1>2, <2>1, <2>2, ToBackTyped DEF ReportFailure, PoolTyped, PoolStep
  <2>3. CASE resting' = resting
    BY <1>2, <2>1, <2>3 DEF ReportFailure, PoolTyped, PoolStep
  <2> QED
    BY <1>2, <2>2, <2>3 DEF ReportFailure
<1> QED
  BY <1>1, <1>2

\* get_proxy always has an answer from the list, also when every proxy rests.
LEMMA GetProxyTyped ==
    ASSUME PoolTyped, NEW p, GetProxy(p)
    PROVE  PoolStep /\ p \in pool \union {Direct}
<1>1. CASE UNCHANGED <<resting, streak>> /\ p \in pool \union {Direct}
  BY <1>1 DEF GetProxy, PoolTyped, PoolStep
<1>2. CASE /\ pool # {} /\ Healthy = {} /\ p = Head(resting)
           /\ resting' = Tail(resting) /\ streak' = [streak EXCEPT ![p] = 0]
  <2>1. resting # <<>>
    BY <1>2 DEF Healthy, Resting
  <2>2. streak' \in [pool -> 0..MaxFailures]
    <3>1. 0 \in 0..MaxFailures
      BY PoolAssumption
    <3>2. streak \in [pool -> 0..MaxFailures]
      BY DEF PoolTyped
    <3> QED
      BY <1>2, <3>1, <3>2
  <2> QED
    BY <1>2, <2>1, <2>2, HeadLeaves DEF GetProxy
<1> QED
  BY <1>1, <1>2 DEF GetProxy, Healthy

\* A call that goes on without a request has no proxy.
LEMMA WithoutProxy ==
    ASSUME CallsTyped, ProxiesKnown, NEW c \in Calls, UNCHANGED pool,
           (proxy' = proxy /\ at[c] # "sent") \/ proxy' = [proxy EXCEPT ![c] = Nobody],
           NEW a \in {"wait", "sleep"}, at' = [at EXCEPT ![c] = a],
           \A d \in Calls \ {c} : stage'[d] = stage[d],
           stage'[c] = "idle" => a = "wait"
    PROVE  ProxiesKnown'
BY DEF CallsTyped, ProxiesKnown

\* The turns of a loop set at[c] to "wait", or to "sleep".
LEMMA GoesOn ==
    ASSUME NEW c, NextTurn(c)
    PROVE  /\ at' = [at EXCEPT ![c] = "wait"]
           /\ \E s : stage' = [stage EXCEPT ![c] = s]
BY DEF NextTurn, Goto, ToHtml, Return

\* Every answer is reported on, or not, and gives the proxy back.
LEMMA AnswerTyped ==
    ASSUME TypeOK, NEW c \in Calls, Answer(c)
    PROVE  PoolTyped' /\ ProxiesKnown'
<1>1. PoolStep
  <2>1. CASE UNCHANGED poolVars
    BY <2>1 DEF poolVars, PoolStep, PoolTyped, TypeOK
  <2> QED
    BY <2>1, ReportsTyped DEF TypeOK, Answer, RateLimited, Refused, Raised, HtmlPage,
       SearchFound, SearchEmpty, NextPage, BrowseFound, BrowseMissed, BrowseRaised
<1>2. proxy' = [proxy EXCEPT ![c] = Nobody]
  BY DEF Answer, RateLimited, Refused, Raised, HtmlPage, SearchFound, SearchEmpty,
     NextPage, BrowseFound, BrowseMissed, BrowseRaised, Browsed, Answered
<1>3. /\ \/ at' = [at EXCEPT ![c] = "wait"]
         \/ at' = [at EXCEPT ![c] = "sleep"] /\ stage'[c] # "idle"
      /\ \A d \in Calls \ {c} : stage'[d] = stage[d]
  <2>1. stage \in [Calls -> {"idle", "api", "html", "more"}]
    BY DEF TypeOK, CallsTyped
  <2>2. CASE RateLimited(c)
    BY <2>1, <2>2 DEF RateLimited, InLoop
  <2>3. CASE Refused(c)
    BY <2>1, <2>3, GoesOn DEF Refused
  <2>4. CASE Raised(c)
    BY <2>1, <2>4 DEF Raised, InLoop, Goto, Return
  <2>5. CASE HtmlPage(c) \/ SearchFound(c) \/ SearchEmpty(c) \/ NextPage(c)
    BY <2>1, <2>5 DEF HtmlPage, SearchFound, SearchEmpty, NextPage, Goto, Return, ToHtml
  <2>6. CASE BrowseFound(c) \/ BrowseMissed(c) \/ BrowseRaised(c)
    BY <2>1, <2>6 DEF BrowseFound, BrowseMissed, BrowseRaised, Goto, Return, ToHtml
  <2> QED
    BY <2>2, <2>3, <2>4, <2>5, <2>6 DEF Answer
<1>4. UNCHANGED pool
  BY <1>1 DEF PoolStep
<1>5. ProxiesKnown'
  BY <1>2, <1>3, <1>4, WithoutProxy DEF TypeOK
<1> QED
  BY <1>1, <1>5 DEF PoolStep

\* A request is sent with the proxy it will be reported under.
LEMMA SendTyped ==
    ASSUME TypeOK, NEW c \in Calls, Send(c)
    PROVE  PoolTyped' /\ ProxiesKnown'
<1>1. PICK p \in pool \union {Direct} : GetProxy(p) /\ proxy' = [proxy EXCEPT ![c] = p]
  BY DEF Send
<1>2. PoolStep
  BY <1>1, GetProxyTyped DEF TypeOK
<1>3. p # Nobody
  <2>1. Direct # Nobody
    BY DEF Direct, Nobody
  <2>2. pool \subseteq Proxies
    BY DEF TypeOK, PoolTyped
  <2> QED
    BY <2>1, <2>2 DEF AccessAssumption
<1>4. at' = [at EXCEPT ![c] = "sent"] /\ stage' = stage /\ stage[c] # "idle"
  BY DEF Send
<1> QED
  BY <1>1, <1>2, <1>3, <1>4 DEF PoolStep, TypeOK, ProxiesKnown, CallsTyped

\* Every step keeps the pool typed and a request's proxy known.
LEMMA PoolTypeStep ==
    ASSUME TypeOK, [Next]_vars
    PROVE  PoolTyped' /\ ProxiesKnown'
<1>1. CASE UNCHANGED vars
  BY <1>1 DEF vars, callVars, poolVars, TypeOK, PoolTyped, ProxiesKnown
<1>2. ASSUME NEW c \in Calls, Begin(c)
      PROVE  PoolTyped' /\ ProxiesKnown'
  <2>1. /\ UNCHANGED <<proxy, poolVars>>
        /\ at' = [at EXCEPT ![c] = "wait"]
    BY <1>2 DEF Begin, Goto, ToHtml
  <2>2. at[c] = "wait"
    BY <1>2 DEF Begin, TypeOK, ProxiesKnown
  <2>3. \A d \in Calls : stage'[d] = "idle" => stage[d] = "idle"
    BY <1>2 DEF Begin, Goto, ToHtml, TypeOK, CallsTyped
  <2>4. ProxiesKnown'
    BY <2>1, <2>2, <2>3 DEF TypeOK, CallsTyped, ProxiesKnown, poolVars
  <2> QED
    BY <2>1, <2>4 DEF TypeOK, PoolTyped, poolVars
<1>3. ASSUME NEW c \in Calls, Wake(c)
      PROVE  PoolTyped' /\ ProxiesKnown'
  <2>1. /\ UNCHANGED <<proxy, poolVars>> /\ at[c] = "sleep"
        /\ at' = [at EXCEPT ![c] = "wait"]
        /\ \A d \in Calls \ {c} : stage'[d] = stage[d]
    <3>1. stage \in [Calls -> {"idle", "api", "html", "more"}]
      BY DEF TypeOK, CallsTyped
    <3> QED
      BY <1>3, <3>1, GoesOn DEF Wake
  <2> QED
    BY <2>1, WithoutProxy DEF TypeOK, PoolTyped, poolVars
<1>4. CASE Cooldown
  <2>1. PoolStep
    BY <1>4, HeadLeaves DEF Cooldown, CooldownOver, TypeOK, PoolTyped
  <2> QED
    BY <1>4, <2>1 DEF PoolStep, Cooldown, TypeOK, ProxiesKnown, callVars
<1> QED
  BY <1>1, <1>2, <1>3, <1>4, AnswerTyped, SendTyped DEF Next

\* TypeOK is an invariant: no proxy is queued twice however late its failures are
\* reported, and a report always speaks of the proxy the request was sent through.
THEOREM TypeCorrect == Spec => []TypeOK
<1>1. Init => TypeOK
  <2> SUFFICES ASSUME Init
               PROVE  PoolTyped /\ ProxiesKnown
    BY TypeInit DEF TypeOK
  <2>1. PoolTyped
    <3>1. <<>> \in Seq(pool) /\ DOMAIN <<>> = {}
      OBVIOUS
    <3> QED
      BY <3>1, PoolAssumption DEF Init, PoolInit, PoolTyped
  <2>2. ProxiesKnown
    BY DEF Init, ProxiesKnown
  <2> QED
    BY <2>1, <2>2
<1>2. TypeOK /\ [Next]_vars => TypeOK'
  BY StepCounted, PoolTypeStep DEF TypeOK
<1> QED
  BY <1>1, <1>2, PTL DEF Spec
=============================================================================
