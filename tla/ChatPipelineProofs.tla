------------------------- MODULE ChatPipelineProofs -------------------------
(***************************************************************************)
(* Theorems about ChatPipeline: for any number of tenants, requests and    *)
(* models, any prices and caps, and without the bounds on time.            *)
(***************************************************************************)
EXTENDS ChatPipeline, FiniteSetTheorems, NaturalsInduction,
        WellFoundedInduction, TLAPS

-----------------------------------------------------------------------------
(* Sums over finite sets of rows *)

\* A non-empty set of natural numbers has a least element.
LEMMA LeastNat ==
    ASSUME NEW B \in SUBSET Nat, B # {}
    PROVE  \E m \in B : \A k \in B : m <= k
<1>1. PICK m \in B : \A k \in B : ~(<<k, m>> \in OpToRel(<, Nat))
  BY NatLessThanWellFounded, WFMin
<1>2. \A k \in B : ~(k < m)
  BY <1>1 DEF OpToRel
<1> QED BY <1>2

\* A non-empty collection of finite sets has a member that leaves it whichever
\* element is removed: the form in which induction on finite sets is used here.
LEMMA LeastSet ==
    ASSUME NEW W, W # {}, \A s \in W : IsFiniteSet(s)
    PROVE  \E s \in W : \A x \in s : s \ {x} \notin W
<1> DEFINE B == {Cardinality(s) : s \in W}
<1>1. B \in SUBSET Nat
  BY FS_CardinalityType
<1>2. B # {}
  OBVIOUS
<1>3. PICK m \in B : \A k \in B : m <= k
  <2> HIDE DEF B
  <2> QED BY <1>1, <1>2, LeastNat
<1>4. PICK s \in W : Cardinality(s) = m
  OBVIOUS
<1>5. ASSUME NEW x \in s, s \ {x} \in W
      PROVE  FALSE
  <2>1. Cardinality(s \ {x}) \in B
    BY <1>5
  <2>2. m <= Cardinality(s \ {x})
    BY <1>3, <2>1
  <2>3. Cardinality(s \ {x}) = Cardinality(s) - 1
    BY <1>4, <1>5, FS_RemoveElement
  <2>4. Cardinality(s) \in Nat
    BY <1>4, FS_CardinalityType
  <2> QED BY <1>4, <2>2, <2>3, <2>4
<1> QED BY <1>4, <1>5

\* The equation of the recursive function behind MapThenSumSet, over the subsets
\* of a set of rows.
SumBody(g, s) ==
    IF s = {} THEN 0
    ELSE (CHOOSE x \in s : TRUE).usd + g[s \ {CHOOSE x \in s : TRUE}]

SumFcn(S, g) == g = [s \in SUBSET S |-> SumBody(g, s)]

\* SumUSD is the value at the whole set of such a function.
LEMMA SumDef ==
    ASSUME NEW S
    PROVE  SumUSD(S) = (CHOOSE g : SumFcn(S, g))[S]
BY DEF SumUSD, MapThenSumSet, MapThenFoldSet, SumBody, SumFcn

\* A sum function satisfies its equation at every subset.
LEMMA SumFcnAt ==
    ASSUME NEW S, NEW g, SumFcn(S, g), NEW s \in SUBSET S
    PROVE  g[s] = SumBody(g, s)
<1>1. \A f : f = [z \in SUBSET S |-> SumBody(g, z)] => f[s] = SumBody(g, s)
  OBVIOUS
<1> QED BY <1>1 DEF SumFcn

\* Two sum functions agree wherever both are defined.
LEMMA SumFcnUnique ==
    ASSUME NEW S, NEW T, NEW g, NEW h, SumFcn(S, g), SumFcn(T, h),
           IsFiniteSet(S), NEW s \in SUBSET S, s \in SUBSET T
    PROVE  g[s] = h[s]
<1> DEFINE W == {z \in SUBSET s : g[z] # h[z]}
<1>1. SUFFICES ASSUME W # {} PROVE FALSE
  BY s \in SUBSET s
<1>2. \A z \in W : IsFiniteSet(z)
  BY FS_Subset
<1>3. PICK z \in W : \A x \in z : z \ {x} \notin W
  <2> HIDE DEF W
  <2> QED BY <1>1, <1>2, LeastSet
<1>4. g[z] = SumBody(g, z) /\ h[z] = SumBody(h, z)
  BY SumFcnAt
<1>5. CASE z = {}
  BY <1>4, <1>5 DEF SumBody
<1>6. CASE z # {}
  <2> DEFINE c == CHOOSE x \in z : TRUE
  <2>1. c \in z
    BY <1>6
  <2>2. g[z \ {c}] = h[z \ {c}]
    BY <1>3, <2>1
  <2> QED BY <1>4, <1>6, <2>2 DEF SumBody
<1> QED BY <1>5, <1>6

\* A finite set of rows has a sum function.
LEMMA SumFcnExists ==
    ASSUME NEW S, IsFiniteSet(S)
    PROVE  \E g : SumFcn(S, g)
<1> DEFINE W == {z \in SUBSET S : ~\E g : SumFcn(z, g)}
<1>1. SUFFICES ASSUME W # {} PROVE FALSE
  BY S \in SUBSET S
<1>2. \A z \in W : IsFiniteSet(z)
  BY FS_Subset
<1>3. PICK z \in W : \A x \in z : z \ {x} \notin W
  <2> HIDE DEF W
  <2> QED BY <1>1, <1>2, LeastSet
<1>4. ~\E g : SumFcn(z, g)
  OBVIOUS
<1> DEFINE c == CHOOSE x \in z : TRUE
<1>5. CASE z = {}
  <2>1. PICK g : g = [s \in SUBSET z |-> 0]
    OBVIOUS
  <2>2. \A s \in SUBSET z : SumBody(g, s) = 0
    BY <1>5 DEF SumBody
  <2>3. SumFcn(z, g)
    BY <2>1, <2>2 DEF SumFcn
  <2> QED BY <1>4, <2>3
<1>6. CASE z # {}
  <2> DEFINE f(s) == (CHOOSE g : SumFcn(s, g))[s]
  <2>2. \A s \in SUBSET z : s # z => \E g : SumFcn(s, g)
    <3> SUFFICES ASSUME NEW s \in SUBSET z, s # z PROVE \E g : SumFcn(s, g)
      OBVIOUS
    <3>1. PICK x \in z : x \notin s
      OBVIOUS
    <3>2. PICK g : SumFcn(z \ {x}, g)
      BY <1>3
    <3>3. PICK h : h = [t \in SUBSET s |-> g[t]]
      OBVIOUS
    <3>4. ASSUME NEW t \in SUBSET s PROVE g[t] = SumBody(h, t)
      <4>1. g[t] = SumBody(g, t)
        <5>1. t \in SUBSET (z \ {x})
          BY <3>1
        <5> QED BY <3>2, <5>1, SumFcnAt
      <4>2. CASE t = {}
        BY <4>1, <4>2 DEF SumBody
      <4>3. CASE t # {}
        <5>1. (CHOOSE y \in t : TRUE) \in t
          BY <4>3
        <5>2. h[t \ {CHOOSE y \in t : TRUE}] = g[t \ {CHOOSE y \in t : TRUE}]
          BY <3>3
        <5> QED BY <4>1, <4>3, <5>2 DEF SumBody
      <4> QED BY <4>2, <4>3
    <3>5. SumFcn(s, h)
      BY <3>3, <3>4 DEF SumFcn
    <3> QED BY <3>5
  <2>3. PICK e : e = [s \in SUBSET z |->
                        IF s = z THEN c.usd + f(z \ {c}) ELSE f(s)]
    OBVIOUS
  <2>4. c \in z
    BY <1>6
  <2>5. ASSUME NEW s \in SUBSET z
        PROVE  e[s] = SumBody(e, s)
    <3>1. CASE s = z
      <4>1. e[z] = c.usd + f(z \ {c})
        BY <2>3
      <4>2. e[z \ {c}] = f(z \ {c})
        BY <2>3, <2>4
      <4> HIDE DEF f
      <4> QED BY <1>6, <3>1, <4>1, <4>2 DEF SumBody
    <3>2. CASE s # z
      <4>1. PICK g : g = CHOOSE sum : SumFcn(s, sum)
        OBVIOUS
      <4>2. SumFcn(s, g)
        BY <2>2, <3>2, <4>1
      <4>3. e[s] = g[s]
        BY <2>3, <3>2, <4>1
      <4>4. g[s] = SumBody(g, s)
        BY <4>2, SumFcnAt, s \in SUBSET s
      <4>5. CASE s = {}
        BY <4>3, <4>4, <4>5 DEF SumBody
      <4>6. CASE s # {}
        <5> DEFINE d == CHOOSE x \in s : TRUE
        <5>1. d \in s
          BY <4>6
        <5>2. PICK h : h = CHOOSE sum : SumFcn(s \ {d}, sum)
          OBVIOUS
        <5>3. s \ {d} \in SUBSET z /\ s \ {d} # z
          BY <5>1
        <5>4. SumFcn(s \ {d}, h)
          BY <2>2, <5>2, <5>3
        <5>5. e[s \ {d}] = h[s \ {d}]
          BY <2>3, <5>2, <5>3
        <5>6. g[s \ {d}] = h[s \ {d}]
          <6>1. IsFiniteSet(s)
            BY FS_Subset
          <6>2. s \ {d} \in SUBSET s /\ s \ {d} \in SUBSET (s \ {d})
            OBVIOUS
          <6> HIDE DEF d
          <6> QED BY <4>2, <5>4, <6>1, <6>2, SumFcnUnique
        <5> QED BY <4>3, <4>4, <4>6, <5>5, <5>6 DEF SumBody
      <4> QED BY <4>5, <4>6
    <3> QED BY <3>1, <3>2
  <2>6. SumFcn(z, e)
    <3>1. DOMAIN e = SUBSET z /\ e = [s \in DOMAIN e |-> e[s]]
      BY <2>3
    <3> QED BY <2>5, <3>1 DEF SumFcn
  <2> QED BY <1>4, <2>6
<1> QED BY <1>5, <1>6

\* The sum of a finite set takes one chosen row off and sums the rest.
LEMMA SumStep ==
    ASSUME NEW S, IsFiniteSet(S)
    PROVE  /\ S = {} => SumUSD(S) = 0
           /\ S # {} => \E c \in S : SumUSD(S) = c.usd + SumUSD(S \ {c})
<1>1. PICK g : g = CHOOSE sum : SumFcn(S, sum)
  OBVIOUS
<1>2. SumFcn(S, g)
  BY <1>1, SumFcnExists
<1>3. SumUSD(S) = g[S]
  BY <1>1, SumDef
<1>4. g[S] = SumBody(g, S)
  BY <1>2, SumFcnAt, S \in SUBSET S
<1>5. CASE S = {}
  BY <1>3, <1>4, <1>5 DEF SumBody
<1>6. CASE S # {}
  <2>1. PICK c : c = CHOOSE x \in S : TRUE
    OBVIOUS
  <2>2. c \in S
    BY <1>6, <2>1
  <2>3. PICK h : h = CHOOSE sum : SumFcn(S \ {c}, sum)
    OBVIOUS
  <2>4. IsFiniteSet(S \ {c})
    BY FS_RemoveElement
  <2>5. SumFcn(S \ {c}, h)
    BY <2>3, <2>4, SumFcnExists
  <2>6. SumUSD(S \ {c}) = h[S \ {c}]
    BY <2>3, SumDef
  <2>7. S \ {c} \in SUBSET S /\ S \ {c} \in SUBSET (S \ {c})
    OBVIOUS
  <2>8. g[S \ {c}] = h[S \ {c}]
    BY <1>2, <2>5, <2>7, SumFcnUnique
  <2> QED BY <1>3, <1>4, <1>6, <2>1, <2>2, <2>6, <2>8 DEF SumBody
<1> QED BY <1>5, <1>6

\* A finite set of rows whose dollar column holds natural numbers.
Rows(S) == IsFiniteSet(S) /\ \A x \in S : x.usd \in Nat

\* A sum of natural numbers is one.
LEMMA SumNat ==
    ASSUME NEW S, Rows(S)
    PROVE  SumUSD(S) \in Nat
<1> DEFINE W == {z \in SUBSET S : SumUSD(z) \notin Nat}
<1>1. SUFFICES ASSUME W # {} PROVE FALSE
  BY S \in SUBSET S
<1>2. \A z \in W : IsFiniteSet(z)
  BY FS_Subset DEF Rows
<1>3. PICK z \in W : \A x \in z : z \ {x} \notin W
  <2> HIDE DEF W
  <2> QED BY <1>1, <1>2, LeastSet
<1>4. CASE z = {}
  BY <1>2, <1>4, SumStep
<1>5. CASE z # {}
  <2>1. PICK c \in z : SumUSD(z) = c.usd + SumUSD(z \ {c})
    BY <1>2, <1>5, SumStep
  <2>2. SumUSD(z \ {c}) \in Nat
    BY <1>3
  <2> QED BY <2>1, <2>2 DEF Rows
<1> QED BY <1>4, <1>5

\* Three numbers may be added in any order.
LEMMA AddOrder ==
    ASSUME NEW a \in Nat, NEW b \in Nat, NEW n \in Nat
    PROVE  a + (b + n) = b + (a + n) /\ b + n <= n + b /\ n <= n + b
OBVIOUS

\* Any row may be taken off first: the order of the rows does not matter.
LEMMA SumRemove ==
    ASSUME NEW S, Rows(S), NEW x \in S
    PROVE  SumUSD(S) = x.usd + SumUSD(S \ {x})
<1> DEFINE W == {z \in SUBSET S :
                    \E y \in z : SumUSD(z) # y.usd + SumUSD(z \ {y})}
<1>1. SUFFICES ASSUME W # {} PROVE FALSE
  BY S \in SUBSET S
<1>2. \A z \in W : IsFiniteSet(z)
  BY FS_Subset DEF Rows
<1>3. PICK z \in W : \A y \in z : z \ {y} \notin W
  <2> HIDE DEF W
  <2> QED BY <1>1, <1>2, LeastSet
<1>4. PICK y \in z : SumUSD(z) # y.usd + SumUSD(z \ {y})
  OBVIOUS
<1>5. PICK c \in z : SumUSD(z) = c.usd + SumUSD(z \ {c})
  BY <1>2, <1>4, SumStep
<1>6. y # c
  BY <1>4, <1>5
<1>7. SumUSD(z \ {c}) = y.usd + SumUSD((z \ {c}) \ {y})
  BY <1>3, <1>6
<1>8. SumUSD(z \ {y}) = c.usd + SumUSD((z \ {y}) \ {c})
  BY <1>3, <1>6
<1>9. (z \ {c}) \ {y} = (z \ {y}) \ {c}
  OBVIOUS
<1>10. SumUSD((z \ {y}) \ {c}) \in Nat
  <2>1. Rows((z \ {y}) \ {c})
    BY FS_Subset DEF Rows
  <2> QED BY <2>1, SumNat
<1>11. y.usd \in Nat /\ c.usd \in Nat
  BY DEF Rows
<1>12. PICK n \in Nat : n = SumUSD((z \ {y}) \ {c})
  BY <1>10
<1>13. SumUSD(z) = c.usd + (y.usd + n) /\ SumUSD(z \ {y}) = c.usd + n
  BY <1>5, <1>7, <1>8, <1>9, <1>12
<1>14. c.usd + (y.usd + n) = y.usd + (c.usd + n)
  BY <1>11, AddOrder
<1> QED BY <1>4, <1>13, <1>14

\* Fewer rows never sum to more.
LEMMA SumSubset ==
    ASSUME NEW S, Rows(S), NEW T \in SUBSET S
    PROVE  SumUSD(T) <= SumUSD(S)
<1> DEFINE W == {z \in SUBSET S : T \subseteq z /\ ~(SumUSD(T) <= SumUSD(z))}
<1>1. SUFFICES ASSUME W # {} PROVE FALSE
  BY S \in SUBSET S
<1>2. \A z \in W : IsFiniteSet(z)
  BY FS_Subset DEF Rows
<1>3. PICK z \in W : \A y \in z : z \ {y} \notin W
  <2> HIDE DEF W
  <2> QED BY <1>1, <1>2, LeastSet
<1>4. Rows(T) /\ Rows(z)
  BY FS_Subset DEF Rows
<1>5. SumUSD(T) \in Nat /\ SumUSD(z) \in Nat
  BY <1>4, SumNat
<1>6. PICK y \in z : y \notin T
  BY <1>3, <1>5
<1>7. SumUSD(T) <= SumUSD(z \ {y})
  BY <1>3, <1>6
<1>8. SumUSD(z) = y.usd + SumUSD(z \ {y})
  BY <1>4, SumRemove
<1>9. SumUSD(z \ {y}) \in Nat
  <2>1. Rows(z \ {y})
    BY <1>4, FS_Subset DEF Rows
  <2> QED BY <2>1, SumNat
<1>10. y.usd \in Nat
  BY DEF Rows
<1> QED BY <1>3, <1>5, <1>7, <1>8, <1>9, <1>10

\* One more row adds at most its own amount.
LEMMA SumAdd ==
    ASSUME NEW S, Rows(S), NEW x, x.usd \in Nat
    PROVE  /\ Rows(S \cup {x})
           /\ SumUSD(S \cup {x}) <= SumUSD(S) + x.usd
<1>1. Rows(S \cup {x})
  BY FS_AddElement DEF Rows
<1>2. PICK n \in Nat : n = SumUSD(S)
  BY SumNat
<1>3. PICK b \in Nat : b = x.usd
  OBVIOUS
<1>4. b + n <= n + b /\ n <= n + b
  BY AddOrder
<1>5. CASE x \in S
  <2>1. S \cup {x} = S
    BY <1>5
  <2> QED BY <1>1, <1>2, <1>3, <1>4, <2>1
<1>6. CASE x \notin S
  <2>1. (S \cup {x}) \ {x} = S
    BY <1>6
  <2>2. SumUSD(S \cup {x}) = x.usd + SumUSD((S \cup {x}) \ {x})
    BY <1>1, SumRemove
  <2> QED BY <1>1, <1>2, <1>3, <1>4, <2>1, <2>2
<1> QED BY <1>5, <1>6

-----------------------------------------------------------------------------
(* The strengthening *)

\* A request that has arrived carries one of the inputs.
Carries == \A r \in Requests : stage[r] # "idle" => input[r] \in Inputs

\* The outcome is undecided until the handler unwinds, and decided then.
Undecided ==
    \A r \in Requests :
        /\ stage[r] \in InFlight \ {"releasing"} => outcome[r] = "none"
        /\ stage[r] = "idle" => outcome[r] = "none"
        /\ stage[r] = "releasing" =>
            outcome[r] \in Blocks \cup {"upstream_error", "error"}

TypeInv == TypeOK /\ Carries /\ Undecided

USE DEF ConstantsAssumption, Stages, InFlight, Results, Outcomes, Blocks, ModelDenials

-----------------------------------------------------------------------------
(* Facts about the operators *)

\* The model checks answer with one of the three denials or with "ok".
LEMMA ModelGateValues ==
    ASSUME NEW i
    PROVE  ModelGate(i) \in ModelDenials \cup {"ok"}
BY DEF ModelGate

\* A product of naturals is a natural.
LEMMA NatTimes == ASSUME NEW a \in Nat, NEW b \in Nat PROVE a * b \in Nat
OBVIOUS

\* Prices, token counts and estimates of an input are natural numbers.
LEMMA CostsAreNat ==
    ASSUME NEW i \in Inputs
    PROVE  /\ ServedModel(i) \in Catalog
           /\ EstimateMaxCost(i) \in Nat
           /\ PossibleCosts(i) \subseteq Nat
<1> DEFINE m == ServedModel(i)
<1>1. i \in InputType
  BY ConstantsAssumption
<1>2. m \in Catalog
  BY <1>1, ConstantsAssumption DEF ServedModel, InputType
<1>3. i.bytes \in Nat /\ i.maxTokens \in Nat
  BY <1>1 DEF InputType
<1>4. ClampTokens(i.maxTokens) \in Nat
  BY <1>3, ConstantsAssumption DEF ClampTokens
<1>5. InPrice[m] \in Nat /\ OutPrice[m] \in Nat
  BY <1>2, ConstantsAssumption
<1>6. EstimateMaxCost(i) \in Nat
  <2>1. i.bytes \div 4 \in Nat
    BY <1>3
  <2> HIDE DEF m
  <2>2. (i.bytes \div 4) * InPrice[m] \in Nat
    BY <2>1, <1>5, NatTimes
  <2>3. ClampTokens(i.maxTokens) * OutPrice[m] \in Nat
    BY <1>4, <1>5, NatTimes
  <2>4. (i.bytes \div 4) * InPrice[m]
            + ClampTokens(i.maxTokens) * OutPrice[m] \in Nat
    BY <2>2, <2>3
  <2> QED BY <2>4 DEF EstimateMaxCost, m
<1>7. PossibleCosts(i) \subseteq Nat
  <2> HIDE DEF m
  <2>1. ASSUME NEW t \in 0 .. ReportedTokens, NEW u \in 0 .. ReportedTokens
        PROVE  t * InPrice[m] + u * OutPrice[m] \in Nat
    <3>2. t \in Nat /\ u \in Nat
      BY ConstantsAssumption
    <3>3. t * InPrice[m] \in Nat /\ u * OutPrice[m] \in Nat
      BY <3>2, <1>5, NatTimes
    <3> QED BY <3>3
  <2> QED BY <2>1 DEF PossibleCosts, m
<1> QED BY <1>2, <1>6, <1>7

-----------------------------------------------------------------------------
(* Type correctness *)

\* The router starts in a well-typed state.
LEMMA TypeInit == Init => TypeInv
<1> SUFFICES ASSUME Init PROVE TypeInv
  OBVIOUS
<1>1. capHigh \in [Tenants -> Nat]
  BY ConstantsAssumption DEF Init
<1>2. TypeOK
  BY <1>1 DEF Init, TypeOK
<1>3. Carries /\ Undecided
  BY DEF Init, Carries, Undecided
<1> QED BY <1>2, <1>3 DEF TypeInv

\* Every step of a request, of the admin and of the clock keeps the types.
LEMMA TypeStep == TypeInv /\ [Next]_vars => TypeInv'
<1> SUFFICES ASSUME TypeInv, [Next]_vars PROVE TypeInv'
  OBVIOUS
<1> USE DEF TypeInv, TypeOK, Carries, Undecided, reqVars, rowVars, timeVars,
            ResultRow, Reservation, UsageRow
<1>1. ASSUME NEW r \in Requests, NEW i \in Inputs, Arrive(r, i)
      PROVE  TypeInv'
  BY <1>1, ModelGateValues DEF Arrive, Goto, Return
<1>2. ASSUME NEW r \in Requests, LookupCap(r) PROVE TypeInv'
  BY <1>2, ConstantsAssumption DEF LookupCap, Goto, InputType
<1>3. ASSUME NEW r \in Requests, EarlyError(r) PROVE TypeInv'
  BY <1>3 DEF EarlyError, Goto, Return
<1>4. ASSUME NEW r \in Requests, stage[r] = "capped"
      PROVE  NewReservation(r) \in Reservation
  <2>1. input[r] \in Inputs
    BY <1>4
  <2>2. EstimateMaxCost(input[r]) \in Nat /\ input[r].tenant \in Tenants
    BY <2>1, CostsAreNat, ConstantsAssumption DEF InputType
  <2> QED BY <2>2 DEF NewReservation
<1>5. slowExpiry' \in BOOLEAN \/ ~NoteExpiry
  BY DEF NoteExpiry
<1>6. Expired \subseteq reservations
  BY DEF Expired
<1>7. ASSUME NEW r \in Requests, ReserveBudget(r) PROVE TypeInv'
  <2>1. reservations' \subseteq Reservation
    BY <1>7, <1>4, <1>6 DEF ReserveBudget
  <2>2. slowExpiry' \in BOOLEAN
    BY <1>7, <1>5 DEF ReserveBudget
  <2> QED BY <1>7, <2>1, <2>2 DEF ReserveBudget, Goto
<1>8. ASSUME NEW r \in Requests, DenyBudget(r) PROVE TypeInv'
  <2>1. reservations' \subseteq Reservation
    BY <1>8, <1>6 DEF DenyBudget
  <2>2. slowExpiry' \in BOOLEAN
    BY <1>8, <1>5 DEF DenyBudget
  <2>3. events' \subseteq ResultRow /\ mirror' \subseteq ResultRow
    BY <1>8 DEF DenyBudget, TryEvent, MirrorEvent
  <2> QED BY <1>8, <2>1, <2>2, <2>3 DEF DenyBudget, Goto, Return
<1>9. ASSUME NEW r \in Requests, ReserveAckLost(r) PROVE TypeInv'
  <2>1. reservations' \subseteq Reservation
    BY <1>9, <1>4, <1>6 DEF ReserveAckLost
  <2>2. slowExpiry' \in BOOLEAN
    BY <1>9, <1>5 DEF ReserveAckLost
  <2> QED BY <1>9, <2>1, <2>2 DEF ReserveAckLost, Goto, Return
<1>10. ASSUME NEW r \in Requests, Block(r) PROVE TypeInv'
  <2>1. BlockReason(input[r]) \in Blocks
    BY <1>10 DEF Block, BlockReason
  <2>2. events' \subseteq ResultRow /\ mirror' \subseteq ResultRow
    BY <1>10, <2>1 DEF Block, TryEvent, MirrorEvent
  <2>3. prompts' \subseteq Requests /\ receipts' \subseteq ResultRow
    BY <1>10, <2>1 DEF Block
  <2> QED BY <1>10, <2>1, <2>2, <2>3 DEF Block, Goto, Unwind
<1>11. ASSUME NEW r \in Requests, Invoke(r) PROVE TypeInv'
  <2>1. ServedModel(input[r]) \in Catalog
    BY <1>11, CostsAreNat DEF Invoke
  <2> QED BY <1>11, <2>1 DEF Invoke, Goto
<1>12. ASSUME NEW r \in Requests, ProviderAnswers(r) PROVE TypeInv'
  <2>1. PossibleCosts(input[r]) \subseteq Nat
    BY <1>12, CostsAreNat DEF ProviderAnswers
  <2>2. cost' \in [Requests -> Nat]
    BY <1>12, <2>1 DEF ProviderAnswers
  <2> QED BY <1>12, <2>2 DEF ProviderAnswers, Goto
<1>13. ASSUME NEW r \in Requests, UpstreamError(r) PROVE TypeInv'
  <2>1. events' \subseteq ResultRow /\ mirror' \subseteq ResultRow
    BY <1>13 DEF UpstreamError, TryEvent, MirrorEvent
  <2> QED BY <1>13, <2>1 DEF UpstreamError, Goto, Unwind
<1>14. ASSUME NEW r \in Requests, BeginPersist(r) PROVE TypeInv'
  BY <1>14 DEF BeginPersist, Goto, MirrorEvent
<1>15. ASSUME NEW r \in Requests, stage[r] = "inTx", CommitRows(r)
       PROVE  /\ events' \subseteq ResultRow
              /\ receipts' \subseteq ResultRow
              /\ prompts' \subseteq Requests
              /\ responses' \subseteq Requests
              /\ usage' \subseteq UsageRow
              /\ reservations' \subseteq Reservation
              /\ excess' \in [Tenants -> Nat]
  <2>1. input[r].tenant \in Tenants
    BY <1>15, ConstantsAssumption DEF InputType
  <2>2. EstimateMaxCost(input[r]) \in Nat
    BY <1>15, CostsAreNat
  <2>3. excess' \in [Tenants -> Nat]
    BY <1>15, <2>1, <2>2 DEF CommitRows, NoteExcess
  <2> QED BY <1>15, <2>1, <2>3 DEF CommitRows
<1>16. ASSUME NEW r \in Requests, PersistCommit(r) PROVE TypeInv'
  BY <1>16, <1>15 DEF PersistCommit, Goto, Return
<1>17. ASSUME NEW r \in Requests, PersistAckLost(r) PROVE TypeInv'
  BY <1>17, <1>15 DEF PersistAckLost, Goto, Unwind
<1>18. ASSUME NEW r \in Requests, PersistError(r) PROVE TypeInv'
  BY <1>18 DEF PersistError, Goto, Unwind
<1>19. ASSUME NEW r \in Requests, ReleaseBudget(r) PROVE TypeInv'
  <2>1. reservations' \subseteq Reservation
    BY <1>19 DEF ReleaseBudget
  <2>2. outcome[r] \in Results \cup {"error"}
    BY <1>19 DEF ReleaseBudget
  <2> QED BY <1>19, <2>1, <2>2 DEF ReleaseBudget, Goto, Return
<1>20. ASSUME NEW r \in Requests, Disconnect(r) PROVE TypeInv'
  BY <1>20 DEF Disconnect
<1>21. CASE Crash
  BY <1>21 DEF Crash
<1>22. ASSUME NEW t \in Tenants, NEW c \in BudgetCaps, SetTenantBudget(t, c)
       PROVE  TypeInv'
  BY <1>22, ConstantsAssumption DEF SetTenantBudget
<1>23. CASE Tick
  BY <1>23 DEF Tick
<1>24. CASE NewMonth
  BY <1>24 DEF NewMonth
<1>25. CASE UNCHANGED vars
  BY <1>25 DEF vars
<1> HIDE DEF TypeInv
<1> QED
  BY <1>1, <1>2, <1>3, <1>7, <1>8, <1>9, <1>10, <1>11, <1>12, <1>13, <1>14,
     <1>16, <1>17, <1>18, <1>19, <1>20, <1>21, <1>22, <1>23, <1>24, <1>25
  DEF Next, HandlerStep

\* Every state the pipeline reaches is well typed, whatever fails, for every
\* number of concurrent requests.
THEOREM TypeCorrect == Spec => []TypeOK
<1>1. TypeInv => TypeOK
  BY DEF TypeInv
<1> QED BY <1>1, TypeInit, TypeStep, PTL DEF Spec

-----------------------------------------------------------------------------
(* Spend is counted once *)

\* Usage is recorded only by a request that is about to end, a reservation
\* exists only for one that has been admitted: so the request that records its
\* usage holds the only reservation of that request, and deletes it.
Accounting ==
    /\ \A u \in usage : stage[u.req] \in {"releasing", "done"}
    /\ \A v \in reservations : stage[v.req] \notin {"idle", "gated", "capped"}
    /\ NeverDoubleCounted

\* Every step keeps a request to one claim on the budget.
LEMMA AccountingStep ==
    TypeInv /\ Accounting /\ [Next]_vars => Accounting'
<1> SUFFICES ASSUME TypeInv, Accounting, [Next]_vars PROVE Accounting'
  OBVIOUS
<1> USE DEF Accounting, NeverDoubleCounted, TypeInv, TypeOK, Reservation,
            UsageRow, reqVars, rowVars, timeVars
<1>1. ASSUME NEW r \in Requests, NEW i \in Inputs, Arrive(r, i)
      PROVE  Accounting'
  BY <1>1 DEF Arrive, Goto, Return
<1>2. ASSUME NEW r \in Requests, LookupCap(r) PROVE Accounting'
  BY <1>2 DEF LookupCap, Goto
<1>3. ASSUME NEW r \in Requests, EarlyError(r) PROVE Accounting'
  BY <1>3 DEF EarlyError, Goto, Return
<1>4. ASSUME NEW r \in Requests, ReserveBudget(r) PROVE Accounting'
  BY <1>4 DEF ReserveBudget, Goto, NewReservation, Expired
<1>5. ASSUME NEW r \in Requests, DenyBudget(r) PROVE Accounting'
  BY <1>5 DEF DenyBudget, Goto, Return, TryEvent, Expired
<1>6. ASSUME NEW r \in Requests, ReserveAckLost(r) PROVE Accounting'
  BY <1>6 DEF ReserveAckLost, Goto, Return, NewReservation, Expired
<1>7. ASSUME NEW r \in Requests, Block(r) PROVE Accounting'
  BY <1>7 DEF Block, Goto, Unwind, TryEvent, BlockReason
<1>8. ASSUME NEW r \in Requests, Invoke(r) PROVE Accounting'
  BY <1>8 DEF Invoke, Goto
<1>9. ASSUME NEW r \in Requests, BeginPersist(r) PROVE Accounting'
  BY <1>9 DEF BeginPersist, Goto
<1>10. ASSUME NEW r \in Requests, PersistCommit(r) PROVE Accounting'
  BY <1>10 DEF PersistCommit, Goto, Return, CommitRows
<1>11. ASSUME NEW r \in Requests, PersistAckLost(r) PROVE Accounting'
  BY <1>11 DEF PersistAckLost, Goto, Unwind, CommitRows
<1>12. ASSUME NEW r \in Requests, PersistError(r) PROVE Accounting'
  BY <1>12 DEF PersistError, Goto, Unwind
<1>13. ASSUME NEW r \in Requests, ReleaseBudget(r) PROVE Accounting'
  BY <1>13 DEF ReleaseBudget, Goto, Return
<1>14. ASSUME NEW r \in Requests, ProviderAnswers(r) PROVE Accounting'
  BY <1>14 DEF ProviderAnswers, Goto
<1>15. ASSUME NEW r \in Requests, UpstreamError(r) PROVE Accounting'
  BY <1>15 DEF UpstreamError, Goto, Unwind, TryEvent
<1>16. ASSUME NEW r \in Requests, Disconnect(r) PROVE Accounting'
  BY <1>16 DEF Disconnect
<1>17. CASE Crash
  BY <1>17 DEF Crash
<1>18. ASSUME NEW t \in Tenants, NEW c \in BudgetCaps, SetTenantBudget(t, c)
       PROVE  Accounting'
  BY <1>18 DEF SetTenantBudget
<1>19. CASE Tick
  BY <1>19 DEF Tick
<1>20. CASE NewMonth
  BY <1>20 DEF NewMonth
<1>21. CASE UNCHANGED vars
  BY <1>21 DEF vars
<1> HIDE DEF Accounting
<1> QED
  BY <1>1, <1>2, <1>3, <1>4, <1>5, <1>6, <1>7, <1>8, <1>9, <1>10, <1>11,
     <1>12, <1>13, <1>14, <1>15, <1>16, <1>17, <1>18, <1>19, <1>20, <1>21
  DEF Next, HandlerStep

\* A request's estimate and its actual cost never both count against the cap.
THEOREM CountedOnce == Spec => []NeverDoubleCounted
<1>1. Init => Accounting
  BY DEF Init, Accounting, NeverDoubleCounted
<1>2. Accounting => NeverDoubleCounted
  BY DEF Accounting
<1> QED BY <1>1, <1>2, TypeInit, TypeStep, AccountingStep, PTL DEF Spec

-----------------------------------------------------------------------------
(* Egress is governed *)

\* A running request has passed the model checks; a provider call belongs to a
\* request past admission whose input no check forbids.
Governed ==
    /\ \A r \in Requests : stage[r] \in InFlight => ModelGate(input[r]) = "ok"
    /\ \A c \in invoked :
        /\ stage[c.req] \in {"invoking", "answered", "inTx", "releasing", "done"}
        /\ c.model = ServedModel(input[c.req])
        /\ ModelGate(input[c.req]) = "ok"
        /\ BlockReason(input[c.req]) = "ok"
        /\ input[c.req] \in Inputs

\* Every step sends out only what the checks before it allowed.
LEMMA GovernedStep == TypeInv /\ Governed /\ [Next]_vars => Governed'
<1> SUFFICES ASSUME TypeInv, Governed, [Next]_vars PROVE Governed'
  OBVIOUS
<1> USE DEF Governed, TypeInv, TypeOK, Carries, reqVars, rowVars, timeVars
<1>1. ASSUME NEW r \in Requests, NEW i \in Inputs, Arrive(r, i)
      PROVE  Governed'
  BY <1>1 DEF Arrive, Goto, Return
<1>2. ASSUME NEW r \in Requests, LookupCap(r) PROVE Governed'
  BY <1>2 DEF LookupCap, Goto
<1>3. ASSUME NEW r \in Requests, EarlyError(r) PROVE Governed'
  BY <1>3 DEF EarlyError, Goto, Return
<1>4. ASSUME NEW r \in Requests, ReserveBudget(r) PROVE Governed'
  BY <1>4 DEF ReserveBudget, Goto
<1>5. ASSUME NEW r \in Requests, DenyBudget(r) PROVE Governed'
  BY <1>5 DEF DenyBudget, Goto, Return
<1>6. ASSUME NEW r \in Requests, ReserveAckLost(r) PROVE Governed'
  BY <1>6 DEF ReserveAckLost, Goto, Return
<1>7. ASSUME NEW r \in Requests, Block(r) PROVE Governed'
  BY <1>7 DEF Block, Goto, Unwind
<1>8. ASSUME NEW r \in Requests, Invoke(r) PROVE Governed'
  BY <1>8 DEF Invoke, Goto
<1>9. ASSUME NEW r \in Requests, BeginPersist(r) PROVE Governed'
  BY <1>9 DEF BeginPersist, Goto
<1>10. ASSUME NEW r \in Requests, PersistCommit(r) PROVE Governed'
  BY <1>10 DEF PersistCommit, Goto, Return
<1>11. ASSUME NEW r \in Requests, PersistAckLost(r) PROVE Governed'
  BY <1>11 DEF PersistAckLost, Goto, Unwind
<1>12. ASSUME NEW r \in Requests, PersistError(r) PROVE Governed'
  BY <1>12 DEF PersistError, Goto, Unwind
<1>13. ASSUME NEW r \in Requests, ReleaseBudget(r) PROVE Governed'
  BY <1>13 DEF ReleaseBudget, Goto, Return
<1>14. ASSUME NEW r \in Requests, ProviderAnswers(r) PROVE Governed'
  BY <1>14 DEF ProviderAnswers, Goto
<1>15. ASSUME NEW r \in Requests, UpstreamError(r) PROVE Governed'
  BY <1>15 DEF UpstreamError, Goto, Unwind
<1>16. ASSUME NEW r \in Requests, Disconnect(r) PROVE Governed'
  BY <1>16 DEF Disconnect
<1>17. CASE Crash
  BY <1>17 DEF Crash
<1>18. ASSUME NEW t \in Tenants, NEW c \in BudgetCaps, SetTenantBudget(t, c)
       PROVE  Governed'
  BY <1>18 DEF SetTenantBudget
<1>19. CASE Tick
  BY <1>19 DEF Tick
<1>20. CASE NewMonth
  BY <1>20 DEF NewMonth
<1>21. CASE UNCHANGED vars
  BY <1>21 DEF vars
<1> HIDE DEF Governed
<1> QED
  BY <1>1, <1>2, <1>3, <1>4, <1>5, <1>6, <1>7, <1>8, <1>9, <1>10, <1>11,
     <1>12, <1>13, <1>14, <1>15, <1>16, <1>17, <1>18, <1>19, <1>20, <1>21
  DEF Next, HandlerStep

\* Nothing reaches the provider that the model policy, the channel policy or
\* the DLP scan forbids.
THEOREM Egress == Spec => []EgressGoverned
<1>1. Init => Governed
  BY DEF Init, Governed
<1>2. TypeInv /\ Governed => EgressGoverned
  <2> SUFFICES ASSUME TypeInv, Governed, NEW c \in invoked
               PROVE  /\ c.model \in EnabledModels
                      /\ c.model \in PremiumModels => AllowPremium
                      /\ ~input[c.req].restricted
                      /\ input[c.req].content = "clean"
    BY DEF EgressGoverned
  <2> DEFINE i == input[c.req]
  <2>1. i \in InputType /\ c.model = ServedModel(i)
        /\ ModelGate(i) = "ok" /\ BlockReason(i) = "ok"
    BY ConstantsAssumption DEF Governed
  <2>2. c.model \in EnabledModels /\ (c.model \in PremiumModels => AllowPremium)
    BY <2>1 DEF ModelGate
  <2>3. ~i.restricted /\ i.content # "findings"
    BY <2>1 DEF BlockReason
  <2>4. i.content = "clean"
    BY <2>1, <2>3 DEF InputType
  <2> QED BY <2>2, <2>3, <2>4
<1> QED BY <1>1, <1>2, TypeInit, TypeStep, GovernedStep, PTL DEF Spec

-----------------------------------------------------------------------------
(* The evidence is truthful *)

\* Receipts belong to requests that are ending, a request at or past the
\* provider has a call on record, and "success" is decided by the step that
\* commits the rows.
Evidence ==
    /\ \A r \in Requests : stage[r] \in {"invoking", "answered", "inTx"} =>
        \E c \in invoked : c.req = r
    /\ \A x \in receipts : stage[x.req] \in {"releasing", "done"}
    /\ \A r \in Requests : outcome[r] = "success" => stage[r] = "done"
    /\ ReceiptsTruthful
    /\ SuccessIsAccounted

\* Every step keeps receipts, commits and answers in agreement.
LEMMA EvidenceStep ==
    TypeInv /\ Accounting /\ Governed /\ Evidence /\ [Next]_vars => Evidence'
<1> SUFFICES ASSUME TypeInv, Accounting, Governed, Evidence, [Next]_vars
             PROVE  Evidence'
  OBVIOUS
<1> USE DEF Evidence, ReceiptsTruthful, SuccessIsAccounted, TypeInv, TypeOK,
            Undecided, Governed, ResultRow, Reservation, reqVars, rowVars,
            timeVars
<1>1. ASSUME NEW r \in Requests, NEW i \in Inputs, Arrive(r, i)
      PROVE  Evidence'
  BY <1>1, ModelGateValues DEF Arrive, Goto, Return
<1>2. ASSUME NEW r \in Requests, LookupCap(r) PROVE Evidence'
  BY <1>2 DEF LookupCap, Goto
<1>3. ASSUME NEW r \in Requests, EarlyError(r) PROVE Evidence'
  BY <1>3 DEF EarlyError, Goto, Return
<1>4. ASSUME NEW r \in Requests, ReserveBudget(r) PROVE Evidence'
  BY <1>4 DEF ReserveBudget, Goto, NewReservation, Expired
<1>5. ASSUME NEW r \in Requests, DenyBudget(r) PROVE Evidence'
  BY <1>5 DEF DenyBudget, Goto, Return, TryEvent, Expired
<1>6. ASSUME NEW r \in Requests, ReserveAckLost(r) PROVE Evidence'
  BY <1>6 DEF ReserveAckLost, Goto, Return, NewReservation, Expired
<1>7. ASSUME NEW r \in Requests, Block(r) PROVE Evidence'
  BY <1>7 DEF Block, Goto, Unwind, TryEvent, BlockReason
<1>8. ASSUME NEW r \in Requests, Invoke(r) PROVE Evidence'
  <2> DEFINE call == [req |-> r, model |-> ServedModel(input[r])]
  <2>0. invoked' = invoked \cup {call} /\ call.req = r
    BY <1>8 DEF Invoke
  <2> HIDE DEF call
  <2>1. /\ invoked \subseteq invoked'
        /\ \E c \in invoked' : c.req = r
        /\ \A c \in invoked' : c \in invoked \/ c.req = r
    BY <2>0
  <2>2. stage' = [stage EXCEPT ![r] = "invoking"] /\ stage[r] = "reserved"
    BY <1>8 DEF Invoke, Goto
  <2>3. UNCHANGED <<rowVars, reservations, outcome>>
    BY <1>8 DEF Invoke
  <2>4. \A q \in Requests : stage'[q] \in {"invoking", "answered", "inTx"} =>
            \E c \in invoked' : c.req = q
    BY <2>1, <2>2
  <2>5. \A x \in receipts' : stage'[x.req] \in {"releasing", "done"}
    BY <2>2, <2>3
  <2>6. \A x \in receipts : x.req # r
    BY <2>2
  <2>7. ReceiptsTruthful'
    BY <2>1, <2>3, <2>6
  <2>8. /\ SuccessIsAccounted'
        /\ \A q \in Requests : outcome'[q] = "success" => stage'[q] = "done"
    BY <2>2, <2>3
  <2> QED BY <2>4, <2>5, <2>7, <2>8
<1>9. ASSUME NEW r \in Requests, BeginPersist(r) PROVE Evidence'
  BY <1>9 DEF BeginPersist, Goto
<1>10. ASSUME NEW r \in Requests, stage[r] = "inTx", CommitRows(r),
               UNCHANGED invoked
       PROVE  /\ ReceiptsTruthful'
              /\ \E u \in usage' : u.req = r
              /\ [req |-> r, result |-> "success"] \in events' \cap receipts'
              /\ \A v \in reservations' : v.req # r
              /\ \A x \in receipts' : x \in receipts \/ x.req = r
  <2> DEFINE row == [req |-> r, result |-> "success"]
             use == [req |-> r, tenant |-> input[r].tenant, usd |-> cost[r],
                     month |-> month]
  <2>1. /\ events' = events \cup {row} /\ receipts' = receipts \cup {row}
        /\ prompts' = prompts \cup {r} /\ responses' = responses \cup {r}
        /\ usage' = usage \cup {use}
        /\ reservations' = {v \in reservations : v.req # r}
    BY <1>10 DEF CommitRows
  <2>2. row.req = r /\ row.result = "success" /\ use.req = r
    OBVIOUS
  <2> HIDE DEF row, use
  <2>3. \E c \in invoked' : c.req = row.req
    BY <1>10, <2>2
  <2>4. \E u \in usage' : u.req = row.req
    BY <2>1, <2>2
  <2>5. ReceiptsTruthful'
    BY <1>10, <2>1, <2>2, <2>3, <2>4
  <2> QED BY <2>1, <2>2, <2>4, <2>5 DEF row
<1>11. ASSUME NEW r \in Requests, PersistCommit(r) PROVE Evidence'
  <2>1. stage' = [stage EXCEPT ![r] = "done"] /\ stage[r] = "inTx"
        /\ outcome' = [outcome EXCEPT ![r] = "success"]
    BY <1>11 DEF PersistCommit, Goto, Return
  <2>2. UNCHANGED invoked /\ CommitRows(r)
    BY <1>11 DEF PersistCommit
  <2>3. SuccessIsAccounted'
    <3> SUFFICES ASSUME NEW q \in Requests, outcome'[q] = "success"
                 PROVE  /\ \E u \in usage' : u.req = q
                        /\ [req |-> q, result |-> "success"]
                              \in events' \cap receipts'
                        /\ \A v \in reservations' : v.req # q
      OBVIOUS
    <3>1. CASE q = r
      BY <3>1, <2>1, <2>2, <1>10
    <3>2. CASE q # r
      <4>1. outcome[q] = "success"
        BY <3>2, <2>1
      <4> QED BY <4>1, <2>2 DEF CommitRows
    <3> QED BY <3>1, <3>2
  <2>4. ReceiptsTruthful' /\ \A x \in receipts' : x \in receipts \/ x.req = r
    BY <2>1, <2>2, <1>10
  <2>5. \A x \in receipts' : stage'[x.req] \in {"releasing", "done"}
    BY <2>1, <2>4
  <2>6. \A q \in Requests : stage'[q] \in {"invoking", "answered", "inTx"} =>
            \E c \in invoked' : c.req = q
    BY <2>1, <2>2
  <2>7. \A q \in Requests : outcome'[q] = "success" => stage'[q] = "done"
    BY <2>1
  <2> QED BY <2>3, <2>4, <2>5, <2>6, <2>7
<1>22. ASSUME NEW r \in Requests, PersistAckLost(r) PROVE Evidence'
  <2>1. stage' = [stage EXCEPT ![r] = "releasing"] /\ stage[r] = "inTx"
        /\ outcome' = [outcome EXCEPT ![r] = "error"]
    BY <1>22 DEF PersistAckLost, Goto, Unwind
  <2>2. UNCHANGED invoked /\ CommitRows(r)
    BY <1>22 DEF PersistAckLost
  <2>3. SuccessIsAccounted'
    BY <2>1, <2>2 DEF CommitRows
  <2>4. ReceiptsTruthful' /\ \A x \in receipts' : x \in receipts \/ x.req = r
    BY <2>1, <2>2, <1>10
  <2>5. \A x \in receipts' : stage'[x.req] \in {"releasing", "done"}
    BY <2>1, <2>4
  <2>6. \A q \in Requests : stage'[q] \in {"invoking", "answered", "inTx"} =>
            \E c \in invoked' : c.req = q
    BY <2>1, <2>2
  <2>7. \A q \in Requests : outcome'[q] = "success" => stage'[q] = "done"
    BY <2>1
  <2> QED BY <2>3, <2>4, <2>5, <2>6, <2>7
<1>12. ASSUME NEW r \in Requests, PersistError(r) PROVE Evidence'
  BY <1>12 DEF PersistError, Goto, Unwind
<1>13. ASSUME NEW r \in Requests, ReleaseBudget(r) PROVE Evidence'
  BY <1>13 DEF ReleaseBudget, Goto, Return
<1>14. ASSUME NEW r \in Requests, ProviderAnswers(r) PROVE Evidence'
  BY <1>14 DEF ProviderAnswers, Goto
<1>15. ASSUME NEW r \in Requests, UpstreamError(r) PROVE Evidence'
  BY <1>15 DEF UpstreamError, Goto, Unwind, TryEvent
<1>16. ASSUME NEW r \in Requests, Disconnect(r) PROVE Evidence'
  BY <1>16 DEF Disconnect
<1>17. CASE Crash
  BY <1>17 DEF Crash
<1>18. ASSUME NEW t \in Tenants, NEW c \in BudgetCaps, SetTenantBudget(t, c)
       PROVE  Evidence'
  BY <1>18 DEF SetTenantBudget
<1>19. CASE Tick
  BY <1>19 DEF Tick
<1>20. CASE NewMonth
  BY <1>20 DEF NewMonth
<1>21. CASE UNCHANGED vars
  BY <1>21 DEF vars
<1> HIDE DEF Evidence
<1> QED
  BY <1>1, <1>2, <1>3, <1>4, <1>5, <1>6, <1>7, <1>8, <1>9, <1>10, <1>11,
     <1>22, <1>12, <1>13, <1>14, <1>15, <1>16, <1>17, <1>18, <1>19, <1>20, <1>21
  DEF Next, HandlerStep

\* A signed receipt says what happened to its request.
THEOREM Receipts == Spec => []ReceiptsTruthful
<1>1. Init => Accounting /\ Governed /\ Evidence
  BY DEF Init, Accounting, NeverDoubleCounted, Governed, Evidence,
         ReceiptsTruthful, SuccessIsAccounted
<1>2. Evidence => ReceiptsTruthful
  BY DEF Evidence
<1> QED BY <1>1, <1>2, TypeInit, TypeStep, AccountingStep, GovernedStep,
           EvidenceStep, PTL DEF Spec

\* A caller is told "success" only once its spend and evidence are committed.
THEOREM Success == Spec => []SuccessIsAccounted
<1>1. Init => Accounting /\ Governed /\ Evidence
  BY DEF Init, Accounting, NeverDoubleCounted, Governed, Evidence,
         ReceiptsTruthful, SuccessIsAccounted
<1>2. Evidence => SuccessIsAccounted
  BY DEF Evidence
<1> QED BY <1>1, <1>2, TypeInit, TypeStep, AccountingStep, GovernedStep,
           EvidenceStep, PTL DEF Spec

-----------------------------------------------------------------------------
(* Spend stays within the cap *)

\* A finite non-empty set of natural numbers has a greatest element.
LEMMA GreatestNat ==
    ASSUME NEW S \in SUBSET Nat, IsFiniteSet(S), S # {}
    PROVE  Max(S) \in S /\ \A y \in S : y <= Max(S)
<1> DEFINE W == {z \in SUBSET S : z # {} /\ ~\E m \in z : \A y \in z : y <= m}
<1>1. W = {}
  <2>1. SUFFICES ASSUME W # {} PROVE FALSE
    OBVIOUS
  <2>2. \A z \in W : IsFiniteSet(z)
    BY FS_Subset
  <2>3. PICK z \in W : \A x \in z : z \ {x} \notin W
    <3> HIDE DEF W
    <3> QED BY <2>1, <2>2, LeastSet
  <2>4. PICK x \in z : TRUE
    OBVIOUS
  <2>5. CASE z \ {x} = {}
    BY <2>5
  <2>6. CASE z \ {x} # {}
    <3>1. PICK m \in z \ {x} : \A y \in z \ {x} : y <= m
      BY <2>3, <2>6
    <3>2. x \in Nat /\ m \in Nat /\ \A y \in z : y \in Nat
      OBVIOUS
    <3>3. CASE x <= m
      BY <3>1, <3>3
    <3>4. CASE ~(x <= m)
      <4>1. \A y \in z : y <= x
        BY <3>1, <3>2, <3>4
      <4> QED BY <4>1
    <3> QED BY <3>3, <3>4
  <2> QED BY <2>5, <2>6
<1>2. \E m \in S : \A y \in S : y <= m
  BY <1>1, S \in SUBSET S
<1>3. \E m \in S : \A y \in S : m >= y
  BY <1>2
<1>4. Max(S) \in S /\ \A y \in S : Max(S) >= y
  BY <1>3 DEF Max
<1> QED BY <1>4

\* The estimates of the inputs have a greatest one, and it is positive.
LEMMA EstimateBound ==
    /\ LargestEstimate \in Nat \ {0}
    /\ \A i \in Inputs : EstimateMaxCost(i) <= LargestEstimate
<1> DEFINE T == {EstimateMaxCost(i) : i \in Inputs}
<1>1. PICK f : f = [i \in Inputs |-> EstimateMaxCost(i)]
  OBVIOUS
<1>2. f \in Surjection(Inputs, T)
  BY <1>1 DEF Surjection
<1>3. IsFiniteSet(T)
  <2> HIDE DEF T
  <2> QED BY <1>2, FS_Surjection, ConstantsAssumption
<1>4. IsFiniteSet(T \cup {1}) /\ T \cup {1} # {}
  BY <1>3, FS_AddElement
<1>5. T \cup {1} \in SUBSET Nat
  BY CostsAreNat
<1>6. PICK S : S = T \cup {1}
  OBVIOUS
<1>7. Max(S) \in S /\ \A y \in S : y <= Max(S)
  <2> HIDE DEF T
  <2> QED BY <1>4, <1>5, <1>6, GreatestNat
<1>8. LargestEstimate = Max(S)
  BY <1>6 DEF LargestEstimate
<1>9. 1 <= Max(S) /\ Max(S) \in Nat
  BY <1>5, <1>6, <1>7
<1>10. \A i \in Inputs : EstimateMaxCost(i) <= Max(S)
  BY <1>6, <1>7
<1> QED BY <1>8, <1>9, <1>10

\* The strengthening: the tables are finite; no usage row is from a later month;
\* a request ready to reserve has read a cap its tenant has had; a request is
\* charged once, when it is past its commit; the charges beyond their estimates
\* are part of the month's usage; and, until a running request has lost its
\* reservation, every request past admission still holds one of exactly its
\* estimate.
Held(r) ==
    \E v \in reservations : /\ v.req = r
                            /\ v.tenant = input[r].tenant
                            /\ v.usd = EstimateMaxCost(input[r])
Tables == IsFiniteSet(usage) /\ IsFiniteSet(reservations)
Months == \A u \in usage : u.month <= month
Caps ==
    /\ \A t \in Tenants : tenantCap[t] <= capHigh[t]
    /\ \A r \in Requests :
        stage[r] = "capped" => capUSD[r] <= capHigh[input[r].tenant]
Charged == \A u \in usage : stage[u.req] \in {"releasing", "done"}
Excesses == \A t \in Tenants : excess[t] <= Committed(t)
Holding ==
    \A r \in Requests :
        stage[r] \in {"reserved", "invoking", "answered", "inTx"} => Held(r)
CapInv ==
    /\ Tables
    /\ Months
    /\ Caps
    /\ Charged
    /\ Excesses
    /\ slowExpiry \/ (Holding /\ SpendWithinCap)

\* What a tenant has spent and reserved are sums of naturals over finite sets.
LEMMA SumsAreNat ==
    ASSUME TypeInv, Tables, NEW t
    PROVE  /\ \A T \in SUBSET usage : Rows(T) /\ SumUSD(T) \in Nat
           /\ \A T \in SUBSET reservations : Rows(T) /\ SumUSD(T) \in Nat
           /\ Committed(t) \in Nat
           /\ Reserved(t) \in Nat
<1>1. \A T \in SUBSET usage : Rows(T)
  BY FS_Subset DEF Tables, Rows, TypeInv, TypeOK, UsageRow
<1>2. \A T \in SUBSET reservations : Rows(T)
  BY FS_Subset DEF Tables, Rows, TypeInv, TypeOK, Reservation
<1>3. /\ \A T \in SUBSET usage : SumUSD(T) \in Nat
      /\ \A T \in SUBSET reservations : SumUSD(T) \in Nat
  BY <1>1, <1>2, SumNat
<1> QED BY <1>1, <1>2, <1>3 DEF Committed, Reserved

\* Rows that go, and caps that rise, leave the spend within the cap.
LEMMA SpendShrinks ==
    ASSUME TypeInv, TypeInv', Tables, SpendWithinCap,
           reservations' \subseteq reservations, UNCHANGED <<usage, month, excess>>,
           \A t \in Tenants : capHigh[t] <= capHigh'[t]
    PROVE  SpendWithinCap'
<1> SUFFICES ASSUME NEW t \in Tenants
             PROVE  Committed(t)' + Reserved(t)' < capHigh'[t] + LargestEstimate + excess'[t]
  BY DEF SpendWithinCap
<1>1. Committed(t)' = Committed(t)
  BY DEF Committed
<1> DEFINE A == {v \in reservations : v.tenant = t}
           B == {v \in reservations' : v.tenant = t}
<1>2. A \in SUBSET reservations /\ B \in SUBSET A /\ B \in SUBSET reservations
  OBVIOUS
<1>3. Rows(A) /\ SumUSD(A) \in Nat /\ SumUSD(B) \in Nat /\ Committed(t) \in Nat
  BY <1>2, SumsAreNat
<1>4. SumUSD(B) <= SumUSD(A)
  BY <1>2, <1>3, SumSubset
<1>5. Reserved(t) = SumUSD(A) /\ Reserved(t)' = SumUSD(B)
  BY DEF Reserved
<1>6. Committed(t) + Reserved(t) < capHigh[t] + LargestEstimate + excess[t]
  BY DEF SpendWithinCap
<1>7. /\ capHigh[t] \in Nat /\ capHigh'[t] \in Nat /\ capHigh[t] <= capHigh'[t]
      /\ excess[t] \in Nat /\ excess'[t] = excess[t]
  BY DEF TypeInv, TypeOK
<1> QED BY <1>1, <1>3, <1>4, <1>5, <1>6, <1>7, EstimateBound

\* An admitted reservation takes the spend past the cap by less than itself.
LEMMA SpendReserves ==
    ASSUME TypeInv, TypeInv', Tables, Caps, SpendWithinCap, NEW r \in Requests,
           stage[r] = "capped", UnderCap(r),
           reservations' = (reservations \ Expired) \cup {NewReservation(r)},
           UNCHANGED <<usage, month, capHigh, excess>>
    PROVE  SpendWithinCap'
<1> SUFFICES ASSUME NEW t \in Tenants
             PROVE  Committed(t)' + Reserved(t)' < capHigh'[t] + LargestEstimate + excess'[t]
  BY DEF SpendWithinCap
<1>1. Committed(t)' = Committed(t) /\ capHigh'[t] = capHigh[t] /\ excess'[t] = excess[t]
  BY DEF Committed
<1>2. input[r] \in Inputs
  BY DEF TypeInv, Carries
<1>3. PICK x : x = NewReservation(r)
  OBVIOUS
<1>4. /\ x.tenant = input[r].tenant /\ x.usd = EstimateMaxCost(input[r])
      /\ x.usd \in Nat /\ x.usd <= LargestEstimate
  BY <1>2, <1>3, CostsAreNat, EstimateBound DEF NewReservation
<1> DEFINE A == {v \in reservations : v.tenant = t}
           B == {v \in reservations \ Expired : v.tenant = t}
           D == {v \in reservations' : v.tenant = t}
<1>5. /\ A \in SUBSET reservations /\ B \in SUBSET A
      /\ B \in SUBSET reservations
  OBVIOUS
<1>6. Rows(A) /\ Rows(B) /\ SumUSD(A) \in Nat /\ SumUSD(B) \in Nat
      /\ Committed(t) \in Nat
  BY <1>5, SumsAreNat
<1>7. Reserved(t) = SumUSD(A) /\ Reserved(t)' = SumUSD(D)
  BY DEF Reserved
<1>8. capHigh[t] \in Nat /\ excess[t] \in Nat
  BY DEF TypeInv, TypeOK
<1>9. CASE t = input[r].tenant
  <2>1. D = B \cup {x}
    BY <1>3, <1>4, <1>9
  <2>2. SumUSD(D) <= SumUSD(B) + x.usd /\ Rows(D)
    BY <2>1, <1>4, <1>6, SumAdd
  <2>3. SumUSD(D) \in Nat
    BY <2>2, SumNat
  <2>4. Committed(t) + SumUSD(B) < capUSD[r]
    BY <1>9 DEF UnderCap
  <2>5. capUSD[r] \in Nat /\ capUSD[r] <= capHigh[t]
    BY <1>9 DEF Caps, TypeInv, TypeOK
  <2> HIDE DEF A, B, D
  <2> QED BY <1>1, <1>4, <1>6, <1>7, <1>8, <2>2, <2>3, <2>4, <2>5, EstimateBound
<1>10. CASE t # input[r].tenant
  <2>1. D = B
    BY <1>3, <1>4, <1>10
  <2>2. SumUSD(B) <= SumUSD(A)
    BY <1>5, <1>6, SumSubset
  <2>3. Committed(t) + SumUSD(A) < capHigh[t] + LargestEstimate + excess[t]
    BY <1>7 DEF SpendWithinCap
  <2> HIDE DEF A, B, D
  <2> QED BY <1>1, <1>6, <1>7, <1>8, <2>1, <2>2, <2>3, EstimateBound
<1> QED BY <1>9, <1>10

\* A commit charges its request the cost of the answer and notes what exceeds
\* the estimate.
LEMMA CommitCharges ==
    ASSUME TypeInv, TypeInv', Tables, Charged, NEW r \in Requests, stage[r] = "inTx",
           CommitRows(r), UNCHANGED month, NEW t \in Tenants
    PROVE  /\ excess[t] \in Nat /\ excess'[t] \in Nat
           /\ Committed(t) \in Nat /\ Committed(t)' \in Nat
           /\ t # input[r].tenant => Committed(t)' = Committed(t) /\ excess'[t] = excess[t]
           /\ t = input[r].tenant =>
                \E d \in Nat, o \in Nat, e \in Nat :
                    /\ e = EstimateMaxCost(input[r])
                    /\ d <= e + o /\ o <= d
                    /\ Committed(t)' = Committed(t) + d /\ excess'[t] = excess[t] + o
<1>1. excess[t] \in Nat /\ excess'[t] \in Nat /\ input[r] \in Inputs
  BY DEF TypeInv, TypeOK, Carries
<1>2. PICK x : x = [req |-> r, tenant |-> input[r].tenant, usd |-> cost[r], month |-> month]
  OBVIOUS
<1>3. PICK e \in Nat, d \in Nat : e = EstimateMaxCost(input[r]) /\ d = cost[r]
  BY <1>1, CostsAreNat DEF TypeInv, TypeOK
<1>4. x.tenant = input[r].tenant /\ x.month = month /\ x.usd = d /\ x.req = r
  BY <1>2, <1>3
<1>5. usage' = usage \cup {x} /\ x \notin usage
  BY <1>2, <1>4 DEF CommitRows, Charged
<1> DEFINE U == {u \in usage : u.tenant = t /\ u.month = month}
           V == {u \in usage' : u.tenant = t /\ u.month = month'}
<1>6. U \in SUBSET usage /\ Rows(U) /\ SumUSD(U) \in Nat
  <2>1. U \in SUBSET usage
    OBVIOUS
  <2> QED BY <2>1, SumsAreNat
<1>7. Committed(t) = SumUSD(U) /\ Committed(t)' = SumUSD(V)
  BY DEF Committed
<1>8. CASE t # input[r].tenant
  <2>1. V = U
    BY <1>4, <1>5, <1>8
  <2>2. excess'[t] = excess[t]
    BY <1>8 DEF CommitRows, NoteExcess, TypeInv, TypeOK
  <2> HIDE DEF U, V
  <2> QED BY <1>1, <1>6, <1>7, <1>8, <2>1, <2>2
<1>9. CASE t = input[r].tenant
  <2>1. V = U \cup {x} /\ x \notin U
    BY <1>4, <1>5, <1>9
  <2>2. Rows(V)
    <3> HIDE DEF U, V
    <3> QED BY <1>4, <1>6, <2>1, SumAdd
  <2>3. SumUSD(V) = x.usd + SumUSD(V \ {x})
    <3>1. x \in V
      BY <2>1
    <3> HIDE DEF V
    <3> QED BY <2>2, <3>1, SumRemove
  <2>4. V \ {x} = U
    BY <2>1
  <2>5. SumUSD(V) = SumUSD(U) + d
    <3>1. PICK n \in Nat : n = SumUSD(U)
      BY <1>6
    <3>2. SumUSD(V) = x.usd + SumUSD(U)
      <4> HIDE DEF U, V
      <4> QED BY <2>3, <2>4
    <3>3. SumUSD(V) = d + n
      BY <1>4, <3>1, <3>2
    <3> HIDE DEF U, V
    <3> QED BY <3>1, <3>3
  <2> DEFINE o == IF d - e > 0 THEN d - e ELSE 0
  <2>6. o \in Nat /\ d <= e + o /\ o <= d
    OBVIOUS
  <2>7. excess'[t] = excess[t] + o
    BY <1>1, <1>3, <1>9 DEF CommitRows, NoteExcess, TypeInv, TypeOK
  <2> HIDE DEF U, V, o
  <2> QED BY <1>1, <1>3, <1>6, <1>7, <1>9, <2>5, <2>6, <2>7
<1> QED BY <1>8, <1>9

\* A commit replaces the estimate of its request by the cost of the answer,
\* which is larger by no more than the excess noted.
LEMMA SpendCommits ==
    ASSUME TypeInv, TypeInv', Tables, Charged, Holding, SpendWithinCap,
           NEW r \in Requests, stage[r] = "inTx", CommitRows(r),
           UNCHANGED <<month, capHigh>>
    PROVE  SpendWithinCap'
<1> SUFFICES ASSUME NEW t \in Tenants
             PROVE  Committed(t)' + Reserved(t)' < capHigh'[t] + LargestEstimate + excess'[t]
  BY DEF SpendWithinCap
<1>1. capHigh'[t] = capHigh[t] /\ capHigh[t] \in Nat
  BY DEF TypeInv, TypeOK
<1>2. reservations' = {v \in reservations : v.req # r}
  BY DEF CommitRows
<1>3. PICK w \in reservations : w.req = r /\ w.tenant = input[r].tenant
                                /\ w.usd = EstimateMaxCost(input[r])
  BY DEF Holding, Held
<1>4. /\ excess[t] \in Nat /\ excess'[t] \in Nat
      /\ Committed(t) \in Nat /\ Committed(t)' \in Nat
      /\ t # input[r].tenant => Committed(t)' = Committed(t) /\ excess'[t] = excess[t]
      /\ t = input[r].tenant =>
            \E d \in Nat, o \in Nat, e \in Nat :
                /\ e = EstimateMaxCost(input[r])
                /\ d <= e + o /\ o <= d
                /\ Committed(t)' = Committed(t) + d /\ excess'[t] = excess[t] + o
  BY CommitCharges
<1> DEFINE A == {v \in reservations : v.tenant = t}
           B == {v \in reservations' : v.tenant = t}
<1>5. /\ A \in SUBSET reservations /\ B \in SUBSET A
      /\ B \in SUBSET reservations /\ A \ {w} \in SUBSET reservations
  BY <1>2
<1>6. /\ Rows(A) /\ Rows(A \ {w})
      /\ SumUSD(A) \in Nat /\ SumUSD(B) \in Nat /\ SumUSD(A \ {w}) \in Nat
  BY <1>5, SumsAreNat
<1>7. Reserved(t) = SumUSD(A) /\ Reserved(t)' = SumUSD(B)
  BY DEF Reserved
<1>8. Committed(t) + SumUSD(A) < capHigh[t] + LargestEstimate + excess[t]
  BY <1>7 DEF SpendWithinCap
<1>9. CASE t = input[r].tenant
  <2>1. PICK d \in Nat, o \in Nat, e \in Nat :
            /\ e = EstimateMaxCost(input[r])
            /\ d <= e + o /\ o <= d
            /\ Committed(t)' = Committed(t) + d /\ excess'[t] = excess[t] + o
    BY <1>4, <1>9
  <2>2. w \in A /\ B \in SUBSET (A \ {w})
    BY <1>2, <1>3, <1>9
  <2>3. SumUSD(A) = w.usd + SumUSD(A \ {w})
    BY <1>6, <2>2, SumRemove
  <2>4. SumUSD(B) <= SumUSD(A \ {w})
    BY <1>6, <2>2, SumSubset
  <2>5. PICK a \in Nat, b \in Nat, k \in Nat, c \in Nat :
            a = SumUSD(A) /\ b = SumUSD(B) /\ k = SumUSD(A \ {w}) /\ c = Committed(t)
    BY <1>4, <1>6
  <2>6. a = e + k /\ b <= k
    BY <1>3, <2>1, <2>3, <2>4, <2>5
  <2>7. (c + d) + b <= (c + a) + o
    BY <2>1, <2>6
  <2> HIDE DEF A, B
  <2> QED BY <1>1, <1>4, <1>7, <1>8, <2>1, <2>5, <2>7, EstimateBound
<1>10. CASE t # input[r].tenant
  <2>1. SumUSD(B) <= SumUSD(A)
    BY <1>5, <1>6, SumSubset
  <2> HIDE DEF A, B
  <2> QED BY <1>1, <1>4, <1>6, <1>7, <1>8, <1>10, <2>1, EstimateBound
<1> QED BY <1>9, <1>10

\* The excess of a month is part of what it charged.
LEMMA ExcessCommits ==
    ASSUME TypeInv, TypeInv', Tables, Charged, Excesses,
           NEW r \in Requests, stage[r] = "inTx", CommitRows(r), UNCHANGED month
    PROVE  Excesses'
<1> SUFFICES ASSUME NEW t \in Tenants PROVE excess'[t] <= Committed(t)'
  BY DEF Excesses
<1>1. excess[t] <= Committed(t)
  BY DEF Excesses
<1>2. /\ excess[t] \in Nat /\ Committed(t) \in Nat
      /\ t # input[r].tenant => Committed(t)' = Committed(t) /\ excess'[t] = excess[t]
      /\ t = input[r].tenant =>
            \E d \in Nat, o \in Nat, e \in Nat :
                /\ e = EstimateMaxCost(input[r])
                /\ d <= e + o /\ o <= d
                /\ Committed(t)' = Committed(t) + d /\ excess'[t] = excess[t] + o
  BY CommitCharges
<1>3. CASE t = input[r].tenant
  <2>1. PICK d \in Nat, o \in Nat :
            o <= d /\ Committed(t)' = Committed(t) + d /\ excess'[t] = excess[t] + o
    BY <1>2, <1>3
  <2> QED BY <1>1, <1>2, <2>1
<1> QED BY <1>1, <1>2, <1>3

\* A new month starts with nothing recorded and no excess.
LEMMA SpendNewMonth ==
    ASSUME TypeInv, Tables, Months, Excesses, NewMonth
    PROVE  Excesses' /\ (SpendWithinCap => SpendWithinCap')
<1>1. /\ reservations' = reservations /\ usage' = usage /\ capHigh' = capHigh
      /\ month' = month + 1 /\ month \in Nat
      /\ \A t \in Tenants : excess'[t] = 0
  BY DEF NewMonth, TypeInv, TypeOK
<1>2. ASSUME NEW t \in Tenants PROVE Committed(t)' = 0
  <2>1. {u \in usage' : u.tenant = t /\ u.month = month'} = {}
    BY <1>1 DEF Months, TypeInv, TypeOK, UsageRow
  <2>2. Committed(t)' = SumUSD({})
    BY <2>1 DEF Committed
  <2>3. SumUSD({}) = 0
    BY SumStep, FS_EmptySet
  <2> QED BY <2>2, <2>3
<1>3. Excesses'
  BY <1>1, <1>2 DEF Excesses
<1>4. ASSUME SpendWithinCap, NEW t \in Tenants
      PROVE  Committed(t)' + Reserved(t)' < capHigh'[t] + LargestEstimate + excess'[t]
  <2>1. Reserved(t)' = Reserved(t)
    BY <1>1 DEF Reserved
  <2>2. Committed(t) \in Nat /\ Reserved(t) \in Nat
    BY SumsAreNat
  <2>3. Committed(t) + Reserved(t) < capHigh[t] + LargestEstimate + excess[t]
    BY <1>4 DEF SpendWithinCap
  <2>4. capHigh[t] \in Nat /\ excess[t] \in Nat /\ excess[t] <= Committed(t)
    BY DEF TypeInv, TypeOK, Excesses
  <2> QED BY <1>1, <1>2, <2>1, <2>2, <2>3, <2>4, EstimateBound
<1> QED BY <1>3, <1>4 DEF SpendWithinCap

\* The parts of the invariant that a step keeps when it leaves the tables, the
\* calendar and the caps alone.
LEMMA QuietStep ==
    ASSUME TypeInv, TypeInv', CapInv,
           UNCHANGED <<reservations, usage, month, tenantCap, capHigh,
                       slowExpiry, excess>>,
           Charged', Caps', Holding => Holding'
    PROVE  CapInv'
<1>1. Tables' /\ Months' /\ Excesses'
  BY DEF CapInv, Tables, Months, Excesses, Committed
<1>2. CASE slowExpiry
  BY <1>1, <1>2 DEF CapInv
<1>3. CASE ~slowExpiry
  <2>1. \A t \in Tenants : capHigh[t] <= capHigh'[t]
    BY DEF TypeInv, TypeOK
  <2>2. SpendWithinCap'
    BY <1>3, <2>1, SpendShrinks DEF CapInv
  <2> QED BY <1>1, <1>3, <2>2 DEF CapInv
<1> QED BY <1>2, <1>3

\* A collection of expired reservations takes the one of a running request only
\* if it is noted.
LEMMA HeldUnlessNoted ==
    ASSUME TypeInv, Holding, NoteExpiry, ~slowExpiry', NEW q \in Requests,
           stage[q] \in {"reserved", "invoking", "answered", "inTx"}
    PROVE  \E v \in reservations \ Expired :
                /\ v.req = q
                /\ v.tenant = input[q].tenant
                /\ v.usd = EstimateMaxCost(input[q])
<1>1. PICK v \in reservations : /\ v.req = q
                                /\ v.tenant = input[q].tenant
                                /\ v.usd = EstimateMaxCost(input[q])
  BY DEF Holding, Held
<1>2. v \notin Expired
  BY <1>1 DEF NoteExpiry
<1> QED BY <1>1, <1>2

\* An admission, acknowledged or not, keeps the invariant.
LEMMA ReserveKeeps ==
    ASSUME TypeInv, TypeInv', CapInv, NEW r \in Requests, stage[r] = "capped",
           UnderCap(r), NoteExpiry,
           reservations' = (reservations \ Expired) \cup {NewReservation(r)},
           UNCHANGED <<usage, month, tenantCap, capHigh, input, capUSD, excess>>,
           NEW s \in {"reserved", "done"}, stage' = [stage EXCEPT ![r] = s]
    PROVE  CapInv'
<1>1. Tables'
  <2>1. IsFiniteSet(reservations \ Expired)
    BY FS_Subset DEF CapInv, Tables
  <2>2. IsFiniteSet(reservations')
    BY <2>1, FS_AddElement
  <2> QED BY <2>2 DEF CapInv, Tables
<1>2. Months' /\ Caps' /\ Charged' /\ Excesses'
  BY DEF CapInv, Months, Caps, Charged, Excesses, Committed, TypeInv, TypeOK, UsageRow
<1>3. ASSUME ~slowExpiry' PROVE Holding' /\ SpendWithinCap'
  <2>1. ~slowExpiry
    BY <1>3 DEF NoteExpiry
  <2>2. SpendWithinCap'
    BY <2>1, SpendReserves DEF CapInv
  <2>3. ASSUME NEW q \in Requests,
               stage'[q] \in {"reserved", "invoking", "answered", "inTx"}
        PROVE  Held(q)'
    <3>1. CASE q = r
      <4>1. PICK x : x = NewReservation(r)
        OBVIOUS
      <4>2. /\ x.req = r /\ x.tenant = input[r].tenant
            /\ x.usd = EstimateMaxCost(input[r]) /\ x \in reservations'
        BY <4>1 DEF NewReservation
      <4> QED BY <3>1, <4>2 DEF Held
    <3>2. CASE q # r
      <4>1. stage[q] = stage'[q]
        BY <3>2 DEF TypeInv, TypeOK
      <4>2. PICK v \in reservations \ Expired :
                /\ v.req = q
                /\ v.tenant = input[q].tenant
                /\ v.usd = EstimateMaxCost(input[q])
        BY <1>3, <2>1, <2>3, <4>1, HeldUnlessNoted DEF CapInv
      <4>3. v \in reservations'
        BY <4>2
      <4> QED BY <4>2, <4>3 DEF Held
    <3> QED BY <3>1, <3>2
  <2> QED BY <2>2, <2>3 DEF Holding
<1> QED BY <1>1, <1>2, <1>3 DEF CapInv

\* A commit, acknowledged or not, keeps the invariant.
LEMMA CommitKeeps ==
    ASSUME TypeInv, TypeInv', CapInv, NEW r \in Requests, stage[r] = "inTx",
           CommitRows(r),
           UNCHANGED <<month, tenantCap, capHigh, input, capUSD, slowExpiry>>,
           NEW s \in {"releasing", "done"}, stage' = [stage EXCEPT ![r] = s]
    PROVE  CapInv'
<1>1. PICK x : x = [req |-> r, tenant |-> input[r].tenant, usd |-> cost[r],
                    month |-> month]
  OBVIOUS
<1>2. /\ usage' = usage \cup {x} /\ x.month = month /\ x.req = r
      /\ reservations' = {v \in reservations : v.req # r}
  BY <1>1 DEF CommitRows
<1>3. Tables'
  <2>1. IsFiniteSet(usage')
    BY <1>2, FS_AddElement DEF CapInv, Tables
  <2>2. IsFiniteSet(reservations')
    BY <1>2, FS_Subset DEF CapInv, Tables
  <2> QED BY <2>1, <2>2 DEF Tables
<1>4. Months'
  BY <1>2 DEF CapInv, Months, TypeInv, TypeOK
<1>5. Caps' /\ Excesses'
  BY ExcessCommits DEF CapInv, Caps, TypeInv, TypeOK
<1>7. Charged'
  BY <1>2 DEF CapInv, Charged, TypeInv, TypeOK, UsageRow
<1>6. ASSUME ~slowExpiry' PROVE Holding' /\ SpendWithinCap'
  <2>1. SpendWithinCap'
    BY <1>6, SpendCommits DEF CapInv
  <2>2. Holding'
    BY <1>2, <1>6 DEF CapInv, Holding, Held, TypeInv, TypeOK
  <2> QED BY <2>1, <2>2
<1> QED BY <1>3, <1>4, <1>5, <1>6, <1>7 DEF CapInv

\* Every step of every request, of the administrators and of the clock keeps it.
LEMMA CapStep == TypeInv /\ CapInv /\ [Next]_vars => CapInv'
<1> SUFFICES ASSUME TypeInv, CapInv, [Next]_vars PROVE CapInv'
  OBVIOUS
<1>0. TypeInv'
  BY TypeStep
<1> DEFINE Untouched == UNCHANGED <<reservations, usage, month, tenantCap,
                                    capHigh, slowExpiry, excess>>
           Kept == Charged' /\ Caps' /\ (Holding => Holding')
<1>01. ASSUME Untouched, Kept PROVE CapInv'
  BY <1>0, <1>01, QuietStep
<1> USE DEF reqVars, rowVars, timeVars
<1>1. ASSUME NEW r \in Requests, NEW i \in Inputs, Arrive(r, i) PROVE CapInv'
  <2>1. Untouched
    BY <1>1 DEF Arrive
  <2>2. Kept
    BY <1>1 DEF Arrive, Goto, Return, CapInv, Charged, Caps, Holding, Held,
                TypeInv, TypeOK, UsageRow
  <2> QED BY <1>01, <2>1, <2>2
<1>2. ASSUME NEW r \in Requests, LookupCap(r) PROVE CapInv'
  <2>1. Untouched
    BY <1>2 DEF LookupCap
  <2>2. input[r].tenant \in Tenants
    BY <1>2, ConstantsAssumption DEF LookupCap, TypeInv, Carries, InputType
  <2>3. Kept
    BY <1>2, <2>2 DEF LookupCap, Goto, CapInv, Charged, Caps, Holding, Held,
                TypeInv, TypeOK
  <2> QED BY <1>01, <2>1, <2>3
<1>3. ASSUME NEW r \in Requests, EarlyError(r) PROVE CapInv'
  <2>1. Untouched
    BY <1>3 DEF EarlyError
  <2>2. Kept
    BY <1>3 DEF EarlyError, Goto, Return, CapInv, Charged, Caps, Holding, Held,
                TypeInv, TypeOK
  <2> QED BY <1>01, <2>1, <2>2
<1>4. ASSUME NEW r \in Requests, ReserveBudget(r) PROVE CapInv'
  BY <1>4, <1>0, ReserveKeeps DEF ReserveBudget, Goto
<1>5. ASSUME NEW r \in Requests, ReserveAckLost(r) PROVE CapInv'
  BY <1>5, <1>0, ReserveKeeps DEF ReserveAckLost, Goto, Return
<1>6. ASSUME NEW r \in Requests, DenyBudget(r) PROVE CapInv'
  <2>1. /\ reservations' = reservations \ Expired /\ NoteExpiry
        /\ stage' = [stage EXCEPT ![r] = "done"] /\ stage[r] = "capped"
        /\ UNCHANGED <<usage, month, tenantCap, capHigh, input, capUSD, excess>>
    BY <1>6 DEF DenyBudget, Goto, Return
  <2>2. Tables'
    BY <2>1, FS_Subset DEF CapInv, Tables
  <2>3. Months' /\ Caps' /\ Charged' /\ Excesses'
    BY <2>1 DEF CapInv, Months, Caps, Charged, Excesses, Committed, TypeInv, TypeOK, UsageRow
  <2>4. ASSUME ~slowExpiry' PROVE Holding' /\ SpendWithinCap'
    <3>1. ~slowExpiry
      BY <2>1, <2>4 DEF NoteExpiry
    <3>2. \A t \in Tenants : capHigh[t] <= capHigh'[t]
      BY <2>1 DEF TypeInv, TypeOK
    <3>3. SpendWithinCap'
      BY <1>0, <2>1, <3>1, <3>2, SpendShrinks DEF CapInv
    <3>4. ASSUME NEW q \in Requests,
                 stage'[q] \in {"reserved", "invoking", "answered", "inTx"}
          PROVE  Held(q)'
      <4>1. stage[q] = stage'[q]
        BY <2>1, <3>4 DEF TypeInv, TypeOK
      <4>2. PICK v \in reservations \ Expired :
                /\ v.req = q
                /\ v.tenant = input[q].tenant
                /\ v.usd = EstimateMaxCost(input[q])
        BY <2>1, <2>4, <3>1, <3>4, <4>1, HeldUnlessNoted DEF CapInv
      <4> QED BY <2>1, <4>2 DEF Held
    <3> QED BY <3>3, <3>4 DEF Holding
  <2> QED BY <2>2, <2>3, <2>4 DEF CapInv
<1>7. ASSUME NEW r \in Requests, Block(r) PROVE CapInv'
  <2>1. Untouched
    BY <1>7 DEF Block
  <2>2. Kept
    BY <1>7 DEF Block, Goto, Unwind, CapInv, Charged, Caps, Holding, Held,
                TypeInv, TypeOK
  <2> QED BY <1>01, <2>1, <2>2
<1>8. ASSUME NEW r \in Requests, Invoke(r) PROVE CapInv'
  <2>1. Untouched
    BY <1>8 DEF Invoke
  <2>2. Kept
    BY <1>8 DEF Invoke, Goto, CapInv, Charged, Caps, Holding, Held, TypeInv,
                TypeOK
  <2> QED BY <1>01, <2>1, <2>2
<1>9. ASSUME NEW r \in Requests, ProviderAnswers(r) PROVE CapInv'
  <2>1. Untouched
    BY <1>9 DEF ProviderAnswers
  <2>2. Kept
    BY <1>9 DEF ProviderAnswers, Goto, CapInv, Charged, Caps, Holding, Held,
                TypeInv, TypeOK
  <2> QED BY <1>01, <2>1, <2>2
<1>10. ASSUME NEW r \in Requests, UpstreamError(r) PROVE CapInv'
  <2>1. Untouched
    BY <1>10 DEF UpstreamError
  <2>2. Kept
    BY <1>10 DEF UpstreamError, Goto, Unwind, CapInv, Charged, Caps, Holding,
                 Held, TypeInv, TypeOK
  <2> QED BY <1>01, <2>1, <2>2
<1>11. ASSUME NEW r \in Requests, BeginPersist(r) PROVE CapInv'
  <2>1. Untouched
    BY <1>11 DEF BeginPersist
  <2>2. Kept
    BY <1>11 DEF BeginPersist, Goto, CapInv, Charged, Caps, Holding, Held,
                 TypeInv, TypeOK
  <2> QED BY <1>01, <2>1, <2>2
<1>12. ASSUME NEW r \in Requests, PersistCommit(r) PROVE CapInv'
  BY <1>12, <1>0, CommitKeeps DEF PersistCommit, Goto, Return
<1>13. ASSUME NEW r \in Requests, PersistAckLost(r) PROVE CapInv'
  BY <1>13, <1>0, CommitKeeps DEF PersistAckLost, Goto, Unwind
<1>14. ASSUME NEW r \in Requests, PersistError(r) PROVE CapInv'
  <2>1. Untouched
    BY <1>14 DEF PersistError
  <2>2. Kept
    BY <1>14 DEF PersistError, Goto, Unwind, CapInv, Charged, Caps, Holding,
                 Held, TypeInv, TypeOK
  <2> QED BY <1>01, <2>1, <2>2
<1>15. ASSUME NEW r \in Requests, ReleaseBudget(r) PROVE CapInv'
  <2>1. /\ stage' = [stage EXCEPT ![r] = "done"] /\ stage[r] = "releasing"
        /\ UNCHANGED <<usage, month, tenantCap, capHigh, input, capUSD, excess,
                       slowExpiry>>
        /\ reservations' \subseteq reservations
        /\ \A v \in reservations : v \in reservations' \/ v.req = r
    BY <1>15 DEF ReleaseBudget, Goto, Return
  <2>2. Tables'
    BY <2>1, FS_Subset DEF CapInv, Tables
  <2>3. Months' /\ Caps' /\ Charged' /\ Excesses'
    BY <2>1 DEF CapInv, Months, Caps, Charged, Excesses, Committed, TypeInv, TypeOK, UsageRow
  <2>4. ASSUME ~slowExpiry' PROVE Holding' /\ SpendWithinCap'
    <3>1. \A t \in Tenants : capHigh[t] <= capHigh'[t]
      BY <2>1 DEF TypeInv, TypeOK
    <3>2. SpendWithinCap'
      BY <1>0, <2>1, <2>4, <3>1, SpendShrinks DEF CapInv
    <3>3. Holding'
      BY <2>1, <2>4 DEF CapInv, Holding, Held, TypeInv, TypeOK
    <3> QED BY <3>2, <3>3
  <2> QED BY <2>2, <2>3, <2>4 DEF CapInv
<1>16. ASSUME NEW r \in Requests, Disconnect(r) PROVE CapInv'
  <2>1. Untouched
    BY <1>16 DEF Disconnect
  <2>2. Kept
    BY <1>16 DEF Disconnect, CapInv, Charged, Caps, Holding, Held
  <2> QED BY <1>01, <2>1, <2>2
<1>17. CASE Crash
  <2>1. Untouched
    BY <1>17 DEF Crash
  <2>2. Kept
    BY <1>17 DEF Crash, CapInv, Charged, Caps, Holding, Held, TypeInv, TypeOK,
                 UsageRow
  <2> QED BY <1>01, <2>1, <2>2
<1>18. ASSUME NEW t \in Tenants, NEW c \in BudgetCaps, SetTenantBudget(t, c)
       PROVE  CapInv'
  <2>1. UNCHANGED <<stage, input, capUSD, excess, usage, reservations, month,
                    slowExpiry>>
    BY <1>18 DEF SetTenantBudget
  <2>2. \A u \in Tenants : capHigh[u] \in Nat /\ capHigh'[u] \in Nat
                           /\ capHigh[u] <= capHigh'[u]
                           /\ tenantCap'[u] <= capHigh'[u]
    BY <1>0, <1>18, ConstantsAssumption DEF SetTenantBudget, CapInv, Caps,
                                            TypeInv, TypeOK
  <2>3. \A r \in Requests : stage[r] = "capped" =>
            input[r].tenant \in Tenants /\ capUSD[r] \in Nat
    BY ConstantsAssumption DEF TypeInv, TypeOK, Carries, InputType
  <2>4. Caps'
    BY <2>1, <2>2, <2>3 DEF CapInv, Caps
  <2>5. Tables' /\ Months' /\ Charged' /\ Excesses' /\ (Holding => Holding')
    BY <2>1 DEF CapInv, Tables, Months, Charged, Excesses, Committed, Holding, Held
  <2>6. SpendWithinCap => SpendWithinCap'
    BY <1>0, <2>1, <2>2, SpendShrinks DEF CapInv
  <2> QED BY <2>1, <2>4, <2>5, <2>6 DEF CapInv
<1>19. CASE Tick
  <2>1. Untouched
    BY <1>19 DEF Tick
  <2>2. Kept
    BY <1>19 DEF Tick, CapInv, Charged, Caps, Holding, Held
  <2> QED BY <1>01, <2>1, <2>2
<1>20. CASE NewMonth
  <2>1. UNCHANGED <<stage, input, capUSD, tenantCap, capHigh, usage,
                    reservations, slowExpiry>>
        /\ month' = month + 1
    BY <1>20 DEF NewMonth
  <2>2. Tables' /\ Caps' /\ Charged' /\ (Holding => Holding')
    BY <2>1 DEF CapInv, Tables, Caps, Charged, Holding, Held
  <2>3. Months'
    BY <2>1 DEF CapInv, Months, TypeInv, TypeOK, UsageRow
  <2>4. Excesses' /\ (SpendWithinCap => SpendWithinCap')
    BY <1>20, SpendNewMonth DEF CapInv
  <2> QED BY <2>1, <2>2, <2>3, <2>4 DEF CapInv
<1>21. CASE UNCHANGED vars
  <2>1. Untouched
    BY <1>21 DEF vars
  <2>2. Kept
    BY <1>21 DEF vars, CapInv, Charged, Caps, Holding, Held
  <2> QED BY <1>01, <2>1, <2>2
<1> HIDE DEF Untouched, Kept
<1> QED
  BY <1>1, <1>2, <1>3, <1>4, <1>5, <1>6, <1>7, <1>8, <1>9, <1>10, <1>11,
     <1>12, <1>13, <1>14, <1>15, <1>16, <1>17, <1>18, <1>19, <1>20, <1>21
  DEF Next, HandlerStep

\* Whatever is lost, cancelled or crashes, and whatever providers report, a
\* tenant's recorded spend plus what it has reserved stays within its highest
\* cap plus one estimate plus what this month's answers cost beyond their
\* estimates, as long as no reservation expired under a running request.
THEOREM CapRespected == Spec => []CapHolds
<1>1. Init => CapInv
  <2> SUFFICES ASSUME Init PROVE CapInv
    OBVIOUS
  <2>1. Tables
    BY FS_EmptySet DEF Init, Tables
  <2>2. Months /\ Charged /\ Holding
    BY DEF Init, Months, Charged, Holding
  <2>3. \A t \in Tenants : capHigh[t] \in Nat /\ tenantCap[t] = capHigh[t]
    BY ConstantsAssumption DEF Init
  <2>4. Caps
    BY <2>3 DEF Init, Caps
  <2>5. ASSUME NEW t \in Tenants
        PROVE  /\ Committed(t) + Reserved(t) < capHigh[t] + LargestEstimate + excess[t]
               /\ excess[t] <= Committed(t)
    <3>1. Committed(t) = SumUSD({}) /\ Reserved(t) = SumUSD({})
      <4>1. /\ {u \in usage : u.tenant = t /\ u.month = month} = {}
            /\ {v \in reservations : v.tenant = t} = {}
        BY DEF Init
      <4> QED BY <4>1 DEF Committed, Reserved
    <3>2. SumUSD({}) = 0
      BY SumStep, FS_EmptySet
    <3>3. excess[t] = 0
      BY DEF Init
    <3> QED BY <2>3, <3>1, <3>2, <3>3, EstimateBound
  <2>6. SpendWithinCap /\ Excesses
    BY <2>5 DEF SpendWithinCap, Excesses
  <2> QED BY <2>1, <2>2, <2>4, <2>6 DEF CapInv
<1>2. CapInv => CapHolds
  BY DEF CapInv, CapHolds
<1>3. TypeInv /\ CapInv /\ [Next]_vars => CapInv'
  BY CapStep
<1> QED BY <1>1, <1>2, <1>3, TypeInit, TypeStep, PTL DEF Spec

-----------------------------------------------------------------------------
(* Denials are justified *)

\* The tables never become infinite: a step adds at most one row to each.
LEMMA TablesStep == TypeInv /\ Tables /\ [Next]_vars => Tables'
<1> SUFFICES ASSUME TypeInv, Tables, [Next]_vars PROVE Tables'
  OBVIOUS
<1> DEFINE Grows == /\ \E x : usage' \subseteq usage \cup {x}
                    /\ \E y : reservations' \subseteq reservations \cup {y}
<1>1. ASSUME Grows PROVE Tables'
  <2>1. PICK x : usage' \subseteq usage \cup {x}
    BY <1>1
  <2>2. PICK y : reservations' \subseteq reservations \cup {y}
    BY <1>1
  <2>3. IsFiniteSet(usage \cup {x}) /\ IsFiniteSet(reservations \cup {y})
    BY FS_AddElement DEF Tables
  <2> QED BY <2>1, <2>2, <2>3, FS_Subset DEF Tables
<1>2. ASSUME UNCHANGED <<usage, reservations>> PROVE Grows
  BY <1>2
<1>3. ASSUME NEW r \in Requests, ReserveBudget(r) \/ ReserveAckLost(r)
      PROVE  Grows
  BY <1>3 DEF ReserveBudget, ReserveAckLost, rowVars
<1>4. ASSUME NEW r \in Requests, DenyBudget(r) \/ ReleaseBudget(r)
      PROVE  Grows
  BY <1>4 DEF DenyBudget, ReleaseBudget, rowVars
<1>5. ASSUME NEW r \in Requests, PersistCommit(r) \/ PersistAckLost(r)
      PROVE  Grows
  BY <1>5 DEF PersistCommit, PersistAckLost, CommitRows
<1>6. ASSUME NEW r \in Requests, NEW i \in Inputs, Arrive(r, i)
      PROVE  UNCHANGED <<usage, reservations>>
  BY <1>6 DEF Arrive, rowVars
<1>7. ASSUME NEW r \in Requests,
             \/ LookupCap(r) \/ EarlyError(r) \/ Block(r) \/ Invoke(r)
             \/ ProviderAnswers(r) \/ UpstreamError(r) \/ BeginPersist(r)
             \/ PersistError(r) \/ Disconnect(r)
      PROVE  UNCHANGED <<usage, reservations>>
  BY <1>7 DEF LookupCap, EarlyError, Block, Invoke, ProviderAnswers,
     UpstreamError, BeginPersist, PersistError, Disconnect, rowVars
<1>8. ASSUME NEW t \in Tenants, NEW c \in BudgetCaps, SetTenantBudget(t, c)
      PROVE  UNCHANGED <<usage, reservations>>
  BY <1>8 DEF SetTenantBudget, rowVars
<1>9. ASSUME Crash \/ Tick \/ NewMonth \/ UNCHANGED vars
      PROVE  UNCHANGED <<usage, reservations>>
  BY <1>9 DEF Crash, Tick, NewMonth, vars, rowVars
<1> HIDE DEF Grows
<1>10. Grows
  BY <1>2, <1>3, <1>4, <1>5, <1>6, <1>7, <1>8, <1>9 DEF Next, HandlerStep
<1> QED BY <1>1, <1>10

\* Only a denial at admission decides "budget_exceeded".
LEMMA OnlyDenyBudget ==
    ASSUME TypeInv, Next, NEW r \in Requests, outcome[r] = "none",
           outcome'[r] = "budget_exceeded"
    PROVE  DenyBudget(r)
<1> USE DEF TypeInv, TypeOK, Undecided
<1>1. ASSUME NEW q \in Requests, NEW i \in Inputs, Arrive(q, i) PROVE FALSE
  BY <1>1, ModelGateValues DEF Arrive, Return
<1>2. ASSUME NEW q \in Requests,
             LookupCap(q) \/ EarlyError(q) \/ ReserveBudget(q)
             \/ ReserveAckLost(q) \/ Invoke(q)
      PROVE  FALSE
  BY <1>2 DEF LookupCap, EarlyError, ReserveBudget, ReserveAckLost, Invoke,
              Return
<1>3. ASSUME NEW q \in Requests, Block(q) PROVE FALSE
  BY <1>3 DEF Block, Unwind, BlockReason
<1>4. ASSUME NEW q \in Requests, ProviderAnswers(q) \/ UpstreamError(q)
             \/ BeginPersist(q) \/ PersistCommit(q) \/ PersistAckLost(q)
             \/ PersistError(q) \/ Disconnect(q)
      PROVE  FALSE
  BY <1>4 DEF ProviderAnswers, UpstreamError, BeginPersist, PersistCommit,
              PersistAckLost, PersistError, Disconnect, Return, Unwind
<1>5. ASSUME NEW q \in Requests, ReleaseBudget(q) PROVE FALSE
  BY <1>5 DEF ReleaseBudget, Return
<1>6. ASSUME NEW q \in Requests, DenyBudget(q) PROVE q = r
  BY <1>6 DEF DenyBudget, Return
<1>7. ASSUME Crash \/ Tick \/ NewMonth PROVE FALSE
  BY <1>7 DEF Crash, Tick, NewMonth, reqVars
<1>8. ASSUME NEW t \in Tenants, NEW c \in BudgetCaps, SetTenantBudget(t, c)
      PROVE  FALSE
  BY <1>8 DEF SetTenantBudget, reqVars
<1> QED BY <1>1, <1>2, <1>3, <1>4, <1>5, <1>6, <1>7, <1>8 DEF Next, HandlerStep

\* A budget denial is explained by recorded usage and by reservations no older
\* than the TTL, whoever left them behind.
THEOREM DenialsExplained == Spec => DenialsJustified
<1> DEFINE Justified ==
        \A r \in Requests :
            (outcome[r] = "none" /\ outcome'[r] = "budget_exceeded") =>
                LET t == input[r].tenant IN
                Committed(t) + SumUSD({v \in reservations :
                    v.tenant = t /\ now - v.created <= ReservationTTL})
                >= capUSD[r]
<1>1. Init => Tables
  BY FS_EmptySet DEF Init, Tables
<1>2. TypeInv /\ Tables /\ [Next]_vars => [Justified]_vars
  <2> SUFFICES ASSUME TypeInv, Tables, Next, NEW r \in Requests,
                      outcome[r] = "none", outcome'[r] = "budget_exceeded"
               PROVE  LET t == input[r].tenant IN
                      Committed(t) + SumUSD({v \in reservations :
                          v.tenant = t /\ now - v.created <= ReservationTTL})
                      >= capUSD[r]
    OBVIOUS
  <2> DEFINE t == input[r].tenant
             A == {v \in reservations \ Expired : v.tenant = t}
             B == {v \in reservations :
                    v.tenant = t /\ now - v.created <= ReservationTTL}
  <2>1. ~UnderCap(r)
    BY OnlyDenyBudget DEF DenyBudget
  <2>2. A = B
    <3>1. \A v \in reservations :
            (v.created < now - ReservationTTL)
                <=> ~(now - v.created <= ReservationTTL)
      BY ConstantsAssumption DEF TypeInv, TypeOK, Reservation
    <3> QED BY <3>1 DEF Expired
  <2>3. Committed(t) \in Nat /\ SumUSD(A) \in Nat
    <3>1. A \in SUBSET reservations
      OBVIOUS
    <3> QED BY <3>1, SumsAreNat
  <2>4. ~(Committed(t) + SumUSD(A) < capUSD[r])
    BY <2>1 DEF UnderCap
  <2>5. PICK a \in Nat, b \in Nat, c \in Nat :
            a = Committed(t) /\ b = SumUSD(A) /\ c = capUSD[r]
    BY <2>3 DEF TypeInv, TypeOK
  <2>6. a + b >= c
    <3>1. ~(a + b < c)
      BY <2>4, <2>5
    <3> QED BY <3>1
  <2>7. Committed(t) + SumUSD(B) >= capUSD[r]
    BY <2>2, <2>5, <2>6
  <2> QED BY <2>7
<1> HIDE DEF Justified
<1>3. Spec => [][Justified]_vars
  BY <1>1, <1>2, TypeInit, TypeStep, TablesStep, PTL DEF Spec
<1> USE DEF Justified
<1> QED BY <1>3, PTL DEF DenialsJustified

=============================================================================
