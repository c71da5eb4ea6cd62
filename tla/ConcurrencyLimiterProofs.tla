---------------------- MODULE ConcurrencyLimiterProofs ----------------------
(***************************************************************************)
(* Proofs of the limiter's invariants for every number of clients, every   *)
(* limit and every counter width that the assumption admits.               *)
(*                                                                         *)
(* The inductive invariant is TypeOK /\ TicketsConserved: the comparison   *)
(* in ServeHTTP is on counters, the properties are on the number of        *)
(* requests inside, and TicketsConserved is what ties the two together.    *)
(***************************************************************************)
EXTENDS ConcurrencyLimiter, FiniteSetTheorems, TLAPS

\* Adding one to the started counter adds one to the difference, wrapping or not.
LEMMA DiffIncStarted ==
  ASSUME NEW a \in Counter, NEW b \in Counter, Diff(a, b) + 1 < Modulus
  PROVE  Inc(a) \in Counter /\ Diff(Inc(a), b) = Diff(a, b) + 1
BY LimiterAssumption DEF Counter, Inc, Diff

\* Adding one to the completed counter takes one from the difference.
LEMMA DiffIncCompleted ==
  ASSUME NEW a \in Counter, NEW b \in Counter, Diff(a, b) > 0
  PROVE  Inc(b) \in Counter /\ Diff(a, Inc(b)) = Diff(a, b) - 1
BY LimiterAssumption DEF Counter, Inc, Diff

\* Incrementing stays within the counter's width.
LEMMA IncType ==
  ASSUME NEW a \in Counter
  PROVE  Inc(a) \in Counter
BY LimiterAssumption DEF Counter, Inc

\* The set of requests inside is finite and no larger than Requests.
LEMMA InsideFinite ==
  /\ IsFiniteSet(Inside)
  /\ Cardinality(Inside) \in Nat
  /\ Cardinality(Inside) <= Cardinality(Requests)
  /\ Cardinality(Requests) \in Nat
<1>1. Inside \subseteq Requests
  BY DEF Inside
<1>2. QED
  BY <1>1, LimiterAssumption, FS_Subset, FS_CardinalityType

\* The counters, program counters and histories keep their types.
THEOREM TypeCorrect == Spec => []TypeOK
<1>1. Init => TypeOK
  <2>1. 0 \in Counter /\ 0 \in 0..MaxPanics
    BY LimiterAssumption DEF Counter
  <2>2. QED
    BY <2>1 DEF Init, TypeOK, ServePc
<1>2. TypeOK /\ [Next]_vars => TypeOK'
  <2> SUFFICES ASSUME TypeOK, [Next]_vars PROVE TypeOK'
    OBVIOUS
  <2>1. ASSUME NEW r \in Requests, TakeTicket(r) PROVE TypeOK'
    BY <2>1, IncType DEF TypeOK, ServePc, TakeTicket, metVars
  <2>2. ASSUME NEW r \in Requests, CheckLimit(r) PROVE TypeOK'
    BY <2>2 DEF TypeOK, ServePc, CheckLimit, metVars
  <2>3. ASSUME NEW r \in Requests, Refuse(r) PROVE TypeOK'
    BY <2>3, IncType DEF TypeOK, ServePc, Refuse, metVars
  <2>4. ASSUME NEW r \in Requests, Complete(r) PROVE TypeOK'
    BY <2>4, IncType DEF TypeOK, ServePc, Complete, metVars
  <2>5. ASSUME NEW r \in Requests, BackendPanic(r) PROVE TypeOK'
    BY <2>5, LimiterAssumption DEF TypeOK, ServePc, BackendPanic, metVars
  <2>6. ASSUME NEW p \in Probes, MetLoadStarted(p) PROVE TypeOK'
    BY <2>6 DEF TypeOK, MetLoadStarted, limiterVars
  <2>7. ASSUME NEW p \in Probes, MetLoadCompleted(p) PROVE TypeOK'
    BY <2>7 DEF TypeOK, MetLoadCompleted, limiterVars
  <2>8. ASSUME UNCHANGED vars PROVE TypeOK'
    BY <2>8 DEF TypeOK, vars, limiterVars, metVars
  <2>9. QED
    BY <2>1, <2>2, <2>3, <2>4, <2>5, <2>6, <2>7, <2>8 DEF Next
<1>3. QED
  BY <1>1, <1>2, PTL DEF Spec

\* A request that leaves ServeHTTP leaves Inside, and nobody else does.
LEMMA LeaveInside ==
  ASSUME NEW r \in Requests, pc \in [Requests -> ServePc], pc[r] # "idle",
         pc' = [pc EXCEPT ![r] = "idle"]
  PROVE  /\ Inside' = Inside \ {r}
         /\ Cardinality(Inside') = Cardinality(Inside) - 1
         /\ Cardinality(Inside) > 0
<1>1. Inside' = Inside \ {r}
  BY DEF Inside
<1>2. r \in Inside
  BY DEF Inside
<1>3. Cardinality(Inside') = Cardinality(Inside) - 1
  BY <1>1, <1>2, InsideFinite, FS_RemoveElement
<1>4. Inside' \subseteq Inside /\ IsFiniteSet(Inside') 
  BY <1>1, InsideFinite, FS_Subset
<1>5. Cardinality(Inside') \in Nat
  BY <1>4, FS_CardinalityType
<1>6. QED
  BY <1>1, <1>3, <1>5, InsideFinite

\* A request that takes a ticket enters Inside.
LEMMA EnterInside ==
  ASSUME NEW r \in Requests, pc \in [Requests -> ServePc], pc[r] = "idle",
         pc' = [pc EXCEPT ![r] = "checking"]
  PROVE  /\ Cardinality(Inside') = Cardinality(Inside) + 1
         /\ Cardinality(Inside') <= Cardinality(Requests)
<1>1. Inside' = Inside \cup {r}
  BY DEF Inside
<1>2. r \notin Inside
  BY DEF Inside
<1>3. Cardinality(Inside') = Cardinality(Inside) + 1
  BY <1>1, <1>2, InsideFinite, FS_AddElement
<1>4. Inside' \subseteq Requests
  BY DEF Inside
<1>5. Cardinality(Inside') <= Cardinality(Requests)
  BY <1>4, LimiterAssumption, FS_Subset
<1>6. QED
  BY <1>3, <1>5

\* Every step keeps the tickets balanced.
LEMMA ConservationStep ==
  TypeOK /\ TicketsConserved /\ [Next]_vars => TicketsConserved'
<1> SUFFICES ASSUME TypeOK, TicketsConserved, [Next]_vars
             PROVE  TicketsConserved'
  OBVIOUS
<1>0. /\ requestsStarted \in Counter /\ requestsCompleted \in Counter
      /\ lost \in Nat /\ lost <= MaxPanics /\ MaxPanics \in Nat
      /\ pc \in [Requests -> ServePc]
  BY LimiterAssumption DEF TypeOK
<1>1. ASSUME NEW r \in Requests, TakeTicket(r) PROVE TicketsConserved'
  <2>1. /\ Cardinality(Inside') = Cardinality(Inside) + 1
        /\ Cardinality(Inside') <= Cardinality(Requests)
    BY <1>0, <1>1, EnterInside DEF TakeTicket
  <2>2. Diff(requestsStarted, requestsCompleted) + 1 < Modulus
    BY <1>0, <2>1, InsideFinite, LimiterAssumption DEF TicketsConserved
  <2>3. Diff(requestsStarted', requestsCompleted)
          = Diff(requestsStarted, requestsCompleted) + 1
    BY <1>0, <1>1, <2>2, DiffIncStarted DEF TakeTicket
  <2>4. QED
    BY <1>0, <1>1, <2>1, <2>3, InsideFinite DEF TakeTicket, TicketsConserved
<1>2. ASSUME NEW r \in Requests, CheckLimit(r) PROVE TicketsConserved'
  <2>1. Inside' = Inside
    BY <1>0, <1>2 DEF CheckLimit, Inside
  <2>2. QED
    BY <1>2, <2>1 DEF CheckLimit, TicketsConserved
<1>3. ASSUME NEW r \in Requests, Refuse(r) \/ Complete(r)
      PROVE  TicketsConserved'
  <2>1. /\ Cardinality(Inside') = Cardinality(Inside) - 1
        /\ Cardinality(Inside) > 0
    BY <1>0, <1>3, LeaveInside DEF Refuse, Complete
  <2>2. Diff(requestsStarted, requestsCompleted) > 0
    BY <1>0, <2>1, InsideFinite DEF TicketsConserved
  <2>3. Diff(requestsStarted, requestsCompleted')
          = Diff(requestsStarted, requestsCompleted) - 1
    BY <1>0, <1>3, <2>2, DiffIncCompleted DEF Refuse, Complete
  <2>4. QED
    BY <1>0, <1>3, <2>1, <2>3, InsideFinite
    DEF Refuse, Complete, TicketsConserved
<1>4. ASSUME NEW r \in Requests, BackendPanic(r) PROVE TicketsConserved'
  <2>1. Cardinality(Inside') = Cardinality(Inside) - 1
    BY <1>0, <1>4, LeaveInside DEF BackendPanic
  <2>2. QED
    BY <1>0, <1>4, <2>1, InsideFinite DEF BackendPanic, TicketsConserved
<1>5. ASSUME NEW p \in Probes, MetLoadStarted(p) \/ MetLoadCompleted(p)
      PROVE  TicketsConserved'
  BY <1>5 DEF MetLoadStarted, MetLoadCompleted, limiterVars, Inside,
              TicketsConserved
<1>6. ASSUME UNCHANGED vars PROVE TicketsConserved'
  BY <1>6 DEF vars, limiterVars, Inside, TicketsConserved
<1>7. QED
  BY <1>1, <1>2, <1>3, <1>4, <1>5, <1>6 DEF Next

\* The difference of the counters is the number of requests inside plus the
\* tickets lost to panics, for any number of clients and across wrap-around.
THEOREM Conservation == Spec => []TicketsConserved
<1>1. Init => TicketsConserved
  <2> SUFFICES ASSUME Init PROVE TicketsConserved
    OBVIOUS
  <2>1. Inside = {}
    BY DEF Init, Inside
  <2>2. Cardinality(Inside) = 0
    BY <2>1, FS_EmptySet
  <2>3. QED
    BY <2>2 DEF Init, TicketsConserved, Diff
<1>2. QED
  BY <1>1, ConservationStep, TypeCorrect, PTL DEF Spec

\* While no request has been overtaken, at most MaxInflight handlers execute.
THEOREM LimitSafe == Spec => []LimitHoldsUnlessOvertaken
<1>1. Init => LimitHoldsUnlessOvertaken
  <2> SUFFICES ASSUME Init PROVE LimitHoldsUnlessOvertaken
    OBVIOUS
  <2>1. Serving = {}
    BY DEF Init, Serving
  <2>2. QED
    BY <2>1, FS_EmptySet, LimiterAssumption DEF LimitHoldsUnlessOvertaken
<1>2. TypeOK /\ TicketsConserved /\ LimitHoldsUnlessOvertaken /\ [Next]_vars
        => LimitHoldsUnlessOvertaken'
  <2> SUFFICES ASSUME TypeOK, TicketsConserved, LimitHoldsUnlessOvertaken,
                      [Next]_vars
               PROVE  LimitHoldsUnlessOvertaken'
    OBVIOUS
  <2>0. /\ pc \in [Requests -> ServePc] /\ overtaken \in BOOLEAN
        /\ lost \in Nat /\ MaxInflight \in Nat
    BY LimiterAssumption DEF TypeOK
  <2>1. IsFiniteSet(Serving) /\ Cardinality(Serving) \in Nat
    BY LimiterAssumption, FS_Subset, FS_CardinalityType DEF Serving
  <2>2. ASSUME Serving' \subseteq Serving, overtaken' = overtaken
        PROVE  LimitHoldsUnlessOvertaken'
    <3>1. Cardinality(Serving') <= Cardinality(Serving)
          /\ Cardinality(Serving') \in Nat
      BY <2>1, <2>2, FS_Subset, FS_CardinalityType
    <3>2. QED
      BY <2>0, <2>1, <2>2, <3>1 DEF LimitHoldsUnlessOvertaken
  <2>3. ASSUME NEW r \in Requests, CheckLimit(r)
        PROVE  LimitHoldsUnlessOvertaken'
    <3>1. CASE ticket[r] # requestsStarted
      <4>1. overtaken'
        BY <2>3, <3>1 DEF CheckLimit
      <4>2. QED
        BY <4>1 DEF LimitHoldsUnlessOvertaken
    <3>2. CASE Diff(ticket[r], requestsCompleted) > MaxInflight
               /\ ticket[r] = requestsStarted
      <4>1. Serving' \subseteq Serving
        BY <2>0, <2>3, <3>2 DEF CheckLimit, Serving
      <4>2. overtaken' = overtaken
        BY <2>0, <2>3, <3>2, Zenon DEF CheckLimit
      <4>3. QED
        BY <2>2, <4>1, <4>2
    <3>3. CASE ~(Diff(ticket[r], requestsCompleted) > MaxInflight)
               /\ ticket[r] = requestsStarted
      <4>1. Serving' \subseteq Inside
        BY <2>0, <2>3, <3>3 DEF CheckLimit, Serving, Inside
      <4>2. /\ Cardinality(Serving') <= Cardinality(Inside)
            /\ Cardinality(Serving') \in Nat
        BY <4>1, InsideFinite, FS_Subset, FS_CardinalityType
      <4>3. Cardinality(Inside) <= MaxInflight
        BY <2>0, <3>3, InsideFinite DEF TicketsConserved
      <4>4. QED
        BY <2>0, <4>2, <4>3, InsideFinite DEF LimitHoldsUnlessOvertaken
    <3>4. QED
      BY <3>1, <3>2, <3>3
  <2>4. ASSUME NEW r \in Requests,
               TakeTicket(r) \/ Refuse(r) \/ Complete(r) \/ BackendPanic(r)
        PROVE  LimitHoldsUnlessOvertaken'
    <3>1. Serving' \subseteq Serving
      BY <2>0, <2>4 DEF TakeTicket, Refuse, Complete, BackendPanic, Serving
    <3>2. overtaken' = overtaken
      BY <2>4 DEF TakeTicket, Refuse, Complete, BackendPanic
    <3>3. QED
      BY <2>2, <3>1, <3>2
  <2>5. ASSUME NEW p \in Probes, MetLoadStarted(p) \/ MetLoadCompleted(p)
        PROVE  LimitHoldsUnlessOvertaken'
    BY <2>2, <2>5 DEF MetLoadStarted, MetLoadCompleted, limiterVars, Serving
  <2>6. ASSUME UNCHANGED vars PROVE LimitHoldsUnlessOvertaken'
    BY <2>2, <2>6 DEF vars, limiterVars, Serving
  <2>7. QED
    BY <2>3, <2>4, <2>5, <2>6 DEF Next
<1>3. QED
  BY <1>1, <1>2, TypeCorrect, Conservation, PTL DEF Spec

\* A comparison made with the newest ticket refuses exactly when more than
\* MaxInflight tickets are out.
THEOREM NewestExact == Spec => NewestTicketExact
<1> DEFINE Judged(r) ==
      pc[r] = "checking" /\ pc'[r] # "checking" /\ ticket[r] = requestsStarted
        => (pc'[r] = "refused" <=> Cardinality(Inside) + lost > MaxInflight)
<1>1. TypeOK /\ TicketsConserved /\ [Next]_vars => \A r \in Requests : Judged(r)
  <2> SUFFICES ASSUME TypeOK, TicketsConserved, [Next]_vars,
                      NEW r \in Requests,
                      pc[r] = "checking", pc'[r] # "checking",
                      ticket[r] = requestsStarted
               PROVE  pc'[r] = "refused"
                        <=> Cardinality(Inside) + lost > MaxInflight
    OBVIOUS
  <2>0. pc \in [Requests -> ServePc]
    BY DEF TypeOK
  <2>1. CheckLimit(r)
    BY <2>0 DEF Next, TakeTicket, CheckLimit, Refuse, Complete, BackendPanic,
                MetLoadStarted, MetLoadCompleted, vars, limiterVars
  <2>2. pc'[r] = IF Diff(ticket[r], requestsCompleted) > MaxInflight
                 THEN "refused" ELSE "serving"
    BY <2>0, <2>1 DEF CheckLimit
  <2>3. QED
    BY <2>2 DEF TicketsConserved
<1>2. TypeOK /\ TicketsConserved /\ [Next]_vars
        => [\A r \in Requests : Judged(r)]_vars
  BY <1>1
<1>3. QED
  BY <1>2, TypeCorrect, Conservation, PTL DEF Spec, NewestTicketExact

=============================================================================
