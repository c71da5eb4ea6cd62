------------------------- MODULE RequestPathProofs -------------------------
(***************************************************************************)
(* Proofs about the accounting of requests in RequestPath, for any number  *)
(* of requests and with or without limiter, JWT and ready_path.            *)
(*                                                                         *)
(* RequestsAccounted counts requests by stage: MoveStage says how such a    *)
(* count changes when one request moves, the rest is one case per action.  *)
(* FirstSampleClaimedOnce counts the requests that hold the claim; it      *)
(* needs that a request gives the claim up before it leaves the stack.     *)
(***************************************************************************)
EXTENDS RequestPath, FiniteSetTheorems, TLAPS

LimiterProofs == INSTANCE ConcurrencyLimiterProofs

\* The stages in which a request has arrived and has not been counted.
Uncounted == {"marked", "counted", "limiter", "refused", "auth", "function", "answered"}

\* What the accounting needs of the types.
StageInv ==
  /\ stage \in [Requests -> Stages]
  /\ arrivals \in Nat
  /\ requestsTotal \in Nat
  /\ panics \in Nat

AccountInv == StageInv /\ RequestsAccounted

\* Requests at a set of stages are finitely many.
LEMMA AtFinite ==
  ASSUME NEW S
  PROVE  IsFiniteSet(At(S)) /\ Cardinality(At(S)) \in Nat
BY RequestPathAssumption, FS_Subset, FS_CardinalityType DEF At

\* A request that enters the set adds one, one that leaves takes one away.
LEMMA MoveStage ==
  ASSUME NEW r \in Requests, NEW to, NEW S,
         stage \in [Requests -> Stages],
         stage' = [stage EXCEPT ![r] = to]
  PROVE  /\ (stage[r] \in S <=> to \in S) => Cardinality(At(S)') = Cardinality(At(S))
         /\ stage[r] \notin S /\ to \in S
              => Cardinality(At(S)') = Cardinality(At(S)) + 1
         /\ stage[r] \in S /\ to \notin S
              => Cardinality(At(S)') = Cardinality(At(S)) - 1
<1>1. CASE stage[r] \in S <=> to \in S
  <2>1. At(S)' = At(S)
    BY <1>1 DEF At
  <2>2. QED
    BY <1>1, <2>1
<1>2. CASE stage[r] \notin S /\ to \in S
  <2>1. At(S)' = At(S) \cup {r} /\ r \notin At(S)
    BY <1>2 DEF At
  <2>2. QED
    BY <1>2, <2>1, AtFinite, FS_AddElement
<1>3. CASE stage[r] \in S /\ to \notin S
  <2>1. At(S)' = At(S) \ {r} /\ r \in At(S)
    BY <1>3 DEF At
  <2>2. QED
    BY <1>3, <2>1, AtFinite, FS_RemoveElement
<1>4. QED
  BY <1>1, <1>2, <1>3

\* Every step keeps arrivals balanced with what was counted, lost or on its way.
LEMMA AccountStep == AccountInv /\ [Next]_vars => AccountInv'
<1> SUFFICES ASSUME AccountInv, [Next]_vars PROVE AccountInv'
  OBVIOUS
<1> DEFINE N == Cardinality(At(Uncounted))
<1>0. /\ stage \in [Requests -> Stages] /\ arrivals \in Nat
      /\ requestsTotal \in Nat /\ panics \in Nat
      /\ arrivals = requestsTotal + panics + N
      /\ N \in Nat
  BY AtFinite DEF AccountInv, StageInv, RequestsAccounted, Uncounted
<1>1. ASSUME stage' \in [Requests -> Stages],
             UNCHANGED <<arrivals, requestsTotal, panics>>, N' = N
      PROVE  AccountInv'
  BY <1>0, <1>1 DEF AccountInv, StageInv, RequestsAccounted, Uncounted
<1>2. ASSUME NEW r \in Requests, MarkFirstRequest(r) PROVE AccountInv'
  <2>0. /\ stage[r] \notin Uncounted /\ "marked" \in Uncounted
        /\ stage' = [stage EXCEPT ![r] = "marked"]
    BY <1>2 DEF MarkFirstRequest, Uncounted
  <2>1. N' = N + 1
    BY <1>0, <2>0, MoveStage
  <2>2. stage' \in [Requests -> Stages] /\ arrivals' = arrivals + 1
        /\ UNCHANGED <<requestsTotal, panics>>
    BY <1>0, <1>2 DEF MarkFirstRequest, Stages
  <2>3. QED
    BY <1>0, <2>1, <2>2 DEF AccountInv, StageInv, RequestsAccounted, Uncounted
<1>3. ASSUME NEW r \in Requests, CountRequest(r) PROVE AccountInv'
  <2>0. /\ stage[r] \in Uncounted /\ "total" \notin Uncounted
        /\ stage' = [stage EXCEPT ![r] = "total"]
    BY <1>3 DEF CountRequest, Uncounted
  <2>1. N' = N - 1
    BY <1>0, <2>0, MoveStage
  <2>2. stage' \in [Requests -> Stages] /\ requestsTotal' = requestsTotal + 1
        /\ UNCHANGED <<arrivals, panics>>
    BY <1>0, <1>3 DEF CountRequest, Stages, historyVars
  <2>3. QED
    BY <1>0, <2>1, <2>2 DEF AccountInv, StageInv, RequestsAccounted, Uncounted
<1>4. ASSUME NEW r \in Requests, FunctionPanics(r) PROVE AccountInv'
  <2>0. /\ stage[r] \in Uncounted /\ "leaving" \notin Uncounted
        /\ stage' = [stage EXCEPT ![r] = "leaving"]
    BY <1>4 DEF FunctionPanics, Uncounted
  <2>1. N' = N - 1
    BY <1>0, <2>0, MoveStage
  <2>2. stage' \in [Requests -> Stages] /\ panics' = panics + 1
        /\ UNCHANGED <<arrivals, requestsTotal>>
    BY <1>0, <1>4 DEF FunctionPanics, Stages, metricVars
  <2>3. QED
    BY <1>0, <2>1, <2>2 DEF AccountInv, StageInv, RequestsAccounted, Uncounted
<1>5. ASSUME NEW r \in Requests,
             \/ EnterInFlight(r) \/ EnterLimiter(r) \/ SkipLimiter(r)
             \/ JudgeRequest(r) \/ AnswerRefused(r) \/ Authorize(r)
             \/ AnswerUnauthorized(r) \/ FunctionReturns(r)
      PROVE  AccountInv'
  <2>1. PICK to \in Uncounted : /\ stage[r] \in Uncounted
                                /\ stage' = [stage EXCEPT ![r] = to]
    BY <1>5 DEF EnterInFlight, EnterLimiter, SkipLimiter, JudgeRequest,
       AnswerRefused, Authorize, AnswerUnauthorized, FunctionReturns, Advance,
       Answer, Uncounted
  <2>2. UNCHANGED <<arrivals, requestsTotal, panics>>
    BY <1>5 DEF EnterInFlight, EnterLimiter, SkipLimiter, JudgeRequest,
       AnswerRefused, Authorize, AnswerUnauthorized, FunctionReturns, Advance,
       Answer, metricVars, historyVars
  <2>3. N' = N
    BY <1>0, <2>1, MoveStage
  <2>4. stage' \in [Requests -> Stages]
    BY <1>0, <2>1 DEF Uncounted, Stages
  <2>5. QED
    BY <1>1, <2>2, <2>3, <2>4
<1>6. ASSUME NEW r \in Requests, ObserveFirstRequest(r) \/ LeaveInFlight(r)
      PROVE  AccountInv'
  <2>1. PICK to \in Stages \ Uncounted : /\ stage[r] \notin Uncounted
                                         /\ stage' = [stage EXCEPT ![r] = to]
    BY <1>6 DEF ObserveFirstRequest, LeaveInFlight, Uncounted, Stages
  <2>2. UNCHANGED <<arrivals, requestsTotal, panics>>
    BY <1>6 DEF ObserveFirstRequest, LeaveInFlight, historyVars
  <2>3. N' = N
    BY <1>0, <2>1, MoveStage
  <2>4. QED
    BY <1>0, <1>1, <2>1, <2>2, <2>3
<1>7. ASSUME NEW p \in Probes,
             \/ ReadyLoadsFlag(p) \/ ReadyStatsLock(p) \/ ReadyLoadsStarted(p)
             \/ ReadyLoadsCompleted(p) \/ ReadyEndpoint(p) \/ ReadyFunctionEnds(p)
      PROVE  AccountInv'
  <2>1. UNCHANGED <<stage, arrivals, requestsTotal, panics>>
    BY <1>7 DEF ReadyLoadsFlag, ReadyStatsLock, ReadyLoadsStarted,
       ReadyLoadsCompleted, ReadyEndpoint, ReadyFunctionEnds, ProbeGoes,
       requestVars, metricVars, historyVars
  <2>2. N' = N
    BY <2>1 DEF At
  <2>3. QED
    BY <1>0, <1>1, <2>1, <2>2
<1>8. CASE LifeGoesOn \/ UNCHANGED vars
  <2>1. UNCHANGED <<stage, arrivals, requestsTotal, panics>>
    BY <1>8 DEF LifeGoesOn, vars, requestVars, metricVars, historyVars
  <2>2. N' = N
    BY <2>1 DEF At
  <2>3. QED
    BY <1>0, <1>1, <2>1, <2>2
<1>9. QED
  BY <1>2, <1>3, <1>4, <1>5, <1>6, <1>7, <1>8 DEF Next, Terminated

\* At first no request has arrived.
LEMMA AccountInit == Init => AccountInv
<1> SUFFICES ASSUME Init PROVE AccountInv
  OBVIOUS
<1>1. At(Uncounted) = {}
  BY DEF Init, At, Uncounted
<1>2. Cardinality(At(Uncounted)) = 0
  BY <1>1, FS_EmptySet
<1>3. QED
  BY <1>2 DEF Init, AccountInv, StageInv, RequestsAccounted, Uncounted, Stages

\* Every request that arrived is on its way, counted once, or panicked.
THEOREM Accounted == Spec => []RequestsAccounted
<1>1. AccountInv => RequestsAccounted
  BY DEF AccountInv
<1>2. QED
  BY <1>1, AccountInit, AccountStep, PTL DEF Spec

\* The requests that hold the claim on the first-request sample.
Claimants == {r \in Requests : first[r]}

Lost == IF firstLost THEN 1 ELSE 0

\* What the claim needs: types, and that no request outside the stack holds it.
FirstInv ==
  /\ stage \in [Requests -> Stages]
  /\ first \in [Requests -> BOOLEAN]
  /\ firstRequestRecorded \in BOOLEAN
  /\ firstLost \in BOOLEAN
  /\ status \in [Requests -> Codes]
  /\ firstSamples \in Seq(Codes)
  /\ \A r \in Requests : stage[r] \in {"idle", "leaving"} => ~first[r]
  /\ Len(firstSamples) + Cardinality(Claimants) + Lost
       = IF firstRequestRecorded THEN 1 ELSE 0

\* Claimants are finitely many; with none of them their number is zero.
LEMMA ClaimantsFinite ==
  /\ IsFiniteSet(Claimants)
  /\ Cardinality(Claimants) \in Nat
  /\ Cardinality(Claimants) = 0 => Claimants = {}
BY RequestPathAssumption, FS_Subset, FS_CardinalityType, FS_EmptySet DEF Claimants

\* A request that gives up its claim, if it had one.
LEMMA GiveUpClaim ==
  ASSUME NEW r \in Requests, first \in [Requests -> BOOLEAN],
         first' = [first EXCEPT ![r] = FALSE]
  PROVE  /\ first[r] => Cardinality(Claimants') = Cardinality(Claimants) - 1
         /\ ~first[r] => Claimants' = Claimants
<1>1. Claimants' = Claimants \ {r}
  BY DEF Claimants
<1>2. r \in Claimants <=> first[r]
  BY DEF Claimants
<1>3. CASE first[r]
  BY <1>1, <1>2, <1>3, ClaimantsFinite, FS_RemoveElement
<1>4. CASE ~first[r]
  BY <1>1, <1>2, <1>4
<1>5. QED
  BY <1>3, <1>4

\* The claim moves only when it is made, observed or lost, once each.
LEMMA FirstStep == FirstInv /\ [Next]_vars => FirstInv'
<1> SUFFICES ASSUME FirstInv, [Next]_vars PROVE FirstInv'
  OBVIOUS
<1> DEFINE N == Cardinality(Claimants)
           L == Len(firstSamples)
<1>0. /\ stage \in [Requests -> Stages] /\ first \in [Requests -> BOOLEAN]
      /\ firstRequestRecorded \in BOOLEAN /\ firstLost \in BOOLEAN
      /\ status \in [Requests -> Codes] /\ firstSamples \in Seq(Codes)
      /\ N \in Nat /\ L \in Nat
      /\ \A r \in Requests : stage[r] \in {"idle", "leaving"} => ~first[r]
  BY ClaimantsFinite DEF FirstInv
<1>1. ASSUME stage' \in [Requests -> Stages], status' \in [Requests -> Codes],
             UNCHANGED <<first, firstRequestRecorded, firstSamples, firstLost>>,
             \A r \in Requests : stage'[r] \in {"idle", "leaving"} => ~first[r]
      PROVE  FirstInv'
  BY <1>1 DEF FirstInv, Claimants, Lost
<1>2. ASSUME NEW r \in Requests, MarkFirstRequest(r) PROVE FirstInv'
  <2>1. /\ stage[r] = "idle" /\ ~first[r]
        /\ first' = [first EXCEPT ![r] = ~firstRequestRecorded]
        /\ firstRequestRecorded' = TRUE
        /\ stage' = [stage EXCEPT ![r] = "marked"]
        /\ UNCHANGED <<status, firstSamples, firstLost>>
    BY <1>0, <1>2 DEF MarkFirstRequest
  <2>2. /\ stage' \in [Requests -> Stages] /\ first' \in [Requests -> BOOLEAN]
        /\ \A q \in Requests : stage'[q] \in {"idle", "leaving"} => ~first'[q]
    BY <1>0, <2>1 DEF Stages
  <2>3. CASE firstRequestRecorded
    <3>1. Claimants' = Claimants
      BY <1>0, <2>1, <2>3 DEF Claimants
    <3>2. QED
      BY <1>0, <2>1, <2>2, <2>3, <3>1 DEF FirstInv, Lost
  <2>4. CASE ~firstRequestRecorded
    <3>1. N = 0 /\ L = 0 /\ ~firstLost
      BY <1>0, <2>4 DEF FirstInv, Lost
    <3>2. Claimants = {}
      BY <3>1, ClaimantsFinite
    <3>3. Claimants' = {r}
      BY <1>0, <2>1, <2>4, <3>2 DEF Claimants
    <3>4. N' = 1
      BY <3>3, FS_Singleton
    <3>5. QED
      BY <1>0, <2>1, <2>2, <3>1, <3>4 DEF FirstInv, Lost
  <2>5. QED
    BY <2>3, <2>4
<1>3. ASSUME NEW r \in Requests, ObserveFirstRequest(r) PROVE FirstInv'
  <2>1. /\ first' = [first EXCEPT ![r] = FALSE]
        /\ firstSamples' = IF first[r] THEN Append(firstSamples, status[r])
                                       ELSE firstSamples
        /\ stage' = [stage EXCEPT ![r] = "leaving"]
        /\ UNCHANGED <<status, firstRequestRecorded, firstLost>>
    BY <1>3 DEF ObserveFirstRequest, historyVars
  <2>2. /\ stage' \in [Requests -> Stages] /\ first' \in [Requests -> BOOLEAN]
        /\ \A q \in Requests : stage'[q] \in {"idle", "leaving"} => ~first'[q]
    BY <1>0, <2>1 DEF Stages
  <2>3. CASE first[r]
    <3>1. N' = N - 1
      BY <1>0, <2>1, <2>3, GiveUpClaim
    <3>2. firstSamples' = Append(firstSamples, status[r]) /\ status[r] \in Codes
      BY <1>0, <2>1, <2>3
    <3>3. L' = L + 1 /\ firstSamples' \in Seq(Codes)
      BY <1>0, <3>2
    <3>4. QED
      BY <1>0, <2>1, <2>2, <3>1, <3>3 DEF FirstInv, Lost
  <2>4. CASE ~first[r]
    <3>1. Claimants' = Claimants
      BY <1>0, <2>1, <2>4, GiveUpClaim
    <3>2. QED
      BY <1>0, <2>1, <2>2, <2>4, <3>1 DEF FirstInv, Lost
  <2>5. QED
    BY <2>3, <2>4
<1>4. ASSUME NEW r \in Requests, FunctionPanics(r) PROVE FirstInv'
  <2>1. /\ first' = [first EXCEPT ![r] = FALSE]
        /\ stage' = [stage EXCEPT ![r] = "leaving"]
        /\ UNCHANGED <<status, firstRequestRecorded, firstSamples>>
    BY <1>4 DEF FunctionPanics, metricVars
  <2>2. firstLost' = IF first[r] THEN TRUE ELSE firstLost
    BY <1>4 DEF FunctionPanics
  <2>3. /\ stage' \in [Requests -> Stages] /\ first' \in [Requests -> BOOLEAN]
        /\ \A q \in Requests : stage'[q] \in {"idle", "leaving"} => ~first'[q]
    BY <1>0, <2>1 DEF Stages
  <2>4. CASE first[r]
    <3>1. N' = N - 1
      BY <1>0, <2>1, <2>4, GiveUpClaim
    <3>2. ~firstLost
      <4>1. r \in Claimants
        BY <2>4 DEF Claimants
      <4>2. N # 0
        BY <4>1, ClaimantsFinite
      <4>3. QED
        BY <1>0, <4>2 DEF FirstInv, Lost
    <3>3. firstLost' = TRUE
      BY <2>2, <2>4
    <3>4. QED
      BY <1>0, <2>1, <2>3, <3>1, <3>2, <3>3 DEF FirstInv, Lost
  <2>5. CASE ~first[r]
    <3>1. Claimants' = Claimants
      BY <1>0, <2>1, <2>5, GiveUpClaim
    <3>2. firstLost' = firstLost
      BY <1>0, <2>2, <2>5
    <3>3. QED
      BY <1>0, <2>1, <2>3, <3>1, <3>2 DEF FirstInv, Lost
  <2>6. QED
    BY <2>4, <2>5
<1>5. ASSUME NEW r \in Requests,
             \/ EnterInFlight(r) \/ EnterLimiter(r) \/ SkipLimiter(r)
             \/ JudgeRequest(r) \/ Authorize(r) \/ CountRequest(r)
      PROVE  FirstInv'
  <2>1. PICK to \in Stages \ {"idle", "leaving"} : stage' = [stage EXCEPT ![r] = to]
    BY <1>5 DEF EnterInFlight, EnterLimiter, SkipLimiter, JudgeRequest, Authorize,
       CountRequest, Advance, Stages
  <2>2. UNCHANGED <<status, first, firstRequestRecorded, firstSamples, firstLost>>
    BY <1>5 DEF EnterInFlight, EnterLimiter, SkipLimiter, JudgeRequest, Authorize,
       CountRequest, Advance, metricVars, historyVars
  <2>3. QED
    BY <1>0, <1>1, <2>1, <2>2
<1>6. ASSUME NEW r \in Requests,
             AnswerRefused(r) \/ AnswerUnauthorized(r) \/ FunctionReturns(r)
      PROVE  FirstInv'
  <2>1. PICK code \in Codes : Answer(r, code)
    BY <1>6 DEF AnswerRefused, AnswerUnauthorized, FunctionReturns, Codes
  <2>2. /\ stage' = [stage EXCEPT ![r] = "answered"]
        /\ status' = [status EXCEPT ![r] = code]
        /\ UNCHANGED <<first, firstRequestRecorded, firstSamples, firstLost>>
    BY <2>1 DEF Answer, metricVars, historyVars
  <2>3. QED
    BY <1>0, <1>1, <2>2 DEF Stages
<1>7. ASSUME NEW r \in Requests, LeaveInFlight(r) PROVE FirstInv'
  <2>1. /\ stage[r] = "leaving" /\ stage' = [stage EXCEPT ![r] = "idle"]
        /\ status' = [status EXCEPT ![r] = "none"]
        /\ UNCHANGED <<first, firstRequestRecorded, firstSamples, firstLost>>
    BY <1>7 DEF LeaveInFlight, historyVars
  <2>2. QED
    BY <1>0, <1>1, <2>1 DEF Stages, Codes
<1>8. ASSUME NEW p \in Probes,
             \/ ReadyLoadsFlag(p) \/ ReadyStatsLock(p) \/ ReadyLoadsStarted(p)
             \/ ReadyLoadsCompleted(p) \/ ReadyEndpoint(p) \/ ReadyFunctionEnds(p)
      PROVE  FirstInv'
  <2>1. UNCHANGED <<requestVars, metricVars, historyVars>>
    BY <1>8 DEF ReadyLoadsFlag, ReadyStatsLock, ReadyLoadsStarted,
       ReadyLoadsCompleted, ReadyEndpoint, ReadyFunctionEnds, ProbeGoes
  <2>2. QED
    BY <1>0, <1>1, <2>1 DEF requestVars, metricVars, historyVars
<1>9. CASE LifeGoesOn \/ UNCHANGED vars
  <2>1. UNCHANGED <<requestVars, metricVars, historyVars>>
    BY <1>9 DEF LifeGoesOn, vars
  <2>2. QED
    BY <1>0, <1>1, <2>1 DEF requestVars, metricVars, historyVars
<1>10. QED
  BY <1>2, <1>3, <1>4, <1>5, <1>6, <1>7, <1>8, <1>9 DEF Next, Terminated

\* At first no request has the claim, and no sample has been observed.
LEMMA FirstInit == Init => FirstInv
<1> SUFFICES ASSUME Init PROVE FirstInv
  OBVIOUS
<1>1. Claimants = {}
  BY DEF Init, Claimants
<1>2. Cardinality(Claimants) = 0
  BY <1>1, FS_EmptySet
<1>3. <<>> \in Seq(Codes) /\ Len(<<>>) = 0
  OBVIOUS
<1>4. firstSamples = <<>> /\ firstRequestRecorded = FALSE /\ firstLost = FALSE
  BY DEF Init
<1>5. /\ stage \in [Requests -> Stages] /\ first \in [Requests -> BOOLEAN]
      /\ status \in [Requests -> Codes]
      /\ \A r \in Requests : ~first[r]
  BY DEF Init, Stages, Codes
<1>6. /\ firstSamples \in Seq(Codes) /\ Len(firstSamples) = 0
      /\ firstRequestRecorded \in BOOLEAN /\ firstLost \in BOOLEAN /\ Lost = 0
  BY <1>3, <1>4 DEF Lost
<1>7. Len(firstSamples) + Cardinality(Claimants) + Lost
        = IF firstRequestRecorded THEN 1 ELSE 0
  BY <1>2, <1>4, <1>6
<1>8. QED
  BY <1>5, <1>6, <1>7 DEF FirstInv

\* The first-request sample is claimed by one request and observed at most once.
THEOREM FirstClaimed == Spec => []FirstSampleClaimedOnce
<1>1. FirstInv => FirstSampleClaimedOnce
  BY DEF FirstInv, FirstSampleClaimedOnce, Claimants, Lost
<1>2. QED
  BY <1>1, FirstInit, FirstStep, PTL DEF Spec

\* The limiter in the stack meets the assumption of the limiter's own proofs.
LEMMA LimiterAssumed == LimiterProofs!LimiterAssumption
<1>1. LimiterProofs!IsFiniteSet(Requests)
  BY RequestPathAssumption DEF LimiterProofs!IsFiniteSet, IsFiniteSet
<1>2. LimiterProofs!Cardinality(Requests) = Cardinality(Requests)
  BY DEF LimiterProofs!Cardinality, Cardinality
<1>3. QED
  BY <1>1, <1>2, RequestPathAssumption DEF LimiterProofs!LimiterAssumption

\* The limiter of the stack and the limiter of the proofs are one module, which the
\* provers do not know by themselves: their actions are the same.
LEMMA SameActions ==
  /\ \A r \in Requests :
       /\ Limiter!TakeTicket(r) => LimiterProofs!TakeTicket(r)
       /\ Limiter!CheckLimit(r) => LimiterProofs!CheckLimit(r)
       /\ Limiter!Refuse(r) => LimiterProofs!Refuse(r)
       /\ Limiter!Complete(r) => LimiterProofs!Complete(r)
       /\ Limiter!BackendPanic(r) => LimiterProofs!BackendPanic(r)
  /\ \A p \in Probes :
       /\ Limiter!MetLoadStarted(p) => LimiterProofs!MetLoadStarted(p)
       /\ Limiter!MetLoadCompleted(p) => LimiterProofs!MetLoadCompleted(p)
<1> USE DEF Limiter!metVars, LimiterProofs!metVars, Limiter!limiterVars,
            LimiterProofs!limiterVars, Limiter!Diff, LimiterProofs!Diff,
            Limiter!Inc, LimiterProofs!Inc
<1>1. ASSUME NEW r \in Requests
      PROVE  /\ Limiter!TakeTicket(r) => LimiterProofs!TakeTicket(r)
             /\ Limiter!CheckLimit(r) => LimiterProofs!CheckLimit(r)
             /\ Limiter!Refuse(r) => LimiterProofs!Refuse(r)
             /\ Limiter!Complete(r) => LimiterProofs!Complete(r)
             /\ Limiter!BackendPanic(r) => LimiterProofs!BackendPanic(r)
  BY DEF Limiter!TakeTicket, LimiterProofs!TakeTicket, Limiter!CheckLimit,
     LimiterProofs!CheckLimit, Limiter!Refuse, LimiterProofs!Refuse, Limiter!Complete,
     LimiterProofs!Complete, Limiter!BackendPanic, LimiterProofs!BackendPanic
<1>2. ASSUME NEW p \in Probes
      PROVE  /\ Limiter!MetLoadStarted(p) => LimiterProofs!MetLoadStarted(p)
             /\ Limiter!MetLoadCompleted(p) => LimiterProofs!MetLoadCompleted(p)
  BY DEF Limiter!MetLoadStarted, LimiterProofs!MetLoadStarted,
     Limiter!MetLoadCompleted, LimiterProofs!MetLoadCompleted
<1>3. QED
  BY <1>1, <1>2

\* Every step of the stack is one of the limiter's or leaves its counters alone,
\* whatever surrounds it.
LEMMA LimiterStep == [Next]_vars => [LimiterProofs!Next]_(LimiterProofs!vars)
<1> SUFFICES ASSUME [Next]_vars
             PROVE  LimiterProofs!Next \/ UNCHANGED limiterVars
  BY DEF LimiterProofs!vars, LimiterProofs!limiterVars, LimiterProofs!metVars, limiterVars
<1>1. ASSUME NEW r \in Requests,
             \/ MarkFirstRequest(r) \/ EnterInFlight(r) \/ SkipLimiter(r) \/ Authorize(r)
             \/ CountRequest(r) \/ ObserveFirstRequest(r) \/ LeaveInFlight(r)
      PROVE  UNCHANGED limiterVars
  BY <1>1 DEF MarkFirstRequest, EnterInFlight, SkipLimiter, Authorize, CountRequest,
     ObserveFirstRequest, LeaveInFlight
<1>2. ASSUME NEW r \in Requests,
             \/ EnterLimiter(r) \/ JudgeRequest(r) \/ AnswerRefused(r)
             \/ AnswerUnauthorized(r) \/ FunctionReturns(r) \/ FunctionPanics(r)
      PROVE  LimiterProofs!Next \/ UNCHANGED limiterVars
  <2>1. \/ Limiter!TakeTicket(r) \/ Limiter!CheckLimit(r) \/ Limiter!Refuse(r)
        \/ Limiter!Complete(r) \/ Limiter!BackendPanic(r) \/ UNCHANGED limiterVars
    BY <1>2 DEF EnterLimiter, JudgeRequest, AnswerRefused, AnswerUnauthorized,
       FunctionReturns, FunctionPanics, ReturnToLimiter
  <2>2. QED
    BY <2>1, SameActions DEF LimiterProofs!Next
<1>3. ASSUME NEW p \in Probes,
             \/ ReadyLoadsFlag(p) \/ ReadyStatsLock(p) \/ ReadyLoadsStarted(p)
             \/ ReadyLoadsCompleted(p) \/ ReadyEndpoint(p) \/ ReadyFunctionEnds(p)
      PROVE  LimiterProofs!Next \/ UNCHANGED limiterVars
  <2>1. \/ Limiter!MetLoadStarted(p) \/ Limiter!MetLoadCompleted(p)
        \/ UNCHANGED limiterVars
    BY <1>3 DEF ReadyLoadsFlag, ReadyStatsLock, ReadyLoadsStarted, ReadyLoadsCompleted,
       ReadyEndpoint, ReadyFunctionEnds
  <2>2. QED
    BY <2>1, SameActions DEF LimiterProofs!Next
<1>4. CASE LifeGoesOn \/ UNCHANGED vars
  BY <1>4 DEF LifeGoesOn, vars
<1>5. QED
  BY <1>1, <1>2, <1>3, <1>4 DEF Next, Terminated

\* What the limiter's proofs say of it holds of the limiter in the stack.
LEMMA LimiterKept ==
  Spec => []/\ LimiterProofs!TypeOK
            /\ LimiterProofs!TicketsConserved
            /\ LimiterProofs!LimitHoldsUnlessOvertaken
<1>1. Init => LimiterProofs!Init
  BY DEF Init, Limiter!Init, LimiterProofs!Init
<1>2. Spec => LimiterProofs!Spec
  BY <1>1, LimiterStep, PTL DEF Spec, LimiterProofs!Spec
<1>3. LimiterProofs!Spec => []LimiterProofs!TypeOK
  BY LimiterAssumed, LimiterProofs!TypeCorrect
<1>4. LimiterProofs!Spec => []LimiterProofs!TicketsConserved
  BY LimiterAssumed, LimiterProofs!Conservation
<1>5. LimiterProofs!Spec => []LimiterProofs!LimitHoldsUnlessOvertaken
  BY LimiterAssumed, LimiterProofs!LimitSafe
<1>6. QED
  BY <1>2, <1>3, <1>4, <1>5, PTL

\* The stages in which the gauge counts a request.
Instrumented ==
  {"counted", "limiter", "refused", "auth", "function", "answered", "total", "leaving"}

\* Where the limiter has a request that is at a stage of the stack.
InLimiter(at) ==
  IF ~cfg.limited THEN "idle" ELSE
  CASE at = "limiter"               -> "checking"
    [] at = "refused"               -> "refused"
    [] at \in {"auth", "function"} -> "serving"
    [] OTHER                        -> "idle"

\* The stack and the limiter agree on where a request is and on how many panicked,
\* the gauge counts who is inside, and a probe goes on only past the flag.
StackInv ==
  /\ cfg \in Configs
  /\ stage \in [Requests -> Stages]
  /\ \A r \in Requests : pc[r] = InLimiter(stage[r])
  /\ panics \in 0..MaxPanics /\ (cfg.limited => lost = panics)
  /\ arrivals \in 0..MaxArrivals
  /\ inFlight = Cardinality(At(Instrumented))

\* The flag is 1 only after main has set it, and 0 for good after a stop that was not
\* early; a probe is past the flag only then.
ProbeInv ==
  /\ cfg \in Configs
  /\ mainPc \in {"lock", "accept", "waiting"} /\ sigPc \in {"select", "remove", "tick"}
  /\ acceptingConnections \in {0, 1} /\ lockFile \in BOOLEAN /\ earlyStop \in BOOLEAN
  /\ acceptingConnections # 0 => mainPc = "waiting"
  /\ sigPc # "select" /\ ~earlyStop => mainPc = "waiting" /\ acceptingConnections = 0
  /\ probeStage \in [Probes -> {"idle", "lock", "met", "endpoint", "function"}]
  /\ answer \in [Probes -> {"none", "200", "429", "500", "503"}]
  /\ \A p \in Probes :
       probeStage[p] # "idle" \/ answer[p] \in {"200", "429", "500"} => mainPc = "waiting"

\* Every step keeps the stack and the limiter together, and the gauge exact.
LEMMA StackStep == StackInv /\ LimiterProofs!TypeOK /\ [Next]_vars => StackInv'
<1> SUFFICES ASSUME StackInv, LimiterProofs!TypeOK, [Next]_vars PROVE StackInv'
  OBVIOUS
<1> DEFINE N == Cardinality(At(Instrumented))
           Agree == \A r \in Requests : pc[r] = InLimiter(stage[r])
<1>0. /\ cfg \in Configs /\ stage \in [Requests -> Stages] /\ Agree
      /\ panics \in 0..MaxPanics /\ (cfg.limited => lost = panics)
      /\ arrivals \in 0..MaxArrivals /\ inFlight = N /\ N \in Nat
      /\ pc \in [Requests -> LimiterProofs!ServePc]
      /\ MaxPanics \in Nat /\ MaxArrivals \in Nat
  BY AtFinite, RequestPathAssumption DEF StackInv, LimiterProofs!TypeOK
<1>1. ASSUME NEW r \in Requests, NEW to \in Stages, cfg' = cfg,
             stage' = [stage EXCEPT ![r] = to], pc'[r] = InLimiter(to),
             \A q \in Requests \ {r} : pc'[q] = pc[q]
      PROVE  cfg' \in Configs /\ stage' \in [Requests -> Stages] /\ Agree'
  BY <1>0, <1>1 DEF InLimiter
<1>2. ASSUME NEW r \in Requests, MarkFirstRequest(r) PROVE StackInv'
  <2>1. /\ stage[r] = "idle" /\ stage' = [stage EXCEPT ![r] = "marked"]
        /\ arrivals' \in 0..MaxArrivals
        /\ UNCHANGED <<cfg, pc, lost, inFlight, panics>>
    BY <1>0, <1>2 DEF MarkFirstRequest, limiterVars
  <2>2. N' = N
    <3>1. stage[r] \notin Instrumented /\ "marked" \notin Instrumented
      BY <2>1 DEF Instrumented
    <3>2. QED
      BY <1>0, <2>1, <3>1, MoveStage
  <2>3. pc'[r] = InLimiter("marked") /\ "marked" \in Stages
    BY <1>0, <2>1 DEF InLimiter, Stages
  <2>4. QED
    BY <1>0, <1>1, <2>1, <2>2, <2>3 DEF StackInv
<1>3. ASSUME NEW r \in Requests, EnterInFlight(r) PROVE StackInv'
  <2>1. /\ stage[r] = "marked" /\ stage' = [stage EXCEPT ![r] = "counted"]
        /\ inFlight' = inFlight + 1
        /\ UNCHANGED <<cfg, pc, lost, arrivals, panics>>
    BY <1>3 DEF EnterInFlight, limiterVars, historyVars
  <2>2. N' = N + 1
    <3>1. stage[r] \notin Instrumented /\ "counted" \in Instrumented
      BY <2>1 DEF Instrumented
    <3>2. QED
      BY <1>0, <2>1, <3>1, MoveStage
  <2>3. pc'[r] = InLimiter("counted") /\ "counted" \in Stages
    BY <1>0, <2>1 DEF InLimiter, Stages
  <2>4. QED
    BY <1>0, <1>1, <2>1, <2>2, <2>3 DEF StackInv
<1>4. ASSUME NEW r \in Requests, LeaveInFlight(r) PROVE StackInv'
  <2>1. /\ stage[r] = "leaving" /\ stage' = [stage EXCEPT ![r] = "idle"]
        /\ inFlight' = inFlight - 1
        /\ UNCHANGED <<cfg, pc, lost, arrivals, panics>>
    BY <1>4 DEF LeaveInFlight, limiterVars, historyVars
  <2>2. N' = N - 1
    <3>1. stage[r] \in Instrumented /\ "idle" \notin Instrumented
      BY <2>1 DEF Instrumented
    <3>2. QED
      BY <1>0, <2>1, <3>1, MoveStage
  <2>3. pc'[r] = InLimiter("idle") /\ "idle" \in Stages
    BY <1>0, <2>1 DEF InLimiter, Stages
  <2>4. QED
    BY <1>0, <1>1, <2>1, <2>2, <2>3 DEF StackInv
<1>5. ASSUME NEW r \in Requests, NEW to \in Instrumented, stage[r] \in Instrumented,
             stage' = [stage EXCEPT ![r] = to], pc'[r] = InLimiter(to),
             \A q \in Requests \ {r} : pc'[q] = pc[q],
             UNCHANGED <<cfg, inFlight, arrivals>>,
             panics' \in 0..MaxPanics, cfg.limited => lost' = panics'
      PROVE  StackInv'
  <2>1. N' = N
    BY <1>0, <1>5, MoveStage
  <2>2. to \in Stages
    BY DEF Instrumented, Stages
  <2>3. QED
    BY <1>0, <1>1, <1>5, <2>1, <2>2 DEF StackInv
<1>6. ASSUME NEW r \in Requests,
             \/ SkipLimiter(r) \/ Authorize(r) \/ CountRequest(r) \/ ObserveFirstRequest(r)
      PROVE  StackInv'
  <2>1. PICK to \in Instrumented :
          /\ stage[r] \in Instrumented /\ stage' = [stage EXCEPT ![r] = to]
          /\ InLimiter(to) = InLimiter(stage[r])
    BY <1>6 DEF SkipLimiter, Authorize, CountRequest, ObserveFirstRequest, Advance,
       Instrumented, InLimiter
  <2>2. UNCHANGED <<cfg, pc, lost, inFlight, arrivals, panics>>
    BY <1>6 DEF SkipLimiter, Authorize, CountRequest, ObserveFirstRequest, Advance,
       limiterVars, metricVars, historyVars
  <2>3. QED
    BY <1>0, <1>5, <2>1, <2>2
<1>7. ASSUME NEW r \in Requests, EnterLimiter(r) PROVE StackInv'
  <2>1. /\ stage[r] = "counted" /\ stage' = [stage EXCEPT ![r] = "limiter"]
        /\ cfg.limited /\ pc' = [pc EXCEPT ![r] = "checking"]
        /\ UNCHANGED <<cfg, lost, inFlight, arrivals, panics>>
    BY <1>7 DEF EnterLimiter, Limiter!TakeTicket, Advance, metricVars, historyVars
  <2>2. pc'[r] = InLimiter("limiter")
    BY <1>0, <2>1 DEF InLimiter
  <2>3. QED
    BY <1>0, <1>5, <2>1, <2>2 DEF Instrumented
<1>8. ASSUME NEW r \in Requests, JudgeRequest(r) PROVE StackInv'
  <2>1. /\ stage[r] = "limiter" /\ pc[r] = "checking"
        /\ \/ pc' = [pc EXCEPT ![r] = "refused"] /\ stage' = [stage EXCEPT ![r] = "refused"]
           \/ pc' = [pc EXCEPT ![r] = "serving"] /\ stage' = [stage EXCEPT ![r] = "auth"]
        /\ UNCHANGED <<cfg, lost, inFlight, arrivals, panics>>
    BY <1>0, <1>8 DEF JudgeRequest, Limiter!CheckLimit, Advance, metricVars, historyVars
  <2>2. cfg.limited
    <3>1. InLimiter(stage[r]) = "checking"
      BY <1>0, <2>1
    <3>2. QED
      BY <3>1 DEF InLimiter
  <2>3. QED
    BY <1>0, <1>5, <2>1, <2>2 DEF Instrumented, InLimiter
<1>9. ASSUME NEW r \in Requests,
             AnswerRefused(r) \/ AnswerUnauthorized(r) \/ FunctionReturns(r)
      PROVE  StackInv'
  <2>1. /\ stage[r] \in {"refused", "auth", "function"}
        /\ stage' = [stage EXCEPT ![r] = "answered"]
        /\ UNCHANGED <<cfg, inFlight, arrivals, panics>>
    BY <1>9 DEF AnswerRefused, AnswerUnauthorized, FunctionReturns, Answer,
       metricVars, historyVars
  <2>2. /\ pc' = [pc EXCEPT ![r] = "idle"] \/ (~cfg.limited /\ pc' = pc)
        /\ UNCHANGED lost
    BY <1>9 DEF AnswerRefused, AnswerUnauthorized, FunctionReturns, ReturnToLimiter,
       Limiter!Refuse, Limiter!Complete, limiterVars
  <2>3. pc'[r] = InLimiter("answered")
    <3>1. InLimiter("answered") = "idle"
      BY DEF InLimiter
    <3>2. ~cfg.limited => pc[r] = "idle"
      BY <1>0 DEF InLimiter
    <3>3. QED
      BY <1>0, <2>2, <3>1, <3>2
  <2>4. QED
    BY <1>0, <1>5, <2>1, <2>2, <2>3 DEF Instrumented
<1>10. ASSUME NEW r \in Requests, FunctionPanics(r) PROVE StackInv'
  <2>1. /\ stage[r] = "function" /\ stage' = [stage EXCEPT ![r] = "leaving"]
        /\ panics' \in 0..MaxPanics /\ panics' = panics + 1
        /\ UNCHANGED <<cfg, inFlight, arrivals>>
    BY <1>0, <1>10 DEF FunctionPanics, metricVars
  <2>2. \/ cfg.limited /\ pc' = [pc EXCEPT ![r] = "idle"] /\ lost' = lost + 1
        \/ ~cfg.limited /\ pc' = pc
    BY <1>10 DEF FunctionPanics, Limiter!BackendPanic, limiterVars
  <2>3. pc'[r] = InLimiter("leaving")
    <3>1. InLimiter("leaving") = "idle"
      BY DEF InLimiter
    <3>2. ~cfg.limited => pc[r] = "idle"
      BY <1>0 DEF InLimiter
    <3>3. QED
      BY <1>0, <2>2, <3>1, <3>2
  <2>4. QED
    BY <1>0, <1>5, <2>1, <2>2, <2>3 DEF Instrumented
<1>11. ASSUME NEW p \in Probes,
              \/ ReadyLoadsFlag(p) \/ ReadyStatsLock(p) \/ ReadyLoadsStarted(p)
              \/ ReadyLoadsCompleted(p) \/ ReadyEndpoint(p) \/ ReadyFunctionEnds(p)
       PROVE  UNCHANGED <<cfg, stage, pc, lost, inFlight, arrivals, panics>>
  BY <1>11 DEF ReadyLoadsFlag, ReadyStatsLock, ReadyLoadsStarted, ReadyLoadsCompleted,
     ReadyEndpoint, ReadyFunctionEnds, ProbeGoes, Limiter!MetLoadStarted,
     Limiter!MetLoadCompleted, Limiter!limiterVars, limiterVars, metricVars, requestVars,
     historyVars
<1>12. ASSUME UNCHANGED <<cfg, stage, pc, lost, inFlight, arrivals, panics>> PROVE StackInv'
  <2>1. N' = N
    BY <1>12 DEF At
  <2>2. QED
    BY <1>0, <1>12, <2>1 DEF StackInv, InLimiter
<1>13. CASE LifeGoesOn \/ UNCHANGED vars
  BY <1>12, <1>13 DEF LifeGoesOn, vars, limiterVars, metricVars, requestVars, historyVars
<1>14. QED
  BY <1>2, <1>3, <1>4, <1>6, <1>7, <1>8, <1>9, <1>10, <1>11, <1>12, <1>13
  DEF Next, Terminated

\* Every step keeps a probe behind the flag that it has seen, or on its way past it.
LEMMA ProbeStep == ProbeInv /\ [Next]_vars => ProbeInv'
<1> SUFFICES ASSUME ProbeInv, [Next]_vars PROVE ProbeInv'
  OBVIOUS
<1> USE DEF ProbeInv
<1>1. ASSUME NEW r \in Requests,
             \/ MarkFirstRequest(r) \/ EnterInFlight(r) \/ EnterLimiter(r)
             \/ SkipLimiter(r) \/ JudgeRequest(r) \/ AnswerRefused(r) \/ Authorize(r)
             \/ AnswerUnauthorized(r) \/ FunctionReturns(r) \/ FunctionPanics(r)
             \/ CountRequest(r) \/ ObserveFirstRequest(r) \/ LeaveInFlight(r)
      PROVE  UNCHANGED <<cfg, life, probeStage, answer>>
  BY <1>1 DEF MarkFirstRequest, EnterInFlight, EnterLimiter, SkipLimiter, JudgeRequest,
     AnswerRefused, Authorize, AnswerUnauthorized, FunctionReturns, FunctionPanics,
     CountRequest, ObserveFirstRequest, LeaveInFlight, Advance, Answer, probeVars
<1>2. ASSUME NEW p \in Probes,
             NEW to \in {"idle", "lock", "met", "endpoint", "function"},
             NEW code \in {"none", "200", "429", "500", "503"}, ProbeGoes(p, to, code),
             to # "idle" \/ code \in {"200", "429", "500"} => mainPc = "waiting"
      PROVE  ProbeInv'
  BY <1>2 DEF ProbeGoes, life
<1>3. ASSUME NEW p \in Probes, ReadyLoadsFlag(p) PROVE ProbeInv'
  BY <1>2, <1>3 DEF ReadyLoadsFlag
<1>4. ASSUME NEW p \in Probes, ReadyStatsLock(p) PROVE ProbeInv'
  BY <1>2, <1>4 DEF ReadyStatsLock
<1>5. ASSUME NEW p \in Probes, ReadyLoadsStarted(p) PROVE ProbeInv'
  BY <1>2, <1>5 DEF ReadyLoadsStarted
<1>6. ASSUME NEW p \in Probes, ReadyLoadsCompleted(p) PROVE ProbeInv'
  BY <1>2, <1>6 DEF ReadyLoadsCompleted
<1>7. ASSUME NEW p \in Probes, ReadyEndpoint(p) PROVE ProbeInv'
  BY <1>2, <1>7 DEF ReadyEndpoint
<1>8. ASSUME NEW p \in Probes, ReadyFunctionEnds(p) PROVE ProbeInv'
  BY <1>2, <1>8 DEF ReadyFunctionEnds
<1>9. CASE LifeGoesOn
  <2>1. UNCHANGED <<cfg, probeStage, answer>>
    BY <1>9 DEF LifeGoesOn, probeVars
  <2>2. CASE WriteLockFile
    <3>1. cfg.suppressLock \in BOOLEAN
      BY RequestPathAssumption DEF Config
    <3>2. lockFile' \in BOOLEAN
      BY <2>2, <3>1, Zenon DEF WriteLockFile
    <3>3. QED
      BY <2>1, <2>2, <3>2 DEF WriteLockFile
  <2>3. CASE AcceptConnections
    BY <2>1, <2>3 DEF AcceptConnections
  <2>4. CASE StopAccepting
    BY <2>1, <2>4 DEF StopAccepting
  <2>5. CASE RemoveLockFile
    BY <2>1, <2>5 DEF RemoveLockFile
  <2>6. QED
    BY <1>9, <2>2, <2>3, <2>4, <2>5 DEF LifeGoesOn
<1>10. CASE UNCHANGED vars
  BY <1>10 DEF vars, probeVars, life
<1>11. CASE UNCHANGED <<cfg, life, probeStage, answer>>
  BY <1>11 DEF life
<1>12. QED
  BY <1>1, <1>11, <1>3, <1>4, <1>5, <1>6, <1>7, <1>8, <1>9, <1>10 DEF Next, Terminated

\* The stack agrees with its limiter in every behaviour.
LEMMA StackKept == Spec => []StackInv
<1>1. Init => StackInv
  <2> SUFFICES ASSUME Init PROVE StackInv
    OBVIOUS
  <2>1. At(Instrumented) = {}
    BY DEF Init, At, Instrumented
  <2>2. Cardinality(At(Instrumented)) = 0
    BY <2>1, FS_EmptySet
  <2>3. \A r \in Requests : pc[r] = InLimiter(stage[r])
    BY DEF Init, Limiter!Init, InLimiter
  <2>4. 0 \in 0..MaxPanics /\ 0 \in 0..MaxArrivals
    BY RequestPathAssumption
  <2>5. QED
    BY <2>2, <2>3, <2>4 DEF Init, Limiter!Init, StackInv, Stages
<1>2. QED
  BY <1>1, StackStep, LimiterKept, PTL DEF Spec

\* The probes are where the flag allows in every behaviour.
LEMMA ProbesKept == Spec => []ProbeInv
<1>1. Init => ProbeInv
  <2> SUFFICES ASSUME Init PROVE ProbeInv
    OBVIOUS
  <2>1. cfg \in Configs /\ cfg.staleLock \in BOOLEAN
    BY RequestPathAssumption DEF Init, Config
  <2>2. lockFile \in BOOLEAN
    BY <2>1, Zenon DEF Init
  <2>3. QED
    BY <2>1, <2>2 DEF Init, ProbeInv
<1>2. QED
  BY <1>1, ProbeStep, PTL DEF Spec

\* A probe finds the service ready, or busy, or is sent on to the function only after
\* main has set the flag, whatever lock file there is.
THEOREM ReadyAfterAccepting == Spec => []ReadyOnlyOnceAccepting
<1>1. ProbeInv => ReadyOnlyOnceAccepting
  BY DEF ProbeInv, ReadyOnlyOnceAccepting
<1>2. QED
  BY <1>1, ProbesKept, PTL

\* After a stop that was not early no probe gets past the flag any more.
THEOREM StopTurnsProbesAway == Spec => StopEndsReadiness
<1> DEFINE TurnedAway == \A p \in Probes :
             sigPc # "select" /\ ~earlyStop /\ probeStage[p] = "idle"
               => probeStage'[p] = "idle"
<1>1. ProbeInv /\ Next => TurnedAway
  <2> HAVE ProbeInv /\ Next
  <2> TAKE p \in Probes
  <2> HAVE sigPc # "select" /\ ~earlyStop /\ probeStage[p] = "idle"
  <2>1. /\ acceptingConnections = 0
        /\ probeStage \in [Probes -> {"idle", "lock", "met", "endpoint", "function"}]
    BY DEF ProbeInv
  <2>2. ASSUME NEW q \in Probes, q # p, NEW to, NEW code, ProbeGoes(q, to, code)
        PROVE  probeStage'[p] = "idle"
    BY <2>1, <2>2 DEF ProbeGoes
  <2>3. CASE \E q \in Probes :
               \/ ReadyLoadsFlag(q) \/ ReadyStatsLock(q) \/ ReadyLoadsStarted(q)
               \/ ReadyLoadsCompleted(q) \/ ReadyEndpoint(q) \/ ReadyFunctionEnds(q)
    <3>1. PICK q \in Probes :
               \/ ReadyLoadsFlag(q) \/ ReadyStatsLock(q) \/ ReadyLoadsStarted(q)
               \/ ReadyLoadsCompleted(q) \/ ReadyEndpoint(q) \/ ReadyFunctionEnds(q)
      BY <2>3
    <3>2. \E to, code : ProbeGoes(q, to, code)
      BY <3>1 DEF ReadyLoadsFlag, ReadyStatsLock, ReadyLoadsStarted, ReadyLoadsCompleted,
         ReadyEndpoint, ReadyFunctionEnds
    <3>3. CASE q = p
      <4>1. ReadyLoadsFlag(p)
        BY <3>1, <3>3 DEF ReadyStatsLock, ReadyLoadsStarted, ReadyLoadsCompleted,
           ReadyEndpoint, ReadyFunctionEnds
      <4>2. QED
        BY <2>1, <4>1 DEF ReadyLoadsFlag, ProbeGoes
    <3>4. QED
      BY <2>2, <3>2, <3>3
  <2>4. CASE \E r \in Requests :
               \/ MarkFirstRequest(r) \/ EnterInFlight(r) \/ EnterLimiter(r)
               \/ SkipLimiter(r) \/ JudgeRequest(r) \/ AnswerRefused(r) \/ Authorize(r)
               \/ AnswerUnauthorized(r) \/ FunctionReturns(r) \/ FunctionPanics(r)
               \/ CountRequest(r) \/ ObserveFirstRequest(r) \/ LeaveInFlight(r)
    BY <2>4 DEF MarkFirstRequest, EnterInFlight, EnterLimiter, SkipLimiter, JudgeRequest,
       AnswerRefused, Authorize, AnswerUnauthorized, FunctionReturns, FunctionPanics,
       CountRequest, ObserveFirstRequest, LeaveInFlight, Advance, Answer, probeVars
  <2>5. CASE LifeGoesOn \/ Terminated
    BY <2>5 DEF LifeGoesOn, Terminated, vars, probeVars
  <2>6. QED
    BY <2>3, <2>4, <2>5 DEF Next
<1>2. ProbeInv /\ [Next]_vars => [TurnedAway]_vars
  BY <1>1
<1>3. QED
  BY <1>2, ProbesKept, PTL DEF Spec, StopEndsReadiness

\* The accounts of the requests and of the first sample hold in every behaviour.
LEMMA AccountsKept == Spec => [](AccountInv /\ FirstInv)
BY AccountInit, AccountStep, FirstInit, FirstStep, PTL DEF Spec

\* The stack, its limiter, the metrics and the probes keep their types.
THEOREM TypeCorrect == Spec => []TypeOK
<1>1. StackInv /\ ProbeInv /\ AccountInv /\ FirstInv /\ LimiterProofs!TypeOK => TypeOK
  <2> SUFFICES ASSUME StackInv, ProbeInv, AccountInv, FirstInv, LimiterProofs!TypeOK
               PROVE  TypeOK
    OBVIOUS
  <2>1. Limiter!TypeOK
    BY DEF LimiterProofs!TypeOK, Limiter!TypeOK, LimiterProofs!Counter, Limiter!Counter,
       LimiterProofs!ServePc, Limiter!ServePc
  <2>2. inFlight \in Nat
    BY AtFinite DEF StackInv
  <2>3. /\ cfg \in Configs /\ panics \in 0..MaxPanics /\ arrivals \in 0..MaxArrivals
        /\ requestsTotal \in Nat
    BY DEF StackInv, AccountInv, StageInv
  <2>4. /\ stage \in [Requests -> Stages] /\ status \in [Requests -> Codes]
        /\ first \in [Requests -> BOOLEAN] /\ firstRequestRecorded \in BOOLEAN
        /\ firstSamples \in Seq(Codes) /\ firstLost \in BOOLEAN
    BY DEF FirstInv
  <2>5. QED
    BY <2>1, <2>2, <2>3, <2>4 DEF TypeOK, ProbeInv
<1>2. QED
  BY <1>1, StackKept, ProbesKept, AccountsKept, LimiterKept, PTL

\* The gauge covers every ticket that the limiter has given out, save those lost to
\* panics, for any number of clients and across wrap-around of the counters.
THEOREM GaugeCovers == Spec => []GaugeCoversTickets
<1>1. StackInv /\ LimiterProofs!TicketsConserved => GaugeCoversTickets
  <2> SUFFICES ASSUME StackInv, LimiterProofs!TicketsConserved, cfg.limited
               PROVE  Limiter!Diff(requestsStarted, requestsCompleted) <= inFlight + panics
    BY DEF GaugeCoversTickets
  <2>1. Limiter!Diff(requestsStarted, requestsCompleted)
          = Cardinality(LimiterProofs!Inside) + panics
    <3>1. LimiterProofs!Cardinality(LimiterProofs!Inside) = Cardinality(LimiterProofs!Inside)
      BY DEF LimiterProofs!Cardinality, Cardinality
    <3>2. LimiterProofs!Diff(requestsStarted, requestsCompleted)
            = Limiter!Diff(requestsStarted, requestsCompleted)
      BY DEF LimiterProofs!Diff, Limiter!Diff
    <3>3. lost = panics
      BY DEF StackInv
    <3>4. QED
      BY <3>1, <3>2, <3>3 DEF LimiterProofs!TicketsConserved
  <2>2. LimiterProofs!Inside \subseteq At(Instrumented)
    BY DEF LimiterProofs!Inside, At, Instrumented, StackInv, InLimiter
  <2>3. /\ Cardinality(LimiterProofs!Inside) <= inFlight
        /\ Cardinality(LimiterProofs!Inside) \in Nat /\ inFlight \in Nat
    BY <2>2, AtFinite, FS_Subset, FS_CardinalityType DEF StackInv
  <2>4. panics \in Nat
    BY DEF StackInv
  <2>5. QED
    BY <2>1, <2>3, <2>4
<1>2. QED
  BY <1>1, StackKept, LimiterKept, PTL

\* Without an overtaking in the limiter, the function serves at most MaxInflight
\* clients behind limiter and JWT.
THEOREM ClientsWithinLimit == Spec => []ClientCallsWithinLimit
<1>1. StackInv /\ LimiterProofs!LimitHoldsUnlessOvertaken => ClientCallsWithinLimit
  <2> SUFFICES ASSUME StackInv, LimiterProofs!LimitHoldsUnlessOvertaken,
                      cfg.limited, ~overtaken
               PROVE  Cardinality(At({"function"})) <= MaxInflight
    BY DEF ClientCallsWithinLimit
  <2>1. Cardinality(LimiterProofs!Serving) <= MaxInflight
    BY DEF LimiterProofs!LimitHoldsUnlessOvertaken, LimiterProofs!Cardinality, Cardinality
  <2>2. At({"function"}) \subseteq LimiterProofs!Serving
    BY DEF LimiterProofs!Serving, At, StackInv, InLimiter
  <2>3. LimiterProofs!Serving \subseteq Requests
    BY DEF LimiterProofs!Serving
  <2>4. IsFiniteSet(LimiterProofs!Serving)
    BY <2>3, RequestPathAssumption, FS_Subset
  <2>5. /\ Cardinality(At({"function"})) <= Cardinality(LimiterProofs!Serving)
        /\ Cardinality(At({"function"})) \in Nat
        /\ Cardinality(LimiterProofs!Serving) \in Nat /\ MaxInflight \in Nat
    BY <2>2, <2>4, FS_Subset, FS_CardinalityType, RequestPathAssumption
  <2>6. QED
    BY <2>1, <2>5
<1>2. QED
  BY <1>1, StackKept, LimiterKept, PTL

=============================================================================
