-------------------------- MODULE ImportCacheProofs --------------------------
(***************************************************************************)
(* ImportCache's inductive invariant, and from it that a refresh is fresh, *)
(* that each import is answered once between two refreshes, and that only  *)
(* a refresh moves what is shown; for any callers, keys and versions.      *)
(* Then RefreshChain, which says when the next refresh comes: the loop of  *)
(* soonest finds the first tick any schedule is due on, for any number of  *)
(* schedules, and the page's timer is armed with it.                       *)
(***************************************************************************)
EXTENDS ImportCache, RefreshChain, SequenceTheorems, WellFoundedInduction, TLAPS

\* The invariant holds of an empty cache.
LEMMA InitIInv == Init => IInv
<1> SUFFICES ASSUME Init PROVE IInv
    OBVIOUS
<1> USE ImportAssumption DEF Init, Nothing, Versions, Values
<1>1. TypeOK
    BY DEF TypeOK, Methods
<1>2. Exclusive /\ Accounted /\ RefreshedPass
    BY DEF Exclusive, InSection, Accounted, RefreshedPass
<1>3. Kept /\ ShownKept
    BY DEF Kept, ShownKept
<1>4. RefreshIsFresh /\ AnsweredOnce
    BY DEF RefreshIsFresh, AnsweredOnce
<1> QED
    BY <1>1, <1>2, <1>3, <1>4 DEF IInv

\* Every step keeps the types.
LEMMA StepTypeOK == IInv /\ [Next]_vars => TypeOK'
<1> SUFFICES ASSUME IInv, [Next]_vars PROVE TypeOK'
    OBVIOUS
<1> USE ImportAssumption
    DEF IInv, TypeOK, Methods, Goto, callVars, passVars, Versions, Values, Nothing
<1>1. ASSUME NEW c \in Callers, Call(c) PROVE TypeOK'
    BY <1>1 DEF Call
<1>2. ASSUME NEW c \in Callers, Lock(c) PROVE TypeOK'
    BY <1>2 DEF Lock
<1>3. ASSUME NEW c \in Callers, Clear(c) PROVE TypeOK'
    BY <1>3 DEF Clear
<1>4. ASSUME NEW c \in Callers, BeginPass(c) PROVE TypeOK'
    BY <1>4 DEF BeginPass
<1>5. ASSUME NEW c \in Callers, NEW k \in Keys, Hit(c, k) PROVE TypeOK'
    BY <1>5 DEF Hit, Advance
<1>6. ASSUME NEW c \in Callers, NEW k \in Keys, Miss(c, k) PROVE TypeOK'
    BY <1>6 DEF Miss, Advance
<1>7. ASSUME NEW c \in Callers, NEW k \in Keys, Answer(c, k) PROVE TypeOK'
    BY <1>7 DEF Answer, Advance
<1>8. ASSUME NEW c \in Callers, NEW k \in Keys, FetchFails(c, k) PROVE TypeOK'
    BY <1>8 DEF FetchFails, Advance
<1>9. ASSUME NEW c \in Callers, NEW k \in Keys, Store(c, k) PROVE TypeOK'
    <2>1. got[c][k] \in Versions
        BY <1>9 DEF Store, Advance, Kept
    <2> QED
        BY <1>9, <2>1 DEF Store, Advance
<1>10. ASSUME NEW c \in Callers, Publish(c) PROVE TypeOK'
    BY <1>10 DEF Publish
<1>11. ASSUME NEW c \in Callers, Return(c) PROVE TypeOK'
    BY <1>11 DEF Return
<1>12. ASSUME NEW k \in Keys, OriginChanges(k) PROVE TypeOK'
    BY <1>12 DEF OriginChanges
<1>13. CASE UNCHANGED vars
    BY <1>13 DEF vars, callVars, passVars
<1> QED
    BY <1>1, <1>2, <1>3, <1>4, <1>5, <1>6, <1>7, <1>8, <1>9, <1>10, <1>11, <1>12, <1>13
    DEF Next, Run, FetchStep

\* Every step keeps the passes to the holder of mu.
LEMMA StepExclusive == IInv /\ [Next]_vars => Exclusive'
<1> SUFFICES ASSUME IInv, [Next]_vars PROVE Exclusive'
    OBVIOUS
<1> USE ImportAssumption
    DEF IInv, TypeOK, Exclusive, InSection, Goto, callVars, passVars
<1>1. ASSUME NEW c \in Callers, Call(c) PROVE Exclusive'
    BY <1>1 DEF Call
<1>2. ASSUME NEW c \in Callers, Lock(c) PROVE Exclusive'
    BY <1>2 DEF Lock
<1>3. ASSUME NEW c \in Callers, Clear(c) PROVE Exclusive'
    BY <1>3 DEF Clear
<1>4. ASSUME NEW c \in Callers, BeginPass(c) PROVE Exclusive'
    BY <1>4 DEF BeginPass
<1>5. ASSUME NEW c \in Callers, NEW k \in Keys, Hit(c, k) PROVE Exclusive'
    BY <1>5 DEF Hit, Advance
<1>6. ASSUME NEW c \in Callers, NEW k \in Keys, Miss(c, k) PROVE Exclusive'
    BY <1>6 DEF Miss, Advance
<1>7. ASSUME NEW c \in Callers, NEW k \in Keys, Answer(c, k) PROVE Exclusive'
    BY <1>7 DEF Answer, Advance
<1>8. ASSUME NEW c \in Callers, NEW k \in Keys, FetchFails(c, k) PROVE Exclusive'
    BY <1>8 DEF FetchFails, Advance
<1>9. ASSUME NEW c \in Callers, NEW k \in Keys, Store(c, k) PROVE Exclusive'
    BY <1>9 DEF Store, Advance
<1>10. ASSUME NEW c \in Callers, Publish(c) PROVE Exclusive'
    BY <1>10 DEF Publish
<1>11. ASSUME NEW c \in Callers, Return(c) PROVE Exclusive'
    BY <1>11 DEF Return
<1>12. ASSUME NEW k \in Keys, OriginChanges(k) PROVE Exclusive'
    BY <1>12 DEF OriginChanges
<1>13. CASE UNCHANGED vars
    BY <1>13 DEF vars, callVars, passVars
<1> QED
    BY <1>1, <1>2, <1>3, <1>4, <1>5, <1>6, <1>7, <1>8, <1>9, <1>10, <1>11, <1>12, <1>13
    DEF Next, Run, FetchStep

\* While one caller is inside a method, no other is, nor has a fetch under way.
LEMMA Alone ==
    ASSUME IInv, NEW c \in Callers, pc[c] \in InSection
    PROVE  \A d \in Callers : d # c =>
               pc[d] \in {"idle", "lock"} /\ \A k \in Keys : leg[d][k] = "done"
BY DEF IInv, TypeOK, Exclusive, InSection

\* Before a pass nobody has a fetch under way.
LEMMA AllDone ==
    ASSUME IInv, NEW c \in Callers, pc[c] \in {"clear", "begin"}
    PROVE  \A d \in Callers, k \in Keys : leg[d][k] = "done"
BY Alone DEF IInv, Exclusive, InSection

\* Every step keeps count of what the servers answered.
LEMMA StepAccounted == IInv /\ [Next]_vars => Accounted'
<1> SUFFICES ASSUME IInv, [Next]_vars PROVE Accounted'
    OBVIOUS
<1> USE ImportAssumption
    DEF IInv, TypeOK, Accounted, Goto, callVars, passVars, Versions, Values
<1>1. ASSUME NEW c \in Callers, Call(c) PROVE Accounted'
    BY <1>1 DEF Call
<1>2. ASSUME NEW c \in Callers, Lock(c) PROVE Accounted'
    BY <1>2 DEF Lock
<1>3. ASSUME NEW c \in Callers, Clear(c) PROVE Accounted'
    <2>1. \A d \in Callers, j \in Keys : leg[d][j] = "done"
        BY <1>3, AllDone DEF Clear
    <2> QED
        BY <1>3, <2>1 DEF Clear, Nothing
<1>4. ASSUME NEW c \in Callers, BeginPass(c) PROVE Accounted'
    <2>1. \A d \in Callers, j \in Keys : leg[d][j] = "done"
        BY <1>4, AllDone DEF BeginPass
    <2>2. \A d \in Callers, j \in Keys : leg'[d][j] \in {"load", "done"}
        BY <1>4, <2>1 DEF BeginPass
    <2> QED
        BY <1>4, <2>1, <2>2 DEF BeginPass
<1>5. ASSUME NEW c \in Callers, NEW k \in Keys, Hit(c, k) PROVE Accounted'
    BY <1>5 DEF Hit, Advance
<1>6. ASSUME NEW c \in Callers, NEW k \in Keys, Miss(c, k) PROVE Accounted'
    BY <1>6 DEF Miss, Advance
<1>7. ASSUME NEW c \in Callers, NEW k \in Keys, Answer(c, k) PROVE Accounted'
    <2>1. \A d \in Callers : leg[d][k] # "store"
        <3>1. leg[c][k] = "fetch" /\ pc[c] \in InSection
            BY <1>7 DEF Answer, Advance, InSection
        <3>2. ASSUME NEW d \in Callers, d # c PROVE leg[d][k] = "done"
            BY <3>1, <3>2, Alone
        <3> QED
            BY <3>1, <3>2
    <2>2. cache[k] = Missing /\ fills[k] = 0
        BY <1>7, <2>1 DEF Answer, Advance
    <2>3. fills'[k] = 1 /\ \E d \in Callers : leg'[d][k] = "store"
        BY <1>7, <2>2 DEF Answer, Advance
    <2>4. \A j \in Keys \ {k} : fills'[j] = fills[j] /\ \A d \in Callers : leg'[d][j] = leg[d][j]
        BY <1>7 DEF Answer, Advance
    <2>5. \A d \in Callers : leg'[d][k] \in {"fetch", "store"} => cache'[k] = Missing
        BY <1>7, <2>2 DEF Answer
    <2> QED
        BY <1>7, <2>2, <2>3, <2>4, <2>5 DEF Answer, Advance
<1>8. ASSUME NEW c \in Callers, NEW k \in Keys, FetchFails(c, k) PROVE Accounted'
    BY <1>8 DEF FetchFails, Advance
<1>9. ASSUME NEW c \in Callers, NEW k \in Keys, Store(c, k) PROVE Accounted'
    <2>1. got[c][k] \in 0..origin[k] /\ fills[k] = 1
        BY <1>9 DEF Store, Advance, Kept
    <2>2. \A d \in Callers : leg'[d][k] = "done"
        BY <1>9, Alone DEF Store, Advance, InSection
    <2>3. \A j \in Keys \ {k} : cache'[j] = cache[j] /\ \A d \in Callers : leg'[d][j] = leg[d][j]
        BY <1>9 DEF Store, Advance
    <2> QED
        BY <1>9, <2>1, <2>2, <2>3 DEF Store, Advance
<1>10. ASSUME NEW c \in Callers, Publish(c) PROVE Accounted'
    BY <1>10 DEF Publish
<1>11. ASSUME NEW c \in Callers, Return(c) PROVE Accounted'
    BY <1>11 DEF Return
<1>12. ASSUME NEW k \in Keys, OriginChanges(k) PROVE Accounted'
    BY <1>12 DEF OriginChanges
<1>13. CASE UNCHANGED vars
    BY <1>13 DEF vars, callVars, passVars
<1> QED
    BY <1>1, <1>2, <1>3, <1>4, <1>5, <1>6, <1>7, <1>8, <1>9, <1>10, <1>11, <1>12, <1>13
    DEF Next, Run, FetchStep

\* Every step leaves what a pass holds in the cache, or about to be stored.
LEMMA StepKept == IInv /\ [Next]_vars => Kept'
<1> SUFFICES ASSUME IInv, [Next]_vars PROVE Kept'
    OBVIOUS
<1> USE ImportAssumption
    DEF IInv, TypeOK, Kept, Goto, callVars, passVars, Versions, Values, Nothing
<1>1. ASSUME NEW c \in Callers, Call(c) PROVE Kept'
    BY <1>1 DEF Call
<1>2. ASSUME NEW c \in Callers, Lock(c) PROVE Kept'
    BY <1>2 DEF Lock
<1>3. ASSUME NEW c \in Callers, Clear(c) PROVE Kept'
    <2>1. \A d \in Callers, j \in Keys : leg[d][j] = "done" /\ pc[d] # "pass"
        BY <1>3, Alone DEF Clear, Exclusive, InSection
    <2> QED
        BY <1>3, <2>1 DEF Clear
<1>4. ASSUME NEW c \in Callers, BeginPass(c) PROVE Kept'
    BY <1>4 DEF BeginPass
<1>5. ASSUME NEW c \in Callers, NEW k \in Keys, Hit(c, k) PROVE Kept'
    BY <1>5 DEF Hit, Advance
<1>6. ASSUME NEW c \in Callers, NEW k \in Keys, Miss(c, k) PROVE Kept'
    BY <1>6 DEF Miss, Advance
<1>7. ASSUME NEW c \in Callers, NEW k \in Keys, Answer(c, k) PROVE Kept'
    BY <1>7 DEF Answer, Advance
<1>8. ASSUME NEW c \in Callers, NEW k \in Keys, FetchFails(c, k) PROVE Kept'
    BY <1>8 DEF FetchFails, Advance
<1>9. ASSUME NEW c \in Callers, NEW k \in Keys, Store(c, k) PROVE Kept'
    <2>1. \A d \in Callers : d # c => pc[d] # "pass" /\ leg[d][k] = "done"
        BY <1>9, Alone DEF Store, Advance, InSection
    <2>2. got[c][k] \in 0..origin[k] /\ cache'[k] = got[c][k]
        BY <1>9 DEF Store, Advance
    <2> QED
        BY <1>9, <2>1, <2>2 DEF Store, Advance
<1>10. ASSUME NEW c \in Callers, Publish(c) PROVE Kept'
    BY <1>10 DEF Publish
<1>11. ASSUME NEW c \in Callers, Return(c) PROVE Kept'
    <2>1. leg' = leg /\ \A d \in Callers : d # c => got'[d] = got[d] /\ pc'[d] = pc[d]
        BY <1>11 DEF Return
    <2>2. \A j \in Keys : leg[c][j] = "done" /\ got'[c][j] = Missing
        BY <1>11 DEF Return, Exclusive
    <2> QED
        BY <1>11, <2>1, <2>2 DEF Return
<1>12. ASSUME NEW k \in Keys, OriginChanges(k) PROVE Kept'
    BY <1>12 DEF OriginChanges
<1>13. CASE UNCHANGED vars
    BY <1>13 DEF vars, callVars, passVars
<1> QED
    BY <1>1, <1>2, <1>3, <1>4, <1>5, <1>6, <1>7, <1>8, <1>9, <1>10, <1>11, <1>12, <1>13
    DEF Next, Run, FetchStep

\* Every step keeps what a refresh holds no older than its call.
LEMMA StepRefreshedPass == IInv /\ [Next]_vars => RefreshedPass'
<1> SUFFICES ASSUME IInv, [Next]_vars PROVE RefreshedPass'
    OBVIOUS
<1> USE ImportAssumption
    DEF IInv, TypeOK, RefreshedPass, Goto, callVars, passVars, Versions, Values, Nothing
<1>1. ASSUME NEW c \in Callers, Call(c) PROVE RefreshedPass'
    BY <1>1 DEF Call
<1>2. ASSUME NEW c \in Callers, Lock(c) PROVE RefreshedPass'
    BY <1>2 DEF Lock
<1>3. ASSUME NEW c \in Callers, Clear(c) PROVE RefreshedPass'
    BY <1>3 DEF Clear
<1>4. ASSUME NEW c \in Callers, BeginPass(c) PROVE RefreshedPass'
    BY <1>4 DEF BeginPass
<1>5. ASSUME NEW c \in Callers, NEW k \in Keys, Hit(c, k) PROVE RefreshedPass'
    BY <1>5 DEF Hit, Advance
<1>6. ASSUME NEW c \in Callers, NEW k \in Keys, Miss(c, k) PROVE RefreshedPass'
    BY <1>6 DEF Miss, Advance
<1>7. ASSUME NEW c \in Callers, NEW k \in Keys, Answer(c, k) PROVE RefreshedPass'
    BY <1>7 DEF Answer, Advance
<1>8. ASSUME NEW c \in Callers, NEW k \in Keys, FetchFails(c, k) PROVE RefreshedPass'
    BY <1>8 DEF FetchFails, Advance
<1>9. ASSUME NEW c \in Callers, NEW k \in Keys, Store(c, k) PROVE RefreshedPass'
    <2>1. \A d \in Callers : d # c => pc[d] \in {"idle", "lock"}
        BY <1>9, Alone DEF Store, Advance, InSection
    <2>0. got[c][k] \in Versions
        BY <1>9 DEF Store, Advance, Kept
    <2>2. op[c] = "RefreshImports" => cache'[k] >= asOf[c][k]
        BY <1>9, <2>0 DEF Store, Advance
    <2>3. \A j \in Keys \ {k} : cache'[j] = cache[j]
        BY <1>9 DEF Store
    <2> QED
        BY <1>9, <2>1, <2>2, <2>3 DEF Store, Advance
<1>10. ASSUME NEW c \in Callers, Publish(c) PROVE RefreshedPass'
    <2>1. \A d \in Callers : d # c => pc[d] \in {"idle", "lock"}
        BY <1>10, Alone DEF Publish, InSection
    <2>2. \A d \in Callers : d # c => pc'[d] = pc[d]
        BY <1>10 DEF Publish
    <2>3. op[c] = "RefreshImports" => shown' = got[c]
        BY <1>10 DEF Publish
    <2> QED
        BY <1>10, <2>1, <2>2, <2>3 DEF Publish
<1>11. ASSUME NEW c \in Callers, Return(c) PROVE RefreshedPass'
    BY <1>11 DEF Return
<1>12. ASSUME NEW k \in Keys, OriginChanges(k) PROVE RefreshedPass'
    BY <1>12 DEF OriginChanges
<1>13. CASE UNCHANGED vars
    BY <1>13 DEF vars, callVars, passVars
<1> QED
    BY <1>1, <1>2, <1>3, <1>4, <1>5, <1>6, <1>7, <1>8, <1>9, <1>10, <1>11, <1>12, <1>13
    DEF Next, Run, FetchStep

\* Every step outside a refresh leaves what is shown in the cache.
LEMMA StepShownKept == IInv /\ [Next]_vars => ShownKept'
<1> SUFFICES ASSUME IInv, [Next]_vars PROVE ShownKept'
    OBVIOUS
<1> USE ImportAssumption
    DEF IInv, TypeOK, ShownKept, Refreshing, Goto, callVars, passVars, Versions, Values, Nothing
<1>1. ASSUME NEW c \in Callers, Call(c) PROVE ShownKept'
    BY <1>1 DEF Call
<1>2. ASSUME NEW c \in Callers, Lock(c) PROVE ShownKept'
    BY <1>2 DEF Lock
<1>3. ASSUME NEW c \in Callers, Clear(c) PROVE ShownKept'
    <2>1. op[c] = "RefreshImports" /\ pc'[c] = "begin"
        BY <1>3 DEF Clear, RefreshedPass
    <2> QED
        BY <1>3, <2>1 DEF Clear
<1>4. ASSUME NEW c \in Callers, BeginPass(c) PROVE ShownKept'
    BY <1>4 DEF BeginPass
<1>5. ASSUME NEW c \in Callers, NEW k \in Keys, Hit(c, k) PROVE ShownKept'
    BY <1>5 DEF Hit, Advance
<1>6. ASSUME NEW c \in Callers, NEW k \in Keys, Miss(c, k) PROVE ShownKept'
    BY <1>6 DEF Miss, Advance
<1>7. ASSUME NEW c \in Callers, NEW k \in Keys, Answer(c, k) PROVE ShownKept'
    BY <1>7 DEF Answer, Advance
<1>8. ASSUME NEW c \in Callers, NEW k \in Keys, FetchFails(c, k) PROVE ShownKept'
    BY <1>8 DEF FetchFails, Advance
<1>9. ASSUME NEW c \in Callers, NEW k \in Keys, Store(c, k) PROVE ShownKept'
    <2>1. Refreshing' = Refreshing /\ cache[k] = Missing
        BY <1>9 DEF Store, Advance, Accounted
    <2> QED
        BY <1>9, <2>1 DEF Store, Advance
<1>10. ASSUME NEW c \in Callers, Publish(c) PROVE ShownKept'
    <2>1. \A j \in Keys : got[c][j] \in Versions => cache[j] = got[c][j]
        BY <1>10 DEF Publish, Kept
    <2>2. \A d \in Callers : d # c => pc[d] \notin {"begin", "pass"}
        BY <1>10, Alone DEF Publish, InSection
    <2>3. op[c] # "RefreshImports" => ~Refreshing
        BY <2>2
    <2> QED
        BY <1>10, <2>1, <2>3 DEF Publish
<1>11. ASSUME NEW c \in Callers, Return(c) PROVE ShownKept'
    BY <1>11 DEF Return
<1>12. ASSUME NEW k \in Keys, OriginChanges(k) PROVE ShownKept'
    BY <1>12 DEF OriginChanges
<1>13. CASE UNCHANGED vars
    BY <1>13 DEF vars, callVars, passVars
<1> QED
    BY <1>1, <1>2, <1>3, <1>4, <1>5, <1>6, <1>7, <1>8, <1>9, <1>10, <1>11, <1>12, <1>13
    DEF Next, Run, FetchStep

\* The two properties are read off the invariant's parts.
LEMMA FreshAndOnce ==
    TypeOK /\ Accounted /\ RefreshedPass => RefreshIsFresh /\ AnsweredOnce
<1> SUFFICES ASSUME TypeOK, Accounted, RefreshedPass PROVE RefreshIsFresh /\ AnsweredOnce
    OBVIOUS
<1>1. RefreshIsFresh
    BY DEF TypeOK, RefreshedPass, RefreshIsFresh
<1>2. \A k \in Keys : fills[k] \in {0, 1}
    BY DEF TypeOK, Accounted
<1>3. AnsweredOnce
    BY <1>2 DEF AnsweredOnce
<1> QED
    BY <1>1, <1>3

\* IInv is inductive, so it holds of every reachable state.
THEOREM Invariance == Spec => []IInv
<1>1. Init => IInv
    BY InitIInv
<1>2. IInv /\ [Next]_vars => IInv'
    <2> SUFFICES ASSUME IInv, [Next]_vars PROVE IInv'
        OBVIOUS
    <2>1. TypeOK' /\ Exclusive' /\ Accounted' /\ RefreshedPass' /\ Kept' /\ ShownKept'
        BY StepTypeOK, StepExclusive, StepAccounted, StepRefreshedPass, StepKept, StepShownKept
    <2>2. RefreshIsFresh' /\ AnsweredOnce'
        BY <2>1, FreshAndOnce, PTL
    <2> QED
        BY <2>1, <2>2 DEF IInv
<1> QED
    BY <1>1, <1>2, PTL DEF Spec

\* No value a refresh answers with is older than the call, whoever was filling
\* the cache when it was made (RefreshImports takes the lock before it clears).
THEOREM Freshness == Spec => []RefreshIsFresh
<1>1. IInv => RefreshIsFresh
    BY DEF IInv
<1> QED
    BY <1>1, Invariance, PTL

\* Between two refreshes no import is fetched from its server twice, though
\* Cache.Fetch looks and stores under two holds of its lock.
THEOREM FetchedOnce == Spec => []AnsweredOnce
<1>1. IInv => AnsweredOnce
    BY DEF IInv
<1> QED
    BY <1>1, Invariance, PTL

\* A value shown is replaced by another only by the pass of a refresh.
THEOREM OnlyARefreshMoves == Spec => ImportsHoldStill
<1> DEFINE HoldStill ==
        \A k \in Keys :
            {shown[k], shown'[k]} \subseteq Versions /\ shown'[k] # shown[k] =>
                \E c \in Callers : mu = c /\ op[c] = "RefreshImports"
<1>1. IInv /\ [Next]_vars => [HoldStill]_vars
    <2> SUFFICES ASSUME IInv, Next PROVE HoldStill
        BY DEF vars
    <2>1. ASSUME NEW c \in Callers, Publish(c), op[c] # "RefreshImports" PROVE HoldStill
        <3>1. pc[c] = "pass" /\ \A d \in Callers : d # c => pc[d] \in {"idle", "lock"}
            BY <2>1, Alone DEF Publish, Goto, InSection
        <3>2. ~Refreshing
            BY <2>1, <3>1 DEF Refreshing
        <3>3. \A k \in Keys : shown[k] \in Versions => cache[k] = shown[k]
            BY <3>2 DEF IInv, ShownKept
        <3>4. \A k \in Keys : got[c][k] \in Versions => cache[k] = got[c][k]
            BY <2>1, <3>1 DEF IInv, Kept, Publish
        <3> QED
            BY <2>1, <3>3, <3>4 DEF Publish
    <2>2. ASSUME NEW c \in Callers, Publish(c), op[c] = "RefreshImports" PROVE HoldStill
        BY <2>2 DEF Publish, Goto, IInv, Exclusive, InSection
    <2>3. CASE UNCHANGED shown
        BY <2>3
    <2> QED
        BY <2>1, <2>2, <2>3
        DEF Next, Run, FetchStep, Call, Lock, Clear, BeginPass, Hit, Miss, Answer,
            FetchFails, Store, Return, OriginChanges, Advance
<1> QED
    BY <1>1, Invariance, PTL DEF Spec, ImportsHoldStill
-----------------------------------------------------------------------------
\* A nonempty set of naturals has a least member.
LEMMA LeastIn ==
    ASSUME NEW T \in SUBSET Nat, T # {}
    PROVE  \E j \in T : \A k \in T : j <= k
<1> DEFINE R == OpToRel(<, Nat)
<1>1. IsWellFoundedOn(R, Nat)
    BY NatLessThanWellFounded
<1>2. \A i, j \in Nat : <<i, j>> \in R <=> i < j
    BY DEF OpToRel
<1> HIDE DEF R
<1>3. PICK j \in T : \A k \in T : ~(<<k, j>> \in R)
    BY <1>1, WFMin
<1>4. ASSUME NEW k \in T PROVE j <= k
    <2>1. k \in Nat /\ j \in Nat /\ ~(k < j)
        BY <1>2, <1>3
    <2> QED
        BY <2>1
<1> QED
    BY <1>4

\* A set that has 0, and with each number the next, has them all.
LEMMA Inductively ==
    ASSUME NEW S, 0 \in S, \A n \in Nat : n \in S => n + 1 \in S
    PROVE  Nat \subseteq S
<1> SUFFICES ASSUME Nat \ S # {} PROVE FALSE
    OBVIOUS
<1>1. PICK j \in Nat \ S : \A k \in Nat \ S : j <= k
    BY LeastIn
<1>2. j \in Nat /\ j # 0
    OBVIOUS
<1>3. j - 1 \in Nat /\ ~(j <= j - 1) /\ (j - 1) + 1 = j
    BY <1>2
<1>4. j - 1 \in S
    BY <1>1, <1>3
<1> QED
    BY <1>3, <1>4

\* The loop of soonest, over the first n nexts.
IsBest(f, nexts, t, n) ==
    f = [i \in 0..n |-> IF i = 0 THEN 0 ELSE Earlier(f[i - 1], Delay(nexts[i], t))]

\* It is defined, of as many steps as there are nexts.
LEMMA BestExists ==
    ASSUME NEW nexts, NEW t, NEW n \in Nat
    PROVE  \E f : IsBest(f, nexts, t, n)
<1> DEFINE S == {m \in Nat : \E f : IsBest(f, nexts, t, m)}
<1>1. 0 \in S
    <2>1. IsBest([i \in 0..0 |-> 0], nexts, t, 0)
        BY DEF IsBest
    <2> QED
        BY <2>1
<1>2. ASSUME NEW m \in Nat, m \in S PROVE m + 1 \in S
    <2>1. PICK f : IsBest(f, nexts, t, m)
        BY <1>2
    <2> DEFINE last == Earlier(f[m], Delay(nexts[m + 1], t))
               g == [i \in 0..(m + 1) |-> IF i = m + 1 THEN last ELSE f[i]]
    <2>2. \A i \in 0..m : f[i] = IF i = 0 THEN 0 ELSE Earlier(f[i - 1], Delay(nexts[i], t))
        BY <2>1 DEF IsBest
    <2>3. g[m + 1] = last /\ \A i \in 0..m : g[i] = f[i]
        OBVIOUS
    <2>4. ASSUME NEW i \in 0..(m + 1)
          PROVE  g[i] = IF i = 0 THEN 0 ELSE Earlier(g[i - 1], Delay(nexts[i], t))
        <3>1. CASE i = m + 1
            <4>1. m \in 0..m /\ i # 0 /\ i - 1 = m /\ g[m] = f[m]
                BY <2>3, <3>1
            <4> QED
                BY <2>3, <3>1, <4>1
        <3>2. CASE i = 0
            BY <2>2, <2>3, <3>2
        <3>3. CASE i \in 1..m
            <4>1. i \in 0..m /\ i - 1 \in 0..m /\ i # 0
                BY <3>3
            <4>2. g[i] = f[i] /\ g[i - 1] = f[i - 1]
                BY <2>3, <4>1
            <4> QED
                BY <2>2, <4>1, <4>2
        <3> QED
            BY <3>1, <3>2, <3>3
    <2>5. IsBest(g, nexts, t, m + 1)
        <3> HIDE DEF last
        <3> QED
            BY <2>4 DEF IsBest
    <2>6. m + 1 \in Nat
        OBVIOUS
    <2> QED
        BY <2>5, <2>6
<1> QED
    BY <1>1, <1>2, Inductively

\* The best delay of the first nexts.
LEMMA SoonestIs ==
    ASSUME NEW nexts \in Seq(Nexts), NEW t \in Instants,
           \A next \in Nexts : Delay(next, t) \in 0..Day
    PROVE  LET s == Soonest(nexts, t)
               D(i) == Delay(nexts[i], t)
           IN  /\ s \in 0..Day
               /\ s = 0 => \A i \in DOMAIN nexts : D(i) = 0
               /\ s > 0 => \E i \in DOMAIN nexts : D(i) = s
               /\ \A i \in DOMAIN nexts : D(i) > 0 => s <= D(i)
<1> DEFINE n == Len(nexts)
           D(i) == Delay(nexts[i], t)
           best == CHOOSE f : IsBest(f, nexts, t, n)
           Best(m) ==
               /\ best[m] \in 0..Day
               /\ best[m] = 0 => \A i \in 1..m : D(i) = 0
               /\ best[m] > 0 => \E i \in 1..m : D(i) = best[m]
               /\ \A i \in 1..m : D(i) > 0 => best[m] <= D(i)
           S == {m \in Nat : m <= n => Best(m)}
<1>1. n \in Nat /\ DOMAIN nexts = 1..n /\ \A i \in 1..n : D(i) \in 0..Day
    <2>1. n \in Nat /\ DOMAIN nexts = 1..n /\ \A i \in 1..n : nexts[i] \in Nexts
        BY LenProperties, ElementOfSeq
    <2> QED
        BY <2>1
<1>2. IsBest(best, nexts, t, n)
    BY <1>1, BestExists
<1>3. best[0] = 0 /\ \A m \in 0..(n - 1) : best[m + 1] = Earlier(best[m], D(m + 1))
    <2> HIDE DEF best
    <2>1. \A i \in 0..n : best[i] = IF i = 0 THEN 0 ELSE Earlier(best[i - 1], Delay(nexts[i],
        t))
        BY <1>2 DEF IsBest
    <2>2. 0 \in 0..n /\ \A m \in 0..(n - 1) : m + 1 \in 0..n /\ m + 1 # 0 /\ (m + 1) - 1 = m
        BY <1>1
    <2> QED
        BY <2>1, <2>2
<1>4. Soonest(nexts, t) = best[n]
    BY DEF Soonest, IsBest
<1> HIDE DEF best, D
<1>5. Day \in Nat
    BY RefreshAssumption
<1>6. Best(0)
    BY <1>3, <1>5
<1>7. ASSUME NEW m \in 0..(n - 1), Best(m) PROVE Best(m + 1)
    <2>1. m \in Nat /\ m + 1 \in 1..n /\ D(m + 1) \in 0..Day /\ best[m] \in 0..Day
        BY <1>1, <1>7
    <2>2. \A i \in 1..(m + 1) : i = m + 1 \/ i \in 1..m
        BY <2>1
    <2>3. best[m + 1] = IF D(m + 1) > 0 /\ (best[m] = 0 \/ D(m + 1) < best[m])
                        THEN D(m + 1) ELSE best[m]
        BY <1>3, <1>7 DEF Earlier
    <2>4. CASE D(m + 1) > 0 /\ (best[m] = 0 \/ D(m + 1) < best[m])
        <3>1. best[m + 1] = D(m + 1) /\ D(m + 1) > 0 /\ m + 1 \in 1..(m + 1)
            BY <2>1, <2>3, <2>4
        <3>2. \A i \in 1..m : D(i) > 0 => D(m + 1) <= D(i)
            <4> SUFFICES ASSUME NEW i \in 1..m, D(i) > 0 PROVE D(m + 1) <= D(i)
                OBVIOUS
            <4>1. D(i) \in 0..Day
                BY <1>1, <2>1
            <4>2. best[m] # 0 /\ best[m] <= D(i)
                BY <1>7, <4>1
            <4> QED
                BY <1>5, <2>1, <2>4, <4>1, <4>2
        <3> QED
            BY <2>1, <2>2, <3>1, <3>2
    <2>5. CASE ~(D(m + 1) > 0 /\ (best[m] = 0 \/ D(m + 1) < best[m]))
        <3>1. best[m + 1] = best[m] /\ (D(m + 1) = 0 \/ best[m] # 0)
              /\ (D(m + 1) > 0 => best[m] <= D(m + 1))
            BY <1>5, <2>1, <2>3, <2>5
        <3>2. best[m] = 0 => \A i \in 1..(m + 1) : D(i) = 0
            BY <1>7, <2>2, <3>1
        <3>3. best[m] > 0 => \E i \in 1..(m + 1) : D(i) = best[m]
            BY <1>7, <2>1
        <3>4. \A i \in 1..(m + 1) : D(i) > 0 => best[m] <= D(i)
            BY <1>7, <2>2, <3>1
        <3> QED
            BY <2>1, <3>1, <3>2, <3>3, <3>4
    <2> QED
        BY <2>4, <2>5
<1>8. Nat \subseteq S
    <2> HIDE DEF Best
    <2>1. 0 \in S
        BY <1>6
    <2>2. ASSUME NEW m \in Nat, m \in S PROVE m + 1 \in S
        <3>1. CASE m + 1 <= n
            <4>1. m \in 0..(n - 1) /\ Best(m)
                BY <1>1, <2>2, <3>1
            <4> QED
                BY <1>7, <4>1
        <3>2. CASE ~(m + 1 <= n)
            BY <3>2
        <3> QED
            BY <3>1, <3>2
    <2> QED
        BY <2>1, <2>2, Inductively
<1>9. Best(n)
    <2> HIDE DEF Best
    <2> QED
        BY <1>1, <1>8
<1> QED
    BY <1>1, <1>4, <1>9 DEF D

\* A Next is due on the first of its instants, or never.
LEMMA DelayIs ==
    ASSUME NEW next \in Nexts, NEW t \in Instants
    PROVE  /\ Delay(next, t) \in 0..Day
           /\ Delay(next, t) = 0 => \A e \in 1..Day : ~DueAfter(next, t, e)
           /\ Delay(next, t) > 0 => DueAfter(next, t, Delay(next, t))
           /\ \A e \in 1..Day : DueAfter(next, t, e) => Delay(next, t) <= e
<1>1. CASE next.kind = "every"
    <2>1. next.d \in 1..Day /\ Day \in Nat
        BY <1>1, RefreshAssumption DEF Nexts
    <2> QED
        BY <1>1, <2>1 DEF Delay, DueAfter
<1>2. CASE next.kind = "pattern" /\ next.at = {}
    BY <1>2, RefreshAssumption DEF Delay, DueAfter
<1>3. CASE next.kind = "pattern" /\ next.at # {}
    <2> DEFINE Due == {d \in 1..Day : (t + d) % Day \in next.at}
    <2>1. /\ next.at \subseteq Instants /\ Day \in Nat /\ Day >= 1 /\ t \in 0..(Day - 1)
          /\ t \in Int
        BY <1>3, RefreshAssumption DEF Nexts, Instants
    <2>2. PICK a \in next.at : a \in 0..(Day - 1)
        BY <1>3, <2>1 DEF Instants
    <2>3. Due # {}
        <3>1. a % Day = a /\ (a + Day) % Day = a
            BY <2>1, <2>2
        <3>2. CASE a > t
            <4>1. a - t \in 1..Day /\ t + (a - t) = a
                BY <2>1, <2>2, <3>2
            <4> QED
                BY <3>1, <4>1
        <3>3. CASE a <= t
            <4>1. a + Day - t \in 1..Day /\ t + (a + Day - t) = a + Day
                BY <2>1, <2>2, <3>3
            <4> QED
                BY <3>1, <4>1
        <3> QED
            BY <2>1, <2>2, <3>2, <3>3
    <2>4. PICK d \in Due : \A e \in Due : d <= e
        <3>1. Due \in SUBSET Nat
            OBVIOUS
        <3> HIDE DEF Due
        <3> QED
            BY <2>3, <3>1, LeastIn
    <2>5. /\ d \in 1..Day /\ (t + d) % Day \in next.at
          /\ \A e \in 1..(d - 1) : (t + e) % Day \notin next.at
        <3>1. d \in 1..Day /\ (t + d) % Day \in next.at
            OBVIOUS
        <3>2. ASSUME NEW e \in 1..(d - 1), (t + e) % Day \in next.at PROVE FALSE
            <4>1. e \in 1..Day /\ ~(d <= e)
                BY <2>1, <3>1
            <4> QED
                BY <2>4, <3>2, <4>1
        <3> QED
            BY <3>1, <3>2
    <2> DEFINE First == CHOOSE f \in 1..Day :
                            /\ (t + f) % Day \in next.at
                            /\ \A e \in 1..(f - 1) : (t + e) % Day \notin next.at
    <2>6. /\ First \in 1..Day /\ (t + First) % Day \in next.at
          /\ \A e \in 1..(First - 1) : (t + e) % Day \notin next.at
        BY <2>5
    <2>7. Delay(next, t) = First
        BY <1>3 DEF Delay
    <2> HIDE DEF First
    <2>8. ASSUME NEW e \in 1..Day, (t + e) % Day \in next.at PROVE First <= e
        <3>1. e \notin 1..(First - 1)
            BY <2>6, <2>8
        <3> QED
            BY <2>1, <2>6, <3>1
    <2> QED
        BY <1>3, <2>1, <2>6, <2>7, <2>8 DEF DueAfter
<1> QED
    BY <1>1, <1>2, <1>3 DEF Nexts

\* soonest: the delay to the first tick any next is due on, 0 when none ever is.
LEMMA SoonestIsFirstDue ==
    ASSUME NEW nexts \in Seq(Nexts), NEW t \in Instants
    PROVE  LET s == Soonest(nexts, t)
               due == DueSet(nexts, t)
           IN  /\ s \in 0..Day
               /\ due = {} => s = 0
               /\ due # {} => s \in due /\ \A e \in due : s <= e
<1> DEFINE s == Soonest(nexts, t)
           due == DueSet(nexts, t)
           D(i) == Delay(nexts[i], t)
<1>1. \A next \in Nexts : Delay(next, t) \in 0..Day
    BY DelayIs
<1>2. /\ s \in 0..Day
      /\ s = 0 => \A i \in DOMAIN nexts : D(i) = 0
      /\ s > 0 => \E i \in DOMAIN nexts : D(i) = s
      /\ \A i \in DOMAIN nexts : D(i) > 0 => s <= D(i)
    BY <1>1, SoonestIs
<1>3. \A i \in DOMAIN nexts : nexts[i] \in Nexts
    BY LenProperties, ElementOfSeq
<1>4. \A i \in DOMAIN nexts :
          /\ D(i) \in 0..Day
          /\ D(i) = 0 => \A e \in 1..Day : ~DueAfter(nexts[i], t, e)
          /\ D(i) > 0 => DueAfter(nexts[i], t, D(i))
          /\ \A e \in 1..Day : DueAfter(nexts[i], t, e) => D(i) <= e
    BY <1>3, DelayIs
<1>5. Day \in Nat
    BY RefreshAssumption
<1> HIDE DEF s, D
<1>6. ASSUME s = 0 PROVE due = {}
    <2> SUFFICES ASSUME NEW e \in due PROVE FALSE
        OBVIOUS
    <2>1. PICK j \in DOMAIN nexts : e \in 1..Day /\ DueAfter(nexts[j], t, e)
        BY DEF DueSet
    <2>2. D(j) = 0
        BY <1>2, <1>6
    <2> QED
        BY <1>4, <2>1, <2>2
<1>7. ASSUME s > 0 PROVE s \in due /\ \A e \in due : s <= e
    <2>1. PICK i \in DOMAIN nexts : D(i) = s
        BY <1>2, <1>7
    <2>2. s \in 1..Day /\ DueAfter(nexts[i], t, s)
        BY <1>2, <1>4, <1>5, <1>7, <2>1
    <2>3. s \in due
        BY <2>2 DEF DueSet
    <2>4. ASSUME NEW e \in due PROVE s <= e
        <3>1. PICK j \in DOMAIN nexts : e \in 1..Day /\ DueAfter(nexts[j], t, e)
            BY DEF DueSet
        <3>2. D(j) \in 0..Day /\ D(j) <= e /\ D(j) # 0
            BY <1>4, <3>1
        <3>3. s <= D(j)
            BY <1>2, <1>5, <3>2
        <3> QED
            BY <1>2, <1>5, <3>1, <3>2, <3>3
    <2> QED
        BY <2>3, <2>4
<1>8. s = 0 \/ s > 0
    BY <1>2, <1>5
<1>9. due = {} => s = 0
    BY <1>7, <1>8
<1>10. due # {} => s \in due /\ \A e \in due : s <= e
    BY <1>6, <1>7, <1>8
<1> QED
    BY <1>2, <1>9, <1>10 DEF s

\* FlattenSeq, over the first n of the sequences.
IsFlat(f, seqs, n) == f = [i \in 1..n |-> IF i = 1 THEN seqs[i] ELSE f[i - 1] \o seqs[i]]

LEMMA FlatExists ==
    ASSUME NEW seqs, NEW n \in Nat
    PROVE  \E f : IsFlat(f, seqs, n)
<1> DEFINE S == {m \in Nat : \E f : IsFlat(f, seqs, m)}
<1>1. 0 \in S
    <2>1. IsFlat([i \in 1..0 |-> 0], seqs, 0)
        BY DEF IsFlat
    <2> QED
        BY <2>1
<1>2. ASSUME NEW m \in Nat, m \in S PROVE m + 1 \in S
    <2>1. PICK f : IsFlat(f, seqs, m)
        BY <1>2
    <2> DEFINE last == IF m = 0 THEN seqs[1] ELSE f[m] \o seqs[m + 1]
               g == [i \in 1..(m + 1) |-> IF i = m + 1 THEN last ELSE f[i]]
    <2>2. \A i \in 1..m : f[i] = IF i = 1 THEN seqs[i] ELSE f[i - 1] \o seqs[i]
        BY <2>1 DEF IsFlat
    <2>3. g[m + 1] = last /\ \A i \in 1..m : g[i] = f[i]
        <3> HIDE DEF last
        <3> QED
            OBVIOUS
    <2>4. ASSUME NEW i \in 1..(m + 1)
          PROVE  g[i] = IF i = 1 THEN seqs[i] ELSE g[i - 1] \o seqs[i]
        <3>1. CASE i = m + 1 /\ m = 0
            BY <2>3, <3>1
        <3>2. CASE i = m + 1 /\ m # 0
            <4>1. m \in 1..m /\ i # 1 /\ i - 1 = m /\ g[m] = f[m]
                BY <2>3, <3>2
            <4> QED
                BY <2>3, <3>2, <4>1
        <3>3. CASE i \in 1..m /\ i = 1
            BY <2>2, <2>3, <3>3
        <3>4. CASE i \in 1..m /\ i # 1
            <4>1. i - 1 \in 1..m
                BY <3>4
            <4>2. g[i] = f[i] /\ g[i - 1] = f[i - 1]
                BY <2>3, <3>4, <4>1
            <4> QED
                BY <2>2, <3>4, <4>2
        <3> QED
            BY <3>1, <3>2, <3>3, <3>4
    <2>5. IsFlat(g, seqs, m + 1)
        <3> HIDE DEF last
        <3> QED
            BY <2>4 DEF IsFlat
    <2>6. m + 1 \in Nat
        OBVIOUS
    <2> QED
        BY <2>5, <2>6
<1> QED
    BY <1>1, <1>2, Inductively

\* What sequences of members of S are flattened to is one.
LEMMA FlattenSeqIs ==
    ASSUME NEW S, NEW seqs \in Seq(Seq(S))
    PROVE  FlattenSeq(seqs) \in Seq(S)
<1> DEFINE n == Len(seqs)
           flat == CHOOSE f : IsFlat(f, seqs, n)
           T == {m \in Nat : m \in 1..n => flat[m] \in Seq(S)}
<1>1. n \in Nat /\ \A i \in 1..n : seqs[i] \in Seq(S)
    BY LenProperties, ElementOfSeq
<1>2. CASE n = 0
    <2>1. seqs = <<>>
        BY <1>2, EmptySeq
    <2> QED
        BY <1>2, <2>1, EmptySeq DEF FlattenSeq
<1>3. CASE n # 0
    <2>1. IsFlat(flat, seqs, n)
        BY <1>1, FlatExists
    <2>2. FlattenSeq(seqs) = flat[n]
        BY <1>3 DEF FlattenSeq, IsFlat
    <2> HIDE DEF flat
    <2>3. \A i \in 1..n : flat[i] = IF i = 1 THEN seqs[i] ELSE flat[i - 1] \o seqs[i]
        BY <2>1 DEF IsFlat
    <2>4. 0 \in T
        OBVIOUS
    <2>5. ASSUME NEW m \in Nat, m \in T PROVE m + 1 \in T
        <3>1. CASE m + 1 \in 1..n /\ m = 0
            BY <1>1, <2>3, <3>1
        <3>2. CASE m + 1 \in 1..n /\ m # 0
            <4>1. m \in 1..n /\ flat[m] \in Seq(S) /\ m + 1 # 1 /\ (m + 1) - 1 = m
                BY <1>1, <2>5, <3>2
            <4>2. flat[m + 1] = flat[m] \o seqs[m + 1] /\ seqs[m + 1] \in Seq(S)
                BY <1>1, <2>3, <3>2, <4>1
            <4>3. flat[m] \o seqs[m + 1] \in Seq(S)
                BY <4>1, <4>2, ConcatProperties
            <4>4. flat[m + 1] \in Seq(S)
                BY <4>2, <4>3, Zenon
            <4> QED
                BY <4>4
        <3> QED
            BY <3>1, <3>2
    <2>6. Nat \subseteq T
        <3> HIDE DEF T
        <3> QED
            BY <2>4, <2>5, Inductively
    <2>7. n \in 1..n
        BY <1>1, <1>3
    <2> QED
        BY <1>1, <2>2, <2>6, <2>7
<1> QED
    BY <1>2, <1>3

\* Union, which refuses nothing here: Load has.
LEMMA UnionIs ==
    ASSUME NEW specs \in Seq(Specs)
    PROVE  Union(specs) \in Seq(Nexts)
<1>1. \A spec \in Specs : ResolveSpec(spec) \in Seq(Nexts)
    <2> SUFFICES ASSUME NEW spec \in Specs PROVE ResolveSpec(spec) \in Seq(Nexts)
        OBVIOUS
    <2>1. \A next \in Nexts : <<next>> \in Seq(Nexts)
        OBVIOUS
    <2>2. Every(DefaultDelay) \in Nexts
        BY RefreshAssumption DEF Every, Nexts
    <2>3. (spec.kind = "pattern" \/ (spec.kind = "every" /\ spec.d > 0)) => spec \in Nexts
        BY RefreshAssumption DEF Specs, Nexts, Malformed, Empty
    <2> QED
        BY <2>1, <2>2, <2>3, EmptySeq DEF ResolveSpec, Parse
<1>2. DOMAIN specs = 1..Len(specs) /\ Len(specs) \in Nat
      /\ \A i \in 1..Len(specs) : specs[i] \in Specs
    BY LenProperties, ElementOfSeq
<1>3. [i \in DOMAIN specs |-> ResolveSpec(specs[i])] \in Seq(Seq(Nexts))
    BY <1>1, <1>2
<1> QED
    BY <1>3, FlattenSeqIs DEF Union

LEMMA ChainBegins == ChainInit => ChainTypeOK
<1> SUFFICES ASSUME ChainInit PROVE ChainTypeOK
    OBVIOUS
<1>1. cadence \in Seq(Nexts)
    BY EmptySeq DEF ChainInit
<1>2. ms \in 0..Day /\ left \in 0..(ms * Milli)
    BY RefreshAssumption DEF ChainInit
<1> QED
    BY <1>1, <1>2 DEF ChainInit, ChainTypeOK

\* The delay told is within the day.
LEMMA MillisAre ==
    ASSUME ChainTypeOK
    PROVE  NextRefreshMillis \in 0..Day
<1>1. Soonest(cadence, now) \in 0..Day
    BY SoonestIsFirstDue DEF ChainTypeOK
<1>2. \A d \in 0..Day : d \div Milli \in 0..Day
    BY RefreshAssumption
<1> QED
    BY <1>1, <1>2 DEF NextRefreshMillis

LEMMA ChainStep == ChainTypeOK /\ [ChainNext]_chainVars => ChainTypeOK'
<1> SUFFICES ASSUME ChainTypeOK, [ChainNext]_chainVars PROVE ChainTypeOK'
    OBVIOUS
<1>0. Day \in Nat /\ Milli \in Nat /\ \A m \in 0..Day : m * Milli \in Nat
    BY RefreshAssumption
<1> USE DEF serverVars, pageVars, Moves
<1>1. ASSUME Load PROVE ChainTypeOK'
    <2>1. flag \in Specs /\ sheet \in Seq(Specs)
        BY RefreshAssumption DEF ChainTypeOK
    <2>2. Union(sheet) \in Seq(Nexts) /\ Union(<<flag>>) \in Seq(Nexts)
        <3>1. <<flag>> \in Seq(Specs)
            BY <2>1
        <3> QED
            BY <2>1, <3>1, UnionIs
    <2>3. cadence' \in Seq(Nexts) /\ chain' \in {"refused", "config"}
        BY <1>1, <2>2 DEF Load, ChainTypeOK
    <2> QED
        BY <1>1, <2>3 DEF Load, ChainTypeOK
<1>2. ASSUME NEW from, Tell(from) PROVE ChainTypeOK'
    <2>1. ms' \in 0..Day /\ left' = 0 /\ 0 \in 0..(ms' * Milli)
        BY <1>0, <1>2, MillisAre DEF Tell
    <2> QED
        BY <1>2, <2>1 DEF Tell, ChainTypeOK
<1>3. CASE RequestFails
    BY <1>3 DEF RequestFails, ChainTypeOK
<1>4. CASE Schedule \/ Retry
    <2>1. ms * Milli \in 0..(ms * Milli)
        BY <1>0 DEF ChainTypeOK
    <2>2. chain' = "timer" => ms > 0
        BY <1>0, <1>4 DEF Schedule, Retry, ChainTypeOK
    <2> QED
        BY <1>4, <2>1, <2>2 DEF Schedule, Retry, ChainTypeOK
<1>5. CASE Ask
    BY <1>5 DEF Ask, ChainTypeOK
<1>6. CASE Focus
    BY <1>6 DEF Focus, ChainTypeOK
<1>7. CASE EditSchedules
    BY <1>7 DEF EditSchedules, ChainTypeOK
<1>8. CASE Tick
    <2>1. now' \in Instants
        <3>1. now + 1 \in Nat /\ \A t \in Nat : t % Day \in 0..(Day - 1)
            BY RefreshAssumption DEF ChainTypeOK, Instants
        <3> QED
            BY <1>8, <3>1 DEF Tick, Instants
    <2>2. left' \in 0..(ms * Milli)
        <3>1. ms * Milli \in Nat /\ left \in 0..(ms * Milli)
            BY <1>0 DEF ChainTypeOK
        <3> QED
            BY <1>8, <3>1 DEF Tick
    <2> QED
        BY <1>8, <2>1, <2>2 DEF Tick, ChainTypeOK
<1>9. CASE UNCHANGED chainVars
    BY <1>9 DEF chainVars, ChainTypeOK
<1>10. CASE AnswerConfig \/ AnswerRecompute
    <2> HIDE DEF serverVars, pageVars, Moves
    <2> QED
        BY <1>2, <1>10 DEF AnswerConfig, AnswerRecompute
<1> HIDE DEF serverVars, pageVars, Moves
<1> QED
    BY <1>1, <1>3, <1>4, <1>5, <1>6, <1>7, <1>8, <1>9, <1>10 DEF ChainNext, Server, Page

\* The timer is armed with the delay told, and only with one there is.
THEOREM ChainInvariance == ChainSpec => []ChainTypeOK
BY ChainBegins, ChainStep, PTL DEF ChainSpec

\* The delay an answer carries runs to the first tick any cadence is due on, and is
\* 0 when none ever is, for any number of schedules in any order.
THEOREM ToldTheSoonest == ChainSpec => NextIsSoonest
<1> DEFINE Told == chain' = "answered" /\ chain # "answered" =>
                       LET due == DueSet(cadence, now)
                       IN  IF due = {} THEN ms' = 0
                           ELSE \E d \in due : ms' = d \div Milli /\ \A e \in due : d <= e
<1>1. ChainTypeOK /\ [ChainNext]_chainVars => Told
    <2> SUFFICES ASSUME ChainTypeOK, [ChainNext]_chainVars,
                        chain' = "answered", chain # "answered"
                 PROVE  LET due == DueSet(cadence, now)
                        IN  IF due = {} THEN ms' = 0
                            ELSE \E d \in due : ms' = d \div Milli /\ \A e \in due : d <= e
        OBVIOUS
    <2>1. ms' = NextRefreshMillis
        BY DEF ChainNext, Server, Page, Load, Tell, AnswerConfig, AnswerRecompute, Schedule,
           Retry, Ask,
               RequestFails, Focus, EditSchedules, Tick, Moves, chainVars, serverVars, pageVars
    <2> DEFINE s == Soonest(cadence, now)
               due == DueSet(cadence, now)
    <2>2. /\ due = {} => s = 0
          /\ due # {} => s \in due /\ \A e \in due : s <= e
        BY SoonestIsFirstDue DEF ChainTypeOK
    <2>3. ms' = s \div Milli /\ 0 \div Milli = 0
        BY <2>1, RefreshAssumption DEF NextRefreshMillis
    <2> HIDE DEF s, due
    <2>4. IF due = {} THEN ms' = 0
          ELSE \E d \in due : ms' = d \div Milli /\ \A e \in due : d <= e
        BY <2>2, <2>3
    <2> QED
        BY <2>4 DEF due
<1>2. ChainSpec => [][Told]_chainVars
    <2>1. ChainTypeOK /\ [ChainNext]_chainVars => [Told]_chainVars
        BY <1>1
    <2> QED
        BY <2>1, ChainInvariance, PTL DEF ChainSpec
<1> QED
    BY <1>2 DEF NextIsSoonest
=============================================================================
