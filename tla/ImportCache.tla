----------------------------- MODULE ImportCache -----------------------------
(***************************************************************************)
(* importer.Cache under a session: what the passes of concurrent callers   *)
(* take from the cache, put into it and show, while the servers imported   *)
(* from change what they serve.  A pass fetches each import of the sheet   *)
(* through the cache, in any order and possibly several at a time (the     *)
(* engine is external); the session runs one pass at a time, under its     *)
(* mutex, and RefreshImports clears the cache under the same mutex.        *)
(***************************************************************************)
EXTENDS Naturals

CONSTANTS
    Callers, NoCaller,
    Keys,       \* (url, accept) pairs
    Missing,    \* no entry: not cached, not in the sheet
    Failed,     \* the fetch was refused, timed out or answered badly
    MaxVersion  \* bound: what an origin serves changes this many times

ASSUME ImportAssumption ==
    /\ NoCaller \notin Callers
    /\ MaxVersion \in Nat
    /\ Missing # Failed /\ {Missing, Failed} \cap (0..MaxVersion) = {}

VARIABLES
    origin, \* origin[k]: the version k's server answers with
    cache,  \* Cache.cache
    mu,     \* Session.mu
    pc,     \* pc[c]: where the method caller c is in stands
    op,     \* op[c]: that method
    leg,    \* leg[c][k]: how far the fetch of k in c's pass is
    got,    \* got[c][k]: what it brought
    shown,  \* the import values of Session.computed
    asOf,   \* history: what the origins served when c called for a refresh
    fills   \* history: answers for k since the cache was last cleared

callVars == <<mu, pc, op>>
passVars == <<leg, got>>
vars == <<origin, cache, callVars, passVars, shown, asOf, fills>>

Versions == 0..MaxVersion
Values == Versions \cup {Missing, Failed}
Nothing == [k \in Keys |-> Missing]

\* Recompute stands for every method that runs a pass and publishes it;
\* Embedded computes with the session's fetcher and publishes nothing.
Methods == {"Recompute", "RefreshImports", "Embedded"}

TypeOK ==
    /\ origin \in [Keys -> Versions]
    /\ cache \in [Keys -> Versions \cup {Missing}]
    /\ mu \in Callers \cup {NoCaller}
    /\ pc \in [Callers -> {"idle", "lock", "clear", "begin", "pass", "return"}]
    /\ op \in [Callers -> Methods]
    /\ leg \in [Callers -> [Keys -> {"load", "fetch", "store", "done"}]]
    /\ got \in [Callers -> [Keys -> Values]]
    /\ shown \in [Keys -> Values]
    /\ asOf \in [Callers -> [Keys -> Versions]]
    /\ fills \in [Keys -> Nat]

Init ==
    /\ origin = [k \in Keys |-> 0]
    /\ cache = Nothing
    /\ mu = NoCaller
    /\ pc = [c \in Callers |-> "idle"]
    /\ op = [c \in Callers |-> "Recompute"]
    /\ leg = [c \in Callers |-> [k \in Keys |-> "done"]]
    /\ got = [c \in Callers |-> Nothing]
    /\ shown = Nothing
    /\ asOf = [c \in Callers |-> origin]
    /\ fills = [k \in Keys |-> 0]

Goto(c, from, to) ==
    /\ pc[c] = from
    /\ pc' = [pc EXCEPT ![c] = to]

Call(c) ==
    /\ Goto(c, "idle", "lock")
    /\ \E m \in Methods :
        /\ op' = [op EXCEPT ![c] = m]
        /\ asOf' = IF m = "RefreshImports" THEN [asOf EXCEPT ![c] = origin] ELSE asOf
    /\ UNCHANGED <<origin, cache, mu, passVars, shown, fills>>

\* Mutated: a method that does not lock.
LockUnguarded(c) ==
    /\ mu' = c
    /\ Goto(c, "lock", IF op[c] = "RefreshImports" THEN "clear" ELSE "begin")
    /\ UNCHANGED <<origin, cache, op, passVars, shown, asOf, fills>>

\* Mutated: the hook was never wired, and a refresh is a plain recompute.
LockUnwired(c) ==
    /\ mu = NoCaller
    /\ mu' = c
    /\ Goto(c, "lock", "begin")
    /\ UNCHANGED <<origin, cache, op, passVars, shown, asOf, fills>>

Lock(c) ==
    /\ mu = NoCaller
    /\ mu' = c
    /\ Goto(c, "lock", IF op[c] = "RefreshImports" THEN "clear" ELSE "begin")
    /\ UNCHANGED <<origin, cache, op, passVars, shown, asOf, fills>>

\* s.clearImports(), wired to Cache.Clear
Clear(c) ==
    /\ Goto(c, "clear", "begin")
    /\ cache' = Nothing
    /\ fills' = [k \in Keys |-> 0]
    /\ UNCHANGED <<origin, mu, op, passVars, shown, asOf>>

\* The pass starts on the imports the document has by now.
BeginPass(c) ==
    /\ Goto(c, "begin", "pass")
    /\ \E imports \in SUBSET Keys :
        leg' = [leg EXCEPT ![c] = [k \in Keys |-> IF k \in imports THEN "load" ELSE "done"]]
    /\ got' = [got EXCEPT ![c] = Nothing]
    /\ UNCHANGED <<origin, cache, mu, op, shown, asOf, fills>>

Advance(c, k, from, to) ==
    /\ pc[c] = "pass"
    /\ leg[c][k] = from
    /\ leg' = [leg EXCEPT ![c][k] = to]
    /\ UNCHANGED <<origin, callVars, shown, asOf>>

\* Cache.Fetch: load, and on a hit nothing else.
Hit(c, k) ==
    /\ cache[k] # Missing
    /\ Advance(c, k, "load", "done")
    /\ got' = [got EXCEPT ![c][k] = cache[k]]
    /\ UNCHANGED <<cache, fills>>

Miss(c, k) ==
    /\ cache[k] = Missing
    /\ Advance(c, k, "load", "fetch")
    /\ UNCHANGED <<cache, got, fills>>

\* The inner Fetcher, with no lock of the cache held.
Answer(c, k) ==
    /\ Advance(c, k, "fetch", "store")
    /\ got' = [got EXCEPT ![c][k] = origin[k]]
    /\ fills' = [fills EXCEPT ![k] = @ + 1]
    /\ UNCHANGED cache

\* An error is returned, and never cached.
FetchFails(c, k) ==
    /\ Advance(c, k, "fetch", "done")
    /\ got' = [got EXCEPT ![c][k] = Failed]
    /\ UNCHANGED <<cache, fills>>

\* Mutated: the answer is not kept.
StoreNothing(c, k) ==
    /\ Advance(c, k, "store", "done")
    /\ UNCHANGED <<cache, got, fills>>

Store(c, k) ==
    /\ Advance(c, k, "store", "done")
    /\ cache' = [cache EXCEPT ![k] = got[c][k]]
    /\ UNCHANGED <<got, fills>>

\* Every import of the pass is in: the grid is the session's.
Publish(c) ==
    /\ \A k \in Keys : leg[c][k] = "done"
    /\ Goto(c, "pass", "return")
    /\ shown' = IF op[c] = "Embedded" THEN shown ELSE got[c]
    /\ UNCHANGED <<origin, cache, mu, op, passVars, asOf, fills>>

\* The State of the answer is built from what is shown, still under the lock.
Return(c) ==
    /\ Goto(c, "return", "idle")
    /\ mu' = NoCaller
    /\ op' = [op EXCEPT ![c] = "Recompute"]
    /\ got' = [got EXCEPT ![c] = Nothing]
    /\ asOf' = [asOf EXCEPT ![c] = [k \in Keys |-> 0]]
    /\ UNCHANGED <<origin, cache, leg, shown, fills>>

\* A server imported from starts serving something else.
OriginChanges(k) ==
    /\ origin[k] < MaxVersion
    /\ origin' = [origin EXCEPT ![k] = @ + 1]
    /\ UNCHANGED <<cache, callVars, passVars, shown, asOf, fills>>

FetchStep(c) ==
    \E k \in Keys : Hit(c, k) \/ Miss(c, k) \/ Answer(c, k) \/ FetchFails(c, k) \/ Store(c, k)

Run(c) == Clear(c) \/ BeginPass(c) \/ FetchStep(c) \/ Publish(c) \/ Return(c)

Next ==
    \/ \E c \in Callers : Call(c) \/ Lock(c) \/ Run(c)
    \/ \E k \in Keys : OriginChanges(k)

Spec == Init /\ [][Next]_vars
-----------------------------------------------------------------------------
\* "an explicit refresh drops cached fetches and re-fetches": no value a
\* refresh answers with is older than the call, though passes of other callers
\* were fetching, and filling the cache, while it waited for the lock.
RefreshIsFresh ==
    \A c \in Callers : pc[c] = "return" /\ op[c] = "RefreshImports" =>
        \A k \in Keys : shown[k] \in Versions => shown[k] >= asOf[c][k]

\* "ordinary and clock-ticker recomputes reuse fetched values with NO network":
\* between two refreshes each import is answered by its server once, however
\* many callers miss it together.
AnsweredOnce == \A k \in Keys : fills[k] <= 1

\* "only an explicit refresh drops them": an import value on show is replaced by
\* another only by the pass of a refresh, never by a recompute or an edit.
ImportsHoldStill ==
    [][\A k \in Keys :
        {shown[k], shown'[k]} \subseteq Versions /\ shown'[k] # shown[k] =>
            \E c \in Callers : mu = c /\ op[c] = "RefreshImports"]_vars

\* What makes it so.  Only the caller inside holds a pass; a cached value was
\* the only answer since the cache was cleared, and a miss means there was none.
InSection == {"clear", "begin", "pass", "return"}

Exclusive ==
    \A c \in Callers :
        /\ pc[c] \in InSection <=> mu = c
        /\ pc[c] # "pass" => \A k \in Keys : leg[c][k] = "done"

Accounted ==
    \A k \in Keys :
        /\ cache[k] # Missing => fills[k] = 1 /\ cache[k] <= origin[k]
        /\ cache[k] = Missing =>
            fills[k] = IF \E c \in Callers : leg[c][k] = "store" THEN 1 ELSE 0
        /\ \A c \in Callers : leg[c][k] \in {"fetch", "store"} => cache[k] = Missing

\* A pass of a refresh holds nothing older than its call.
RefreshedPass ==
    \A c \in Callers :
        /\ pc[c] = "clear" => op[c] = "RefreshImports"
        /\ \A k \in Keys : asOf[c][k] <= origin[k]
        /\ op[c] = "RefreshImports" /\ pc[c] \in {"begin", "pass", "return"} =>
            \A k \in Keys :
                /\ cache[k] \in Versions => cache[k] >= asOf[c][k]
                /\ got[c][k] \in Versions /\ pc[c] # "begin" => got[c][k] >= asOf[c][k]
        /\ op[c] = "RefreshImports" /\ pc[c] = "return" => shown = got[c]

\* What a pass holds of an import is in the cache, or on its way there.
Kept ==
    \A c \in Callers, k \in Keys :
        /\ leg[c][k] = "store" => got[c][k] \in 0..origin[k]
        /\ leg[c][k] \in {"load", "fetch"} => got[c][k] = Missing
        /\ leg[c][k] = "done" /\ pc[c] = "pass" /\ got[c][k] \in Versions => cache[k] = got[c][k]

Refreshing == \E c \in Callers : op[c] = "RefreshImports" /\ pc[c] \in {"begin", "pass"}

\* What is shown of an import is in the cache, but for the time a refresh has
\* emptied it and has not published yet.
ShownKept == ~Refreshing => \A k \in Keys : shown[k] \in Versions => cache[k] = shown[k]

IInv ==
    /\ TypeOK /\ Exclusive /\ Accounted /\ RefreshedPass /\ Kept /\ ShownKept
    /\ RefreshIsFresh /\ AnsweredOnce
=============================================================================
