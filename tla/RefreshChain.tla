---------------------------- MODULE RefreshChain ----------------------------
(***************************************************************************)
(* The auto-refresh of a browser: the cadence serve builds at load from    *)
(* the sheet's volatile schedules or the --refresh-interval flag, the      *)
(* delay each answer carries, and the one-shot timer the page re-arms with *)
(* it.  Time goes round a day of Day ticks, Milli ticks to a millisecond,  *)
(* so that a schedule's instants recur; the isnow pattern language is      *)
(* external, a pattern being the set of instants it matches.               *)
(***************************************************************************)
EXTENDS Integers, SequencesExt

CONSTANTS
    Day, Milli,
    DefaultDelay, \* defaultRefresh
    Sheets,       \* lists of specs a sheet may declare
    Flags         \* specs --refresh-interval may carry, NoFlag among them

\* A spec is a duration, an isnow pattern, text that is neither, or nothing: a
\* volatile() without a schedule, a flag that was not given.
Every(d) == [kind |-> "every", d |-> d]
Pattern(at) == [kind |-> "pattern", at |-> at]
Malformed == [kind |-> "malformed"]
Empty == [kind |-> "empty"]

Instants == 0..(Day - 1)
Specs == [kind : {"every"}, d : 0..Day] \cup [kind : {"pattern"}, at : SUBSET Instants]
            \cup {Malformed, Empty}

\* A day is a time no duration is longer than and every pattern recurs in.
ASSUME RefreshAssumption ==
    /\ {Day, Milli, DefaultDelay} \subseteq Nat \ {0}
    /\ DefaultDelay <= Day
    /\ Sheets \subseteq Seq(Specs) /\ Flags \subseteq Specs

VARIABLES
    now,     \* the clock
    sheet,   \* the schedules of the sheet, as edited so far
    flag,    \* --refresh-interval
    cadence, \* Server.refresh, the Nexts it unites; <<>> is nil
    chain,   \* where the page's refresh chain stands
    ms,      \* the delay last told, next_refresh_millis
    left,    \* ticks until the timer runs out
    editing, \* an INPUT has the focus
    failed   \* history: a request of the chain failed

serverVars == <<sheet, flag, cadence>>
pageVars == <<chain, ms, left, editing, failed>>
chainVars == <<now, serverVars, pageVars>>
-----------------------------------------------------------------------------
\* Parse, for a spec that is not malformed: the Nexts it yields, none or one.
Parse(spec) ==
    IF spec.kind = "pattern" \/ (spec.kind = "every" /\ spec.d > 0) THEN <<spec>> ELSE <<>>

ResolveSpec(spec) == IF spec = Empty THEN <<Every(DefaultDelay)>> ELSE Parse(spec)

Union(specs) == FlattenSeq([i \in DOMAIN specs |-> ResolveSpec(specs[i])])

\* A Next: the delay from t, 0 when there is no further refresh.
Delay(next, t) ==
    IF next.kind = "every" THEN next.d
    ELSE IF next.at = {} THEN 0
    ELSE CHOOSE d \in 1..Day :
            /\ (t + d) % Day \in next.at
            /\ \A e \in 1..(d - 1) : (t + e) % Day \notin next.at

\* Mutated: a cadence that has stopped counts as the soonest.
EarlierCountsStopped(best, d) == IF best = 0 \/ d < best THEN d ELSE best

Earlier(best, d) == IF d > 0 /\ (best = 0 \/ d < best) THEN d ELSE best

Soonest(nexts, t) ==
    LET best[i \in 0..Len(nexts)] ==
            IF i = 0 THEN 0 ELSE Earlier(best[i - 1], Delay(nexts[i], t))
    IN  best[Len(nexts)]

NextRefreshMillis == Soonest(cadence, now) \div Milli
-----------------------------------------------------------------------------
Nexts == [kind : {"every"}, d : 1..Day] \cup [kind : {"pattern"}, at : SUBSET Instants]

ChainTypeOK ==
    /\ now \in Instants
    /\ sheet \in Sheets /\ flag \in Flags
    /\ cadence \in Seq(Nexts)
    /\ chain \in {"load", "refused", "config", "answered", "timer", "asked", "off"}
    /\ ms \in 0..Day /\ left \in 0..(ms * Milli)
    /\ chain = "timer" => ms > 0
    /\ editing \in BOOLEAN /\ failed \in BOOLEAN

ChainInit ==
    /\ now \in Instants
    /\ sheet \in Sheets /\ flag \in Flags
    /\ cadence = <<>>
    /\ chain = "load"
    /\ ms = 0 /\ left = 0
    /\ editing = FALSE /\ failed = FALSE

Moves(from, to) == chain = from /\ chain' = to

\* buildRefresh, and the page once it is served; the program exits on an error.
Load ==
    /\ LET specs == IF flag = Empty THEN sheet ELSE <<flag>>
       IN  IF Contains(specs, Malformed)
           THEN Moves("load", "refused") /\ UNCHANGED cadence
           ELSE Moves("load", "config") /\ cadence' = Union(specs)
    /\ UNCHANGED <<now, sheet, flag, ms, left, editing, failed>>

Tell(from) ==
    /\ Moves(from, "answered")
    /\ ms' = NextRefreshMillis
    /\ left' = 0
    /\ UNCHANGED <<now, serverVars, editing, failed>>

\* GET /api/config; POST /api/recompute, whose pass is the session's.
AnswerConfig == Tell("config")
AnswerRecompute == Tell("asked")

\* The request fails, or is refused: the chain is not taken up again.
RequestFails ==
    /\ chain \in {"config", "asked"}
    /\ chain' = "off"
    /\ failed' = TRUE
    /\ UNCHANGED <<now, serverVars, ms, left, editing>>

\* Mutated: a zero is a timer like any other.
ScheduleAnything ==
    /\ Moves("answered", "timer")
    /\ left' = ms * Milli
    /\ UNCHANGED <<now, serverVars, ms, editing, failed>>

\* scheduleRefresh
Schedule ==
    /\ Moves("answered", IF ms > 0 THEN "timer" ELSE "off")
    /\ left' = ms * Milli
    /\ UNCHANGED <<now, serverVars, ms, editing, failed>>

\* Mutated: the callback returns and does not come back.
RetryForgotten ==
    /\ left = 0 /\ editing
    /\ Moves("timer", "off")
    /\ UNCHANGED <<now, serverVars, ms, left, editing, failed>>

\* The timer ran out with a cell open: again after the same delay.
Retry ==
    /\ left = 0 /\ editing
    /\ Moves("timer", "timer")
    /\ left' = ms * Milli
    /\ UNCHANGED <<now, serverVars, ms, editing, failed>>

Ask ==
    /\ left = 0 /\ ~editing
    /\ Moves("timer", "asked")
    /\ UNCHANGED <<now, serverVars, ms, left, editing, failed>>

Focus ==
    /\ editing' = ~editing
    /\ UNCHANGED <<now, serverVars, chain, ms, left, failed>>

\* An edit gives the sheet other schedules; the server keeps its cadence.
EditSchedules ==
    /\ chain \notin {"load", "refused"}
    /\ sheet' \in Sheets
    /\ UNCHANGED <<now, flag, cadence, pageVars>>

\* A timer is never early; a callback, a request or an answer may take its time.
Tick ==
    /\ now' = (now + 1) % Day
    /\ left' = IF left > 0 THEN left - 1 ELSE 0
    /\ UNCHANGED <<serverVars, chain, ms, editing, failed>>

Server == Load \/ AnswerConfig \/ AnswerRecompute
Page == Schedule \/ Retry \/ Ask

ChainNext == Server \/ Page \/ RequestFails \/ Focus \/ EditSchedules \/ Tick

ChainSpec == ChainInit /\ [][ChainNext]_chainVars

\* The clock runs, the server answers and the page's event loop turns.
FairChainSpec == ChainSpec /\ WF_chainVars(Server) /\ WF_chainVars(Page) /\ WF_chainVars(Tick)
-----------------------------------------------------------------------------
\* Which ticks a cadence is due on, said without a delay: d ticks from t for a
\* duration, whenever the clock shows one of its instants for a pattern.
DueAfter(next, t, d) ==
    \/ next.kind = "every" /\ next.d = d
    \/ next.kind = "pattern" /\ (t + d) % Day \in next.at

DueSet(nexts, t) == {d \in 1..Day : \E i \in DOMAIN nexts : DueAfter(nexts[i], t, d)}

\* "one Next that fires at the soonest next refresh across them": the delay told
\* runs to the first tick any of the cadences is due on, and to none of them
\* when none ever is, whatever the order they come in and however many stopped.
NextIsSoonest ==
    [][chain' = "answered" /\ chain # "answered" =>
        LET due == DueSet(cadence, now)
        IN  IF due = {} THEN ms' = 0
            ELSE \E d \in due : ms' = d \div Milli /\ \A e \in due : d <= e]_chainVars

\* The chain goes on: once no cell is left open, the page asks for a recompute
\* again and again, until a request fails or it is told there is no next one.
KeepsRefreshing ==
    <>[]~editing => []<>(chain \in {"asked", "refused"}) \/ <>[](failed \/ ms = 0)

\* "(0 = none)": the chain ends only when a request failed or no cadence is ever
\* due again.
StopsOnlyWhenNoneIsDue ==
    chain = "off" => failed \/ DueSet(cadence, now) = {}

\* "when the sheet has clock functions, the server reports the delay until the
\* next refresh": without a flag, and no request having failed, the chain is off
\* only when no schedule of the sheet is ever due.
FollowsTheSheet ==
    chain = "off" /\ ~failed /\ flag = Empty /\ ~Contains(sheet, Malformed) =>
        DueSet(Union(sheet), now) = {}
=============================================================================
