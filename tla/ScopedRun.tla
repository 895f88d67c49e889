----------------------------- MODULE ScopedRun ------------------------------
(***************************************************************************)
(* A command that computes, with --data: resolveData names a data server   *)
(* or starts one on loopback, resolveImport builds the fetcher, the sheet  *)
(* is computed, fetching as Importer does, from the run's own DataServer   *)
(* or from others, and the deferred closer stops what was started.         *)
(***************************************************************************)
EXTENDS Importer, DataServer

CONSTANT
    ScopedBase  \* LoopbackBase of the run's own server

ASSUME ScopedRunAssumption ==
    /\ ScopedBase \notin Bases \cup {NoBase}
    /\ ScopedBase = [scheme |-> ScopedBase.scheme, host |-> ScopedBase.host, path |-> ScopedBase.path]

VARIABLES
    stage,      \* where the command stands
    cut,        \* history: reading the file failed while it was sent
    overtaken   \* history: since the fetch began its deadline passed, Close
                \* came, or the directory changed

runVars == <<stage, cut, overtaken>>
allVars == <<vars, dataVars, runVars>>

RunTypeOK ==
    /\ base \in Bases \cup {NoBase, ScopedBase}
    /\ FetchTypeOK
    /\ ServerTypeOK
    /\ stage \in {"flags", "configure", "computing", "closing", "returned"}
    /\ {cut, overtaken} \subseteq BOOLEAN

RunInit ==
    /\ base = NoBase
    /\ FetchInit
    /\ ServerInit
    /\ stage = "flags" /\ cut = FALSE /\ overtaken = FALSE

fetchVars == <<pc, requestVars, hops, bodyVars, resultVars>>

Advance(from, to) ==
    /\ stage = from
    /\ stage' = to
    /\ UNCHANGED <<fetchVars, cut>>

\* resolveData: no --data; the URL of a server, vetted; a directory to publish.
NoData ==
    /\ Advance("flags", "configure")
    /\ UNCHANGED <<base, dataVars, overtaken>>

NameServer ==
    /\ \E b \in Bases :
        IF SchemeAllowed(b)
        THEN Advance("flags", "configure") /\ base' = b
        ELSE Advance("flags", "returned") /\ UNCHANGED base
    /\ UNCHANGED <<dataVars, overtaken>>

PublishDirectory ==
    /\ Advance("flags", "configure")
    /\ Start
    /\ base' = ScopedBase
    /\ UNCHANGED overtaken

\* The root does not open, or the address does not bind: nothing to close.
PublishFails ==
    /\ Advance("flags", "returned")
    /\ UNCHANGED <<base, dataVars, overtaken>>

ConfigureImports ==
    /\ Advance("configure", "computing")
    /\ UNCHANGED <<base, dataVars, overtaken>>

\* Neither --data nor --allow-import: no fetcher, and nothing is fetched.
WithoutImports ==
    /\ base = NoBase
    /\ Advance("configure", "closing")
    /\ UNCHANGED <<base, dataVars, overtaken>>

\* Mutated: closeData is deferred after resolveImport has returned no error.
ImportsRefusedUnclosed ==
    /\ Advance("configure", "returned")
    /\ UNCHANGED <<base, dataVars, overtaken>>

\* resolveImport fails, as on --allow-import without a host.
ImportsRefused ==
    /\ Advance("configure", "closing")
    /\ UNCHANGED <<base, dataVars, overtaken>>

\* The command is done or failed.
Finish ==
    /\ pc = "idle"
    /\ Advance("computing", "closing")
    /\ UNCHANGED <<base, dataVars, overtaken>>

\* serve: interrupted, and its shutdown did not wait for a request to the end.
Interrupt ==
    /\ pc # "idle"
    /\ Advance("computing", "closing")
    /\ UNCHANGED <<base, dataVars, overtaken>>

\* defer closeData(): server.Close, or noCloseData.
CloseData ==
    /\ Advance("closing", "returned")
    /\ IF base = ScopedBase THEN Close ELSE UNCHANGED dataVars
    /\ overtaken' = TRUE
    /\ UNCHANGED base

Command ==
    \/ NoData \/ NameServer \/ PublishDirectory \/ PublishFails
    \/ ConfigureImports \/ WithoutImports \/ ImportsRefused
    \/ Finish \/ Interrupt \/ CloseData
-----------------------------------------------------------------------------
\* The request in hand goes to the run's own server.
Own == fromBase /\ base = ScopedBase

\* A cell is computed that imports.
StartFetch ==
    /\ stage = "computing"
    /\ Fetch
    /\ cut' = FALSE /\ overtaken' = FALSE
    /\ UNCHANGED <<dataVars, stage>>

\* The fetcher goes on.  The run's own server types what it serves.
FetchOn ==
    /\ Fetcher
    /\ Own /\ pc = "status" => (pc' = "body") = (answer = 200)
    /\ Own => outcome' # "contentType"
    /\ IF pc = "return" THEN Forget ELSE UNCHANGED dataVars
    /\ UNCHANGED runVars

OtherServer ==
    /\ ~Own
    /\ Server
    /\ UNCHANGED <<dataVars, runVars>>

\* The listener is not there, or goes before the answer has come.
ConnectionLost ==
    /\ Own
    /\ \/ listener # "bound" /\ Unreachable
       \/ listener = "closed" /\ BodyBreaksOff
    /\ UNCHANGED <<dataVars, runVars>>

OwnHandler ==
    /\ Own /\ pc = "send"
    /\ Connect \/ Handle(target.path)
    /\ UNCHANGED <<vars, runVars>>

OwnAnswers ==
    /\ Own /\ answer # 0
    /\ Answers /\ pc' = "status"
    /\ UNCHANGED <<dataVars, runVars>>

OwnCopies ==
    /\ Own
    /\ ReadBody
    /\ UNCHANGED <<dataVars, runVars>>

\* io.Copy's error is dropped, and the answer ends where the reading did.
CopyFails ==
    /\ Own /\ pc = "body" /\ read < length
    /\ length' = read
    /\ cut' = TRUE
    /\ UNCHANGED <<base, pc, requestVars, hops, read, resultVars>>
    /\ UNCHANGED <<dataVars, stage, overtaken>>

DeadlinePasses ==
    /\ TimeOut
    /\ overtaken' = TRUE
    /\ UNCHANGED <<dataVars, stage, cut>>

OthersChange ==
    /\ base = ScopedBase /\ stage = "computing"
    /\ ChangeDirectory
    /\ overtaken' = TRUE
    /\ UNCHANGED <<vars, stage, cut>>

Goroutine == ServeListener /\ UNCHANGED <<vars, runVars>>

OwnServer == ConnectionLost \/ OwnHandler \/ OwnAnswers \/ OwnCopies

RunNext ==
    \/ Command
    \/ StartFetch \/ FetchOn \/ OtherServer \/ OwnServer \/ CopyFails
    \/ DeadlinePasses
    \/ Goroutine \/ OthersChange

\* The goroutines of the process run on.  A deadline passes on a server that
\* does nothing; the run's own is not waited for that long.
RunSpec ==
    /\ RunInit /\ [][RunNext]_allVars
    /\ WF_allVars(FetchOn)
    /\ WF_allVars(OwnServer)
    /\ WF_allVars(Goroutine)
    /\ WF_allVars(CloseData)
    /\ WF_allVars(~Own /\ DeadlinePasses)
-----------------------------------------------------------------------------
\* A file is at the place the request in hand names, and may be published.
IsThere == rootThere /\ Published(target.path) /\ KindAt(target.path) = "regular"

\* "so a sheet's relative import references resolve", from the first fetch on,
\* whether the goroutine serves yet or not: unless it was overtaken, a fetch
\* from the run's own server gives the file its reference names, and fails on
\* its status where there is no such file to publish.
ResolvesWhatIsThere ==
    Own /\ pc = "return" /\ ~overtaken =>
        outcome \in IF IsThere THEN {"ok", "tooLarge"} ELSE {"status"}

\* "judging the mode afterwards also closes the race": whatever others put at
\* the path meanwhile, only a regular file with a published name is served.
ServesRegularFiles ==
    Own /\ pc \in {"body", "return"} /\ outcome \in {"none", "ok", "tooLarge", "read"} =>
        opened = "regular" /\ Published(target.path)

\* What makes it so.  Nothing is fetched before the data base is settled, and the
\* run's own server listens until the command has returned.
StagesInOrder ==
    /\ stage \in {"flags", "configure"} => pc = "idle"
    /\ stage = "flags" => base = NoBase
    /\ inShutdown => stage = "returned"
    /\ base = ScopedBase => IF stage = "returned" THEN overtaken ELSE listener = "bound"

\* The handler runs for the request in hand only, and the fetcher goes by its
\* answer, which is the one the directory calls for.
HandlerInOrder ==
    /\ handler # "none" => Own
    /\ Own => pc # "hop" /\ (pc = "status" => answer # 0) /\ (pc = "body" => answer = 200)
    /\ handler \notin {"copying", "done"} => answer = 0
    /\ handler = "done" => answer # 200 /\ (~overtaken => ~IsThere)
    /\ handler \in {"judging", "copying"} =>
        /\ Published(target.path)
        /\ ~overtaken => rootThere /\ opened = KindAt(target.path)
    /\ handler = "copying" => answer = 200 /\ opened = "regular"

\* The state of a run: no more redirects than the limit, no file but a regular
\* one, and what is returned is what was sent, when that is within the cap.
RunIInv ==
    /\ RunTypeOK /\ FetchInOrder /\ StagesInOrder /\ HandlerInOrder
    /\ OnlyPermitted /\ WholeWithinCap /\ ServesRegularFiles /\ ResolvesWhatIsThere

\* "stops it on exit", "including on an error exit": once the command has
\* returned, nothing listens, at once or when the goroutine finds the server
\* closed.
ListenerGoes == stage = "returned" ~> listener # "bound"

\* "the listener does not outlive the command": it is gone when it returns.
GoneOnReturn == stage = "returned" => listener # "bound"

\* "answered with that file": never with the beginning of it.
WholeFile == Own /\ outcome = "ok" => ~cut
=============================================================================
