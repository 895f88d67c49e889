--------------------------- MODULE ScopedRunProofs ---------------------------
(***************************************************************************)
(* For any hosts, references, limits and directory, whatever servers and   *)
(* other programs do: a request goes only where the policy lets it, and a  *)
(* run's own data server gives the file that a reference names.            *)
(***************************************************************************)
EXTENDS ScopedRun, TLAPS

\* A data base keeps its shape when its path is replaced and put back.
LEMMA Rebased ==
    ASSUME NEW b, b = [scheme |-> b.scheme, host |-> b.host, path |-> b.path], NEW p
    PROVE  [[b EXCEPT !.path = p] EXCEPT !.path = b.path] = b
OBVIOUS

\* What a step of a run does to the fetch in hand; the data base is settled only
\* while there is none.
FetchStep ==
    \/ Fetch \/ RefuseReference \/ BuildRequest
    \/ Answers \/ Unreachable
    \/ RefuseRedirect \/ FollowRedirect
    \/ RefuseStatus \/ AcceptStatus
    \/ ReadBody \/ BodyEnds \/ BodyBreaksOff \/ TimeOut
    \/ Return
    \/ CopyFails
    \/ UNCHANGED fetchVars /\ (base' = base \/ pc = "idle")

LEMMA RunTakesFetchSteps == StagesInOrder /\ [RunNext]_allVars => FetchStep
<1> SUFFICES ASSUME StagesInOrder, [RunNext]_allVars PROVE FetchStep
    OBVIOUS
<1>1. CASE Command
    BY <1>1 DEF Command, NoData, NameServer, PublishDirectory, PublishFails, ConfigureImports,
                WithoutImports, ImportsRefused, Finish, Interrupt, CloseData, Advance,
                StagesInOrder, FetchStep
<1>2. CASE StartFetch \/ FetchOn \/ OtherServer \/ CopyFails \/ DeadlinePasses
    BY <1>2 DEF StartFetch, FetchOn, Fetcher, OtherServer, Server, DeadlinePasses, FetchStep
<1>3. CASE OwnServer
    BY <1>3 DEF OwnServer, ConnectionLost, OwnHandler, OwnAnswers, OwnCopies, FetchStep,
                vars, fetchVars
<1>4. CASE Goroutine \/ OthersChange \/ UNCHANGED allVars
    BY <1>4 DEF Goroutine, OthersChange, FetchStep, allVars, vars, fetchVars
<1> QED
    BY <1>1, <1>2, <1>3, <1>4 DEF RunNext

\* Every step keeps the fetch's types, and the redirects within their limit.
LEMMA StepFetchTypes == FetchTypeOK /\ FetchInOrder /\ FetchStep => FetchTypeOK'
<1> SUFFICES ASSUME FetchTypeOK /\ FetchInOrder, FetchStep PROVE FetchTypeOK'
    OBVIOUS
<1> USE ImporterAssumption DEF FetchTypeOK, FetchInOrder, Goto, Conclude, requestVars,
        bodyVars, resultVars
<1>1. CASE Fetch
    BY <1>1 DEF Fetch
<1>2. CASE RefuseReference
    BY <1>2 DEF RefuseReference
<1>3. CASE BuildRequest
    BY <1>3 DEF BuildRequest
<1>4. CASE Answers
    BY <1>4 DEF Answers
<1>5. CASE Unreachable
    BY <1>5 DEF Unreachable
<1>6. CASE RefuseRedirect
    BY <1>6 DEF RefuseRedirect, TooMany
<1>7. CASE FollowRedirect
    BY <1>7 DEF FollowRedirect, TooMany
<1>8. CASE RefuseStatus
    BY <1>8 DEF RefuseStatus
<1>9. CASE AcceptStatus
    BY <1>9 DEF AcceptStatus
<1>10. CASE ReadBody
    BY <1>10 DEF ReadBody, Limit
<1>11. CASE BodyEnds
    BY <1>11 DEF BodyEnds, Limit
<1>12. CASE BodyBreaksOff
    BY <1>12 DEF BodyBreaksOff
<1>13. CASE TimeOut
    BY <1>13 DEF TimeOut
<1>14. CASE Return
    <2>1. pc' = "idle" /\ hops' = 0 /\ length' = 0 /\ read' = 0 /\ fromBase' = FALSE /\ outcome' = "none"
        BY <1>14 DEF Return
    <2>2. 0 \in 0..MaxRedirects /\ 0 \in 0..Longest
        OBVIOUS
    <2> QED
        BY <2>1, <2>2
<1>15. CASE CopyFails
    BY <1>15 DEF CopyFails
<1>16. CASE UNCHANGED fetchVars /\ (base' = base \/ pc = "idle")
    BY <1>16 DEF fetchVars
<1> QED
    BY <1>1, <1>2, <1>3, <1>4, <1>5, <1>6, <1>7, <1>8, <1>9, <1>10, <1>11, <1>12, <1>13,
       <1>14, <1>15, <1>16 DEF FetchStep

\* Redirects are counted, and no more is read than was sent.
LEMMA StepFetchInOrder == FetchTypeOK /\ FetchInOrder /\ FetchStep => FetchInOrder'
<1> SUFFICES ASSUME FetchTypeOK /\ FetchInOrder, FetchStep PROVE FetchInOrder'
    OBVIOUS
<1> USE ImporterAssumption DEF FetchTypeOK, FetchInOrder, Goto, Conclude, requestVars,
        bodyVars, resultVars
<1>1. CASE Fetch
    BY <1>1 DEF Fetch
<1>2. CASE RefuseReference
    BY <1>2 DEF RefuseReference
<1>3. CASE BuildRequest
    BY <1>3 DEF BuildRequest
<1>4. CASE Answers
    BY <1>4 DEF Answers
<1>5. CASE Unreachable
    BY <1>5 DEF Unreachable
<1>6. CASE RefuseRedirect
    BY <1>6 DEF RefuseRedirect, TooMany
<1>7. CASE FollowRedirect
    BY <1>7 DEF FollowRedirect, TooMany
<1>8. CASE RefuseStatus
    BY <1>8 DEF RefuseStatus
<1>9. CASE AcceptStatus
    BY <1>9 DEF AcceptStatus
<1>10. CASE ReadBody
    BY <1>10 DEF ReadBody, Limit
<1>11. CASE BodyEnds
    BY <1>11 DEF BodyEnds, Limit
<1>12. CASE BodyBreaksOff
    BY <1>12 DEF BodyBreaksOff
<1>13. CASE TimeOut
    BY <1>13 DEF TimeOut
<1>14. CASE Return
    BY <1>14 DEF Return
<1>15. CASE CopyFails
    BY <1>15 DEF CopyFails
<1>16. CASE UNCHANGED fetchVars /\ (base' = base \/ pc = "idle")
    BY <1>16 DEF fetchVars
<1> QED
    BY <1>1, <1>2, <1>3, <1>4, <1>5, <1>6, <1>7, <1>8, <1>9, <1>10, <1>11, <1>12, <1>13,
       <1>14, <1>15, <1>16 DEF FetchStep

\* No more is read than one past the cap, and what succeeds is whole.
LEMMA StepWhole == FetchTypeOK /\ FetchInOrder /\ WholeWithinCap /\ FetchStep => WholeWithinCap'
<1> SUFFICES ASSUME FetchTypeOK /\ FetchInOrder /\ WholeWithinCap,
        FetchStep PROVE WholeWithinCap'
    OBVIOUS
<1> USE ImporterAssumption DEF FetchTypeOK, FetchInOrder, WholeWithinCap, Goto, Conclude,
        requestVars, bodyVars, resultVars
<1>1. CASE Fetch
    BY <1>1 DEF Fetch
<1>2. CASE RefuseReference
    BY <1>2 DEF RefuseReference
<1>3. CASE BuildRequest
    BY <1>3 DEF BuildRequest
<1>4. CASE Answers
    BY <1>4 DEF Answers
<1>5. CASE Unreachable
    BY <1>5 DEF Unreachable
<1>6. CASE RefuseRedirect
    BY <1>6 DEF RefuseRedirect, TooMany
<1>7. CASE FollowRedirect
    BY <1>7 DEF FollowRedirect, TooMany
<1>8. CASE RefuseStatus
    BY <1>8 DEF RefuseStatus
<1>9. CASE AcceptStatus
    BY <1>9 DEF AcceptStatus
<1>10. CASE ReadBody
    BY <1>10 DEF ReadBody, Limit
<1>11. CASE BodyEnds
    BY <1>11 DEF BodyEnds, Limit
<1>12. CASE BodyBreaksOff
    BY <1>12 DEF BodyBreaksOff
<1>13. CASE TimeOut
    BY <1>13 DEF TimeOut
<1>14. CASE Return
    BY <1>14 DEF Return
<1>15. CASE CopyFails
    BY <1>15 DEF CopyFails
<1>16. CASE UNCHANGED fetchVars /\ (base' = base \/ pc = "idle")
    BY <1>16 DEF fetchVars
<1> QED
    BY <1>1, <1>2, <1>3, <1>4, <1>5, <1>6, <1>7, <1>8, <1>9, <1>10, <1>11, <1>12, <1>13,
       <1>14, <1>15, <1>16 DEF FetchStep

BaseShape == base # NoBase => base = [scheme |-> base.scheme, host |-> base.host,
path |-> base.path]

\* A request goes under the base or where the policy permits, at every hop.
LEMMA StepPermitted ==
    FetchTypeOK /\ FetchInOrder /\ BaseShape /\ OnlyPermitted /\ FetchStep => OnlyPermitted'
<1> SUFFICES ASSUME FetchTypeOK /\ FetchInOrder /\ BaseShape /\ OnlyPermitted,
        FetchStep PROVE OnlyPermitted'
    OBVIOUS
<1> USE DEF FetchTypeOK, FetchInOrder, OnlyPermitted, UnderBase, HopAllowed, Goto, Conclude,
        requestVars, bodyVars, resultVars
<1>1. CASE Fetch
    BY <1>1 DEF Fetch
<1>2. CASE RefuseReference
    BY <1>2 DEF RefuseReference
<1>3. CASE BuildRequest
    <2>1. CASE ref.form = "relative" /\ base # NoBase /\ fromBase'
        <3>1. target' = ResolveReference(ref.rooted,
        ref.path) /\ UnderBase(target') /\ base' = base
            BY <1>3, <2>1 DEF BuildRequest
        <3>2. [target' EXCEPT !.path = base.path] = base
            BY <2>1, <3>1, Rebased DEF BaseShape, ResolveReference
        <3>3. hops' = 0 /\ UnderBase(target)'
            BY <1>3, <3>1 DEF BuildRequest
        <3> QED
            BY <1>3, <2>1, <3>1, <3>2, <3>3
    <2>2. CASE ~fromBase' /\ SchemeAllowed(ref.url) /\ HostAllowed(ref.url.host) /\ target' = ref.url
        BY <1>3, <2>2 DEF BuildRequest
    <2> QED
        BY <1>3, <2>1, <2>2 DEF BuildRequest
<1>4. CASE Answers
    BY <1>4 DEF Answers
<1>5. CASE Unreachable
    BY <1>5 DEF Unreachable
<1>6. CASE RefuseRedirect
    BY <1>6 DEF RefuseRedirect, TooMany
<1>7. CASE FollowRedirect
    BY <1>7 DEF FollowRedirect, TooMany
<1>8. CASE RefuseStatus
    BY <1>8 DEF RefuseStatus
<1>9. CASE AcceptStatus
    BY <1>9 DEF AcceptStatus
<1>10. CASE ReadBody
    BY <1>10 DEF ReadBody, Limit
<1>11. CASE BodyEnds
    BY <1>11 DEF BodyEnds, Limit
<1>12. CASE BodyBreaksOff
    BY <1>12 DEF BodyBreaksOff
<1>13. CASE TimeOut
    BY <1>13 DEF TimeOut
<1>14. CASE Return
    BY <1>14 DEF Return
<1>15. CASE CopyFails
    BY <1>15 DEF CopyFails
<1>16. CASE UNCHANGED fetchVars /\ (base' = base \/ pc = "idle")
    BY <1>16 DEF fetchVars
<1> QED
    BY <1>1, <1>2, <1>3, <1>4, <1>5, <1>6, <1>7, <1>8, <1>9, <1>10, <1>11, <1>12, <1>13,
       <1>14, <1>15, <1>16 DEF FetchStep

\* Every step keeps the data server's types.
LEMMA StepServerTypes == ServerTypeOK /\ [RunNext]_allVars => ServerTypeOK'
<1> SUFFICES ASSUME ServerTypeOK, [RunNext]_allVars PROVE ServerTypeOK'
    OBVIOUS
<1> USE DEF ServerTypeOK, Kinds, dataVars, directoryVars, listenVars, requestHandlerVars
<1>1. CASE NoData \/ NameServer \/ PublishFails \/ ConfigureImports \/ WithoutImports
            \/ ImportsRefused \/ Finish \/ Interrupt
    BY <1>1 DEF NoData, NameServer, PublishFails, ConfigureImports, WithoutImports,
       ImportsRefused, Finish, Interrupt, Advance
<1>2. CASE PublishDirectory
    BY <1>2 DEF PublishDirectory, Advance, Start
<1>3. CASE CloseData
    <2>1. CASE UNCHANGED dataVars
        BY <2>1
    <2>2. CASE Close /\ goroutine = "serving"
        BY <2>2 DEF Close
    <2>3. CASE Close /\ goroutine # "serving"
        BY <2>3 DEF Close
    <2> QED
        BY <1>3, <2>1, <2>2, <2>3 DEF CloseData
<1>4. CASE FetchOn
    BY <1>4 DEF FetchOn, Forget
<1>5. CASE StartFetch \/ OtherServer \/ ConnectionLost \/ OwnAnswers \/ OwnCopies
            \/ CopyFails \/ DeadlinePasses
    BY <1>5 DEF StartFetch, OtherServer, ConnectionLost, OwnAnswers, OwnCopies, CopyFails,
       DeadlinePasses
<1>6. CASE OwnHandler
    BY <1>6 DEF OwnHandler, Connect, Handle, Accept, RefuseRequest, OpenFile, Judge,
       Handling, KindAt
<1>7. CASE Goroutine
    BY <1>7 DEF Goroutine, ServeListener
<1>8. CASE OthersChange
    <2>1. CASE \E p \in Files,
        k \in Kinds : files' = [files EXCEPT ![p] = k] /\ UNCHANGED rootThere
        BY <1>8, <2>1 DEF OthersChange, ChangeDirectory
    <2>2. CASE rootThere' = ~rootThere /\ UNCHANGED files
        <3>1. rootThere' \in BOOLEAN
            BY <2>2, Zenon
        <3> QED
            BY <1>8, <2>2, <3>1 DEF OthersChange, ChangeDirectory
    <2> QED
        BY <1>8, <2>1, <2>2 DEF OthersChange, ChangeDirectory
<1>9. CASE UNCHANGED allVars
    BY <1>9 DEF allVars
<1> QED
    BY <1>1, <1>2, <1>3, <1>4, <1>5, <1>6, <1>7, <1>8, <1>9 DEF RunNext, Command, OwnServer

BaseAndStage ==
    /\ base \in Bases \cup {NoBase, ScopedBase}
    /\ stage \in {"flags", "configure", "computing", "closing", "returned"}
    /\ {cut, overtaken} \subseteq BOOLEAN

\* The base is one that was given, or the run's own server.
LEMMA StepBase == BaseAndStage /\ [RunNext]_allVars => BaseAndStage'
<1> SUFFICES ASSUME BaseAndStage, [RunNext]_allVars PROVE BaseAndStage'
    OBVIOUS
<1> USE DEF BaseAndStage, vars, runVars
<1>1. CASE NoData \/ NameServer \/ PublishFails \/ ConfigureImports \/ WithoutImports
            \/ ImportsRefused \/ Finish \/ Interrupt
    BY <1>1 DEF NoData, NameServer, PublishFails, ConfigureImports, WithoutImports,
       ImportsRefused, Finish, Interrupt, Advance
<1>2. CASE PublishDirectory
    BY <1>2 DEF PublishDirectory, Advance, Start
<1>3. CASE CloseData
    BY <1>3 DEF CloseData, Advance, Close
<1>4. CASE FetchOn
    BY <1>4 DEF FetchOn, Fetcher, RefuseReference, BuildRequest, RefuseRedirect,
       FollowRedirect, RefuseStatus, AcceptStatus, BodyEnds, Return
<1>5. CASE StartFetch \/ OtherServer \/ ConnectionLost \/ OwnAnswers \/ OwnCopies
            \/ CopyFails \/ DeadlinePasses
    BY <1>5 DEF StartFetch, OtherServer, ConnectionLost, OwnAnswers, OwnCopies, CopyFails,
       DeadlinePasses, Fetch, Server, Answers, Unreachable, ReadBody, BodyBreaksOff, TimeOut
<1>6. CASE OwnHandler
    BY <1>6 DEF OwnHandler
<1>7. CASE Goroutine
    BY <1>7 DEF Goroutine
<1>8. CASE OthersChange
    BY <1>8 DEF OthersChange
<1>9. CASE UNCHANGED allVars
    BY <1>9 DEF allVars
<1> QED
    BY <1>1, <1>2, <1>3, <1>4, <1>5, <1>6, <1>7, <1>8, <1>9 DEF RunNext, Command, OwnServer

\* No fetch comes before the data base, and its own server outlasts a run's fetches.
LEMMA StepStages ==
    BaseAndStage /\ FetchInOrder /\ StagesInOrder /\ [RunNext]_allVars => StagesInOrder'
<1> SUFFICES ASSUME BaseAndStage /\ FetchInOrder /\ StagesInOrder,
        [RunNext]_allVars PROVE StagesInOrder'
    OBVIOUS
<1> USE ImporterAssumption, ScopedRunAssumption DEF BaseAndStage, FetchInOrder,
        StagesInOrder, Goto, Conclude, vars, dataVars, runVars, directoryVars, listenVars,
        requestHandlerVars, requestVars, bodyVars, resultVars
<1>1. CASE NoData \/ NameServer \/ PublishFails \/ ConfigureImports \/ WithoutImports
            \/ ImportsRefused \/ Finish \/ Interrupt
    BY <1>1 DEF NoData, NameServer, PublishFails, ConfigureImports, WithoutImports,
       ImportsRefused, Finish, Interrupt, Advance, fetchVars, vars
<1>2. CASE PublishDirectory
    BY <1>2 DEF PublishDirectory, Advance, Start, fetchVars
<1>3. CASE CloseData
    BY <1>3 DEF CloseData, Advance, Close, fetchVars
<1>4. CASE FetchOn
    BY <1>4 DEF FetchOn, Fetcher, Forget, RefuseReference, BuildRequest, RefuseRedirect,
       FollowRedirect, RefuseStatus, AcceptStatus, BodyEnds, Return
<1>5. CASE StartFetch \/ OtherServer \/ ConnectionLost \/ OwnAnswers \/ OwnCopies
            \/ CopyFails \/ DeadlinePasses
    BY <1>5 DEF StartFetch, OtherServer, ConnectionLost, OwnAnswers, OwnCopies, CopyFails,
       DeadlinePasses, Fetch, Server, Answers, Unreachable, ReadBody, BodyBreaksOff, TimeOut
<1>6. CASE OwnHandler
    BY <1>6 DEF OwnHandler, Connect, Handle, Accept, RefuseRequest, OpenFile, Judge, Handling
<1>7. CASE Goroutine
    BY <1>7 DEF Goroutine, ServeListener
<1>8. CASE OthersChange
    BY <1>8 DEF OthersChange, ChangeDirectory
<1>9. CASE UNCHANGED allVars
    BY <1>9 DEF allVars
<1> QED
    BY <1>1, <1>2, <1>3, <1>4, <1>5, <1>6, <1>7, <1>8, <1>9 DEF RunNext, Command, OwnServer

\* What those that follow go by.
Orderly == BaseAndStage /\ FetchTypeOK /\ FetchInOrder /\ StagesInOrder /\ HandlerInOrder

\* The handler serves the request in hand, and the fetcher goes by its answer.
LEMMA StepHandler == Orderly /\ [RunNext]_allVars => HandlerInOrder'
<1> SUFFICES ASSUME Orderly, [RunNext]_allVars PROVE HandlerInOrder'
    OBVIOUS
<1> USE ImporterAssumption, ScopedRunAssumption DEF Orderly, BaseAndStage, FetchTypeOK,
        FetchInOrder, StagesInOrder, HandlerInOrder, Own, IsThere, KindAt, Goto, Conclude,
        vars, dataVars, runVars, directoryVars, listenVars, requestHandlerVars, requestVars,
        bodyVars, resultVars
<1>1. CASE NoData \/ NameServer \/ PublishFails \/ ConfigureImports \/ WithoutImports
            \/ ImportsRefused \/ Finish \/ Interrupt
    BY <1>1 DEF NoData, NameServer, PublishFails, ConfigureImports, WithoutImports,
       ImportsRefused, Finish, Interrupt, Advance, fetchVars, vars
<1>2. CASE PublishDirectory
    BY <1>2 DEF PublishDirectory, Advance, Start, fetchVars
<1>3. CASE CloseData
    BY <1>3 DEF CloseData, Advance, Close, fetchVars
<1>4. CASE StartFetch
    BY <1>4 DEF StartFetch, Fetch
<1>5. CASE FetchOn
    BY <1>5 DEF FetchOn, Fetcher, Forget, RefuseReference, BuildRequest, RefuseRedirect,
       FollowRedirect, RefuseStatus, AcceptStatus, BodyEnds, Return
<1>6. CASE OtherServer
    BY <1>6 DEF OtherServer, Server, Answers, Unreachable, ReadBody, BodyBreaksOff
<1>7. CASE ConnectionLost
    BY <1>7 DEF ConnectionLost, Unreachable, BodyBreaksOff
<1>8. CASE OwnHandler
    BY <1>8 DEF OwnHandler, Connect, Handle, Accept, RefuseRequest, OpenFile, Judge, Handling
<1>9. CASE OwnAnswers
    BY <1>9 DEF OwnAnswers, Answers
<1>10. CASE OwnCopies \/ CopyFails
    BY <1>10 DEF OwnCopies, ReadBody, CopyFails
<1>11. CASE DeadlinePasses
    BY <1>11 DEF DeadlinePasses, TimeOut
<1>12. CASE Goroutine
    BY <1>12 DEF Goroutine, ServeListener
<1>13. CASE OthersChange
    BY <1>13 DEF OthersChange, ChangeDirectory
<1>14. CASE UNCHANGED allVars
    BY <1>14 DEF allVars
<1> QED
    BY <1>1, <1>2, <1>3, <1>4, <1>5, <1>6, <1>7, <1>8, <1>9, <1>10, <1>11, <1>12, <1>13,
       <1>14 DEF RunNext, Command, OwnServer

\* A body of the run's own server is of a regular file with a published name.
LEMMA StepServes == Orderly /\ ServesRegularFiles /\ [RunNext]_allVars => ServesRegularFiles'
<1> SUFFICES ASSUME Orderly /\ ServesRegularFiles, [RunNext]_allVars PROVE ServesRegularFiles'
    OBVIOUS
<1> USE ImporterAssumption, ScopedRunAssumption DEF Orderly, BaseAndStage, FetchTypeOK,
        FetchInOrder, StagesInOrder, HandlerInOrder, Own, IsThere, KindAt,
        ServesRegularFiles, Goto, Conclude, vars, dataVars, runVars, directoryVars,
        listenVars, requestHandlerVars, requestVars, bodyVars, resultVars
<1>1. CASE NoData \/ NameServer \/ PublishFails \/ ConfigureImports \/ WithoutImports
            \/ ImportsRefused \/ Finish \/ Interrupt
    <2>1. UNCHANGED <<pc, target, fromBase, outcome, rootThere, files, opened, overtaken>>
        BY <1>1 DEF NoData, NameServer, PublishFails, ConfigureImports, WithoutImports,
           ImportsRefused, Finish, Interrupt, Advance, fetchVars
    <2>2. UNCHANGED base \/ pc = "idle"
        BY <1>1 DEF NoData, NameServer, PublishFails, ConfigureImports, WithoutImports,
           ImportsRefused, Finish, Interrupt, Advance
    <2> HIDE DEF Orderly, FetchTypeOK, FetchInOrder, StagesInOrder, HandlerInOrder
    <2> QED
        BY <2>1, <2>2
<1>2. CASE PublishDirectory
    BY <1>2 DEF PublishDirectory, Advance, Start, fetchVars
<1>3. CASE CloseData
    BY <1>3 DEF CloseData, Advance, Close, fetchVars
<1>4. CASE StartFetch
    BY <1>4 DEF StartFetch, Fetch
<1>5. CASE FetchOn
    BY <1>5 DEF FetchOn, Fetcher, Forget, RefuseReference, BuildRequest, RefuseRedirect,
       FollowRedirect, RefuseStatus, AcceptStatus, BodyEnds, Return
<1>6. CASE OtherServer
    BY <1>6 DEF OtherServer, Server, Answers, Unreachable, ReadBody, BodyBreaksOff
<1>7. CASE ConnectionLost
    BY <1>7 DEF ConnectionLost, Unreachable, BodyBreaksOff
<1>8. CASE OwnHandler
    BY <1>8 DEF OwnHandler, Connect, Handle, Accept, RefuseRequest, OpenFile, Judge, Handling
<1>9. CASE OwnAnswers
    BY <1>9 DEF OwnAnswers, Answers
<1>10. CASE OwnCopies \/ CopyFails
    BY <1>10 DEF OwnCopies, ReadBody, CopyFails
<1>11. CASE DeadlinePasses
    BY <1>11 DEF DeadlinePasses, TimeOut
<1>12. CASE Goroutine
    BY <1>12 DEF Goroutine, ServeListener
<1>13. CASE OthersChange
    BY <1>13 DEF OthersChange, ChangeDirectory
<1>14. CASE UNCHANGED allVars
    BY <1>14 DEF allVars
<1> QED
    BY <1>1, <1>2, <1>3, <1>4, <1>5, <1>6, <1>7, <1>8, <1>9, <1>10, <1>11, <1>12, <1>13,
       <1>14 DEF RunNext, Command, OwnServer

\* A fetch that nothing overtook gives what the directory has.
LEMMA StepResolves ==
    Orderly /\ ResolvesWhatIsThere /\ [RunNext]_allVars => ResolvesWhatIsThere'
<1> SUFFICES ASSUME Orderly /\ ResolvesWhatIsThere, [RunNext]_allVars PROVE ResolvesWhatIsThere'
    OBVIOUS
<1> USE ImporterAssumption, ScopedRunAssumption DEF Orderly, BaseAndStage, FetchTypeOK,
        FetchInOrder, StagesInOrder, HandlerInOrder, Own, IsThere, KindAt,
        ResolvesWhatIsThere, Goto, Conclude, vars, dataVars, runVars, directoryVars,
        listenVars, requestHandlerVars, requestVars, bodyVars, resultVars
<1>1. CASE NoData \/ NameServer \/ PublishFails \/ ConfigureImports \/ WithoutImports
            \/ ImportsRefused \/ Finish \/ Interrupt
    <2>1. UNCHANGED <<pc, target, fromBase, outcome, rootThere, files, opened, overtaken>>
        BY <1>1 DEF NoData, NameServer, PublishFails, ConfigureImports, WithoutImports,
           ImportsRefused, Finish, Interrupt, Advance, fetchVars
    <2>2. UNCHANGED base \/ pc = "idle"
        BY <1>1 DEF NoData, NameServer, PublishFails, ConfigureImports, WithoutImports,
           ImportsRefused, Finish, Interrupt, Advance
    <2> HIDE DEF Orderly, FetchTypeOK, FetchInOrder, StagesInOrder, HandlerInOrder
    <2> QED
        BY <2>1, <2>2
<1>2. CASE PublishDirectory
    BY <1>2 DEF PublishDirectory, Advance, Start, fetchVars
<1>3. CASE CloseData
    BY <1>3 DEF CloseData, Advance, Close, fetchVars
<1>4. CASE StartFetch
    BY <1>4 DEF StartFetch, Fetch
<1>5. CASE FetchOn
    <2>1. CASE RefuseReference \/ BuildRequest \/ RefuseRedirect \/ FollowRedirect
                \/ AcceptStatus
        BY <1>5, <2>1 DEF FetchOn, Forget, RefuseReference, BuildRequest, RefuseRedirect,
           FollowRedirect, AcceptStatus
    <2>2. CASE RefuseStatus
        BY <1>5, <2>2 DEF FetchOn, RefuseStatus
    <2>3. CASE BodyEnds
        BY <1>5, <2>3 DEF FetchOn, BodyEnds
    <2>4. CASE Return
        BY <1>5, <2>4 DEF FetchOn, Return
    <2> QED
        BY <1>5, <2>1, <2>2, <2>3, <2>4 DEF FetchOn, Fetcher
<1>6. CASE OtherServer
    BY <1>6 DEF OtherServer, Server, Answers, Unreachable, ReadBody, BodyBreaksOff
<1>7. CASE ConnectionLost
    BY <1>7 DEF ConnectionLost, Unreachable, BodyBreaksOff
<1>8. CASE OwnHandler
    BY <1>8 DEF OwnHandler, Connect, Handle, Accept, RefuseRequest, OpenFile, Judge, Handling
<1>9. CASE OwnAnswers
    BY <1>9 DEF OwnAnswers, Answers
<1>10. CASE OwnCopies \/ CopyFails
    BY <1>10 DEF OwnCopies, ReadBody, CopyFails
<1>11. CASE DeadlinePasses
    BY <1>11 DEF DeadlinePasses, TimeOut
<1>12. CASE Goroutine
    BY <1>12 DEF Goroutine, ServeListener
<1>13. CASE OthersChange
    BY <1>13 DEF OthersChange, ChangeDirectory
<1>14. CASE UNCHANGED allVars
    BY <1>14 DEF allVars
<1> QED
    BY <1>1, <1>2, <1>3, <1>4, <1>5, <1>6, <1>7, <1>8, <1>9, <1>10, <1>11, <1>12, <1>13,
       <1>14 DEF RunNext, Command, OwnServer

\* The invariant holds before a flag is looked at.
LEMMA InitRun == RunInit => RunIInv
<1> SUFFICES ASSUME RunInit PROVE RunIInv
    OBVIOUS
<1> USE ImporterAssumption DEF RunInit, FetchInit, ServerInit
<1>1. RunTypeOK
    <2>1. 0 \in 0..MaxRedirects /\ 0 \in 0..Longest
        OBVIOUS
    <2>2. FetchTypeOK
        BY <2>1 DEF FetchTypeOK
    <2>3. ServerTypeOK
        BY DEF ServerTypeOK, Kinds
    <2> QED
        BY <2>2, <2>3 DEF RunTypeOK
<1>2. FetchInOrder /\ StagesInOrder
    BY ScopedRunAssumption DEF FetchInOrder, StagesInOrder
<1>3. HandlerInOrder
    BY DEF HandlerInOrder, Own
<1>4. OnlyPermitted /\ WholeWithinCap /\ ServesRegularFiles /\ ResolvesWhatIsThere
    BY DEF OnlyPermitted, WholeWithinCap, ServesRegularFiles, ResolvesWhatIsThere, Own
<1> QED
    BY <1>1, <1>2, <1>3, <1>4 DEF RunIInv

LEMMA StepRun == RunIInv /\ [RunNext]_allVars => RunIInv'
<1> SUFFICES ASSUME RunIInv, [RunNext]_allVars PROVE RunIInv'
    OBVIOUS
<1>1. /\ FetchTypeOK /\ ServerTypeOK /\ BaseAndStage
      /\ FetchInOrder /\ StagesInOrder /\ HandlerInOrder
      /\ OnlyPermitted /\ WholeWithinCap /\ ServesRegularFiles /\ ResolvesWhatIsThere
    BY DEF RunIInv, RunTypeOK, BaseAndStage
<1>2. FetchStep
    BY <1>1, RunTakesFetchSteps
<1>3. BaseShape
    BY <1>1, ImporterAssumption, ScopedRunAssumption DEF BaseAndStage, BaseShape
<1>4. FetchTypeOK' /\ FetchInOrder' /\ WholeWithinCap' /\ OnlyPermitted'
    BY <1>1, <1>2, <1>3, StepFetchTypes, StepFetchInOrder, StepWhole, StepPermitted
<1>5. RunTypeOK'
    BY <1>1, <1>4, StepServerTypes, StepBase DEF BaseAndStage, RunTypeOK
<1>6. StagesInOrder' /\ HandlerInOrder' /\ ServesRegularFiles' /\ ResolvesWhatIsThere'
    BY <1>1, StepStages, StepHandler, StepServes, StepResolves DEF Orderly
<1> QED
    BY <1>4, <1>5, <1>6 DEF RunIInv

\* RunIInv is inductive: a run serves regular files only, and what it fetches is
\* whole and within the cap, whatever is sent, stopped, timed out or swapped.
THEOREM Invariance == RunSpec => []RunIInv
BY InitRun, StepRun, PTL DEF RunSpec

\* A request of a run goes only where the policy permits, at whichever hop, but
\* for the first of a relative reference, which goes under the base.
THEOREM StaysPermitted == RunSpec => []OnlyPermitted
<1>1. RunIInv => OnlyPermitted
    BY DEF RunIInv
<1> QED
    BY <1>1, Invariance, PTL

\* A fetch that nothing overtook gives the file its reference names, and fails on
\* its status where there is none, whether the goroutine serves yet or not.
THEOREM Resolves == RunSpec => []ResolvesWhatIsThere
<1>1. RunIInv => ResolvesWhatIsThere
    BY DEF RunIInv
<1> QED
    BY <1>1, Invariance, PTL
=============================================================================
