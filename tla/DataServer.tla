----------------------------- MODULE DataServer -----------------------------
(***************************************************************************)
(* internal/dataserve: the server of one published directory, from Start   *)
(* to Close, and one request in hand, while other programs change the      *)
(* directory.  net/http (external) serves in a goroutine that Start leaves *)
(* behind and accepts what the kernel has queued on the listener.          *)
(***************************************************************************)
EXTENDS Naturals, Sequences, SequencesExt

CONSTANTS
    Files,      \* paths of the directory another program may change
    MediaTypes  \* [name -> media type], of the names with a published extension

VARIABLES
    rootThere,  \* the directory can be opened
    files,      \* files[p]: what is at the path p
    listener,   \* the listening socket
    goroutine,  \* the goroutine of Start: http.Server.Serve
    inShutdown, \* http.Server.inShutdown
    handler,    \* where the request in hand stands
    opened,     \* what the handler has opened
    answer      \* the status it answered with, 0 until then

directoryVars == <<rootThere, files>>
listenVars == <<listener, goroutine, inShutdown>>
requestHandlerVars == <<handler, opened, answer>>
dataVars == <<directoryVars, listenVars, requestHandlerVars>>

\* A link that leads out of the root does not open, as if absent.
Kinds == {"absent", "regular", "directory", "fifo"}

ServerTypeOK ==
    /\ rootThere \in BOOLEAN
    /\ files \in [Files -> Kinds]
    /\ listener \in {"none", "bound", "closed"}
    /\ goroutine \in {"none", "launched", "serving", "ended"}
    /\ inShutdown \in BOOLEAN
    /\ handler \in {"none", "queued", "accepted", "judging", "copying", "done"}
    /\ opened \in Kinds
    /\ answer \in {0, 200, 404, 500}
    /\ (listener = "none") = (goroutine = "none")

\* The directory as its owner left it.
ServerInit ==
    /\ rootThere = TRUE
    /\ files = [p \in Files |-> "regular"]
    /\ listener = "none" /\ goroutine = "none" /\ inShutdown = FALSE
    /\ handler = "none" /\ opened = "absent" /\ answer = 0

\* Another program changes what is at a path, or the directory itself.
ChangeDirectory ==
    /\ \/ \E p \in Files, k \in Kinds :
            files' = [files EXCEPT ![p] = k] /\ UNCHANGED rootThere
       \/ rootThere' = ~rootThere /\ UNCHANGED files
    /\ UNCHANGED <<listenVars, requestHandlerVars>>
-----------------------------------------------------------------------------
\* Mutated: the listener is closed on the way out, as after an error.
StartClosing ==
    /\ rootThere
    /\ listener' = "closed"
    /\ goroutine' = "launched"
    /\ UNCHANGED <<directoryVars, inShutdown, requestHandlerVars>>

\* Start: the root opens, the address binds, and a goroutine is to serve.
Start ==
    /\ rootThere
    /\ listener' = "bound"
    /\ goroutine' = "launched"
    /\ UNCHANGED <<directoryVars, inShutdown, requestHandlerVars>>

\* Serve starts.  It closes the listener itself when Close came before it.
ServeListener ==
    /\ goroutine = "launched"
    /\ IF inShutdown
       THEN goroutine' = "ended" /\ listener' = "closed"
       ELSE goroutine' = "serving" /\ UNCHANGED listener
    /\ UNCHANGED <<directoryVars, inShutdown, requestHandlerVars>>

\* Close closes the listeners Serve has told the server of, and no other.
Close ==
    /\ inShutdown' = TRUE
    /\ IF goroutine = "serving"
       THEN listener' = "closed" /\ goroutine' = "ended"
       ELSE UNCHANGED <<listener, goroutine>>
    /\ UNCHANGED <<directoryVars, requestHandlerVars>>
-----------------------------------------------------------------------------
Handling(from, to) == handler = from /\ handler' = to

\* A bound listener queues a connection, served as yet or not.
Connect ==
    /\ listener = "bound"
    /\ Handling("none", "queued")
    /\ UNCHANGED <<directoryVars, listenVars, opened, answer>>

Accept ==
    /\ goroutine = "serving"
    /\ Handling("queued", "accepted")
    /\ UNCHANGED <<directoryVars, listenVars, opened, answer>>

Published(path) == path # <<>> /\ Last(path) \in DOMAIN MediaTypes

KindAt(path) == IF path \in Files THEN files[path] ELSE "absent"

\* An extension not published, a root gone since, a file that does not open.
RefuseRequest(path) ==
    /\ Handling("accepted", "done")
    /\ \/ ~Published(path) /\ answer' = 404
       \/ Published(path) /\ ~rootThere /\ answer' = 500
       \/ Published(path) /\ rootThere /\ KindAt(path) = "absent" /\ answer' = 404
    /\ UNCHANGED <<directoryVars, listenVars, opened>>

\* Mutated: a blocking open, which waits for a writer of the FIFO.
OpenBlocking(path) ==
    /\ Handling("accepted", "judging")
    /\ Published(path) /\ rootThere
    /\ KindAt(path) \notin {"absent", "fifo"}
    /\ opened' = KindAt(path)
    /\ UNCHANGED <<directoryVars, listenVars, answer>>

\* openFlags: the open of a FIFO returns at once.
OpenFile(path) ==
    /\ Handling("accepted", "judging")
    /\ Published(path) /\ rootThere
    /\ KindAt(path) # "absent"
    /\ opened' = KindAt(path)
    /\ UNCHANGED <<directoryVars, listenVars, answer>>

\* Mutated: Stat of the name rather than of what was opened.
JudgeName(path) ==
    /\ IF KindAt(path) = "regular"
       THEN Handling("judging", "copying") /\ answer' = 200
       ELSE Handling("judging", "done") /\ answer' = 404
    /\ UNCHANGED <<directoryVars, listenVars, opened>>

\* writeFile: whatever is at the path by now, what was opened is judged.
Judge(path) ==
    /\ IF opened = "regular"
       THEN Handling("judging", "copying") /\ answer' = 200
       ELSE Handling("judging", "done") /\ answer' = 404
    /\ UNCHANGED <<directoryVars, listenVars, opened>>

Handle(path) ==
    \/ Accept
    \/ RefuseRequest(path)
    \/ OpenFile(path)
    \/ Judge(path)

\* The request is over for its client.
Forget ==
    /\ handler' = "none" /\ opened' = "absent" /\ answer' = 0
    /\ UNCHANGED <<directoryVars, listenVars>>
=============================================================================
