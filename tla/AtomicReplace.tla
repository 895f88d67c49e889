---------------------------- MODULE AtomicReplace ----------------------------
(***************************************************************************)
(* What cli.saveAtomic promises: a save replaces the whole sheet file with *)
(* the bytes it was given, in one step, or leaves it alone and reports an  *)
(* error; a process that dies mid-save did one or the other.               *)
(***************************************************************************)
CONSTANTS
    Savers,   \* the goroutines that save, of every process at work on a sheet
    Contents, \* the bytes a save may be asked to write
    OldSheets,\* what the sheet file may hold at first
    Nothing   \* no save is asked for

VARIABLES
    file,  \* the sheet file
    asked, \* asked[s]: the bytes s was given
    status \* status[s]: how far s has come

saveVars == <<file, asked, status>>

SaveTypeOK ==
    /\ file \in Contents \cup OldSheets
    /\ asked \in [Savers -> Contents \cup {Nothing}]
    /\ status \in [Savers -> {"idle", "saving", "replaced", "refused", "dead"}]

SaveInit ==
    /\ file \in OldSheets
    /\ asked = [s \in Savers |-> Nothing]
    /\ status = [s \in Savers |-> "idle"]

Becomes(s, from, to) ==
    /\ status[s] = from
    /\ status' = [status EXCEPT ![s] = to]

BeginSave(s, data) ==
    /\ Becomes(s, "idle", "saving")
    /\ asked' = [asked EXCEPT ![s] = data]
    /\ UNCHANGED file

Replace(s) ==
    /\ Becomes(s, "saving", "replaced")
    /\ file' = asked[s]
    /\ UNCHANGED asked

Refuse(s) ==
    /\ Becomes(s, "saving", "refused")
    /\ UNCHANGED <<file, asked>>

\* The call returns: nil after a replacement, ErrWriteFile after a refusal.
Leave(s, outcome) ==
    /\ Becomes(s, outcome, "idle")
    /\ asked' = [asked EXCEPT ![s] = Nothing]
    /\ UNCHANGED file

ReturnNil(s) == Leave(s, "replaced")
ReturnErr(s) == Leave(s, "refused")

\* The savers of a process die with it.
Die(dying) ==
    /\ status' = [s \in Savers |-> IF s \in dying THEN "dead" ELSE status[s]]
    /\ UNCHANGED <<file, asked>>

SaveNext ==
    \/ \E s \in Savers :
        \/ \E data \in Contents : BeginSave(s, data)
        \/ Replace(s)
        \/ Refuse(s)
        \/ ReturnNil(s)
        \/ ReturnErr(s)
    \/ \E dying \in SUBSET Savers : Die(dying)

SaveSpec == SaveInit /\ [][SaveNext]_saveVars
=============================================================================
