---------------------------- MODULE SheetSession ----------------------------
(***************************************************************************)
(* What one internal/session.Session promises its frontends: every method  *)
(* is one indivisible step on the document, its dirty flag and the         *)
(* computed read model.  The module is the abstract specification Session  *)
(* implements, and the component the serve and TUI modules are built on.   *)
(*                                                                         *)
(* A document is an opaque member of Docs; the engine's editing rules are  *)
(* the constant operator Apply, which answers the edited document or       *)
(* Rejected (a malformed formula, an address past the limits).             *)
(***************************************************************************)
EXTENDS Naturals

CONSTANTS
    Docs,            \* the documents an edit can lead to
    InitialDoc,      \* the document the session was opened on
    CellEdits,       \* SetCell(at, text) requests
    StructuralEdits, \* insert, delete, duplicate and fill requests
    Apply(_, _),     \* the engine: Apply(doc, edit)
    Rejected,        \* the engine's refusal of a cell edit
    MaxTick          \* bound: no new pass is asked for after this many

ASSUME EngineAssumption ==
    /\ InitialDoc \in Docs
    /\ Rejected \notin Docs
    /\ \A d \in Docs, e \in CellEdits : Apply(d, e) \in Docs \cup {Rejected}
    /\ \A d \in Docs, e \in StructuralEdits : Apply(d, e) \in Docs
    /\ MaxTick \in Nat

Edits == CellEdits \cup StructuralEdits

VARIABLES
    doc,      \* Session.doc
    isDirty,  \* Session.isDirty
    computed, \* Session.computed, diagnostics and view: what a pass derived
    tick      \* Session.tick: the ordinal the next pass will read

sheetVars == <<doc, isDirty, computed, tick>>

\* What one pass derives: the document it evaluated and the ordinal it read.
Pass(d, t) == [doc |-> d, tick |-> t]

SheetTypeOK ==
    /\ doc \in Docs
    /\ isDirty \in BOOLEAN
    /\ computed \in [doc : Docs, tick : Nat]
    /\ tick \in Nat

\* NewEmbeddable parses the source and computes it eagerly: a clean session
\* whose first pass has already consumed ordinal 0.
SheetInit ==
    /\ doc = InitialDoc
    /\ isDirty = FALSE
    /\ computed = Pass(InitialDoc, 0)
    /\ tick = 1

\* recompute re-derives the read model from the document as it now stands.
Recomputed ==
    /\ computed' = Pass(doc', tick)
    /\ tick' = tick + 1

\* Mutated: an edit that does not look at the engine's error.
EditUnchecked(e) ==
    /\ doc' = Apply(doc, e)
    /\ isDirty' = TRUE
    /\ Recomputed

\* Mutated: an edit that forgets to recompute.
EditWithoutRecompute(e) ==
    /\ Apply(doc, e) # Rejected
    /\ doc' = Apply(doc, e)
    /\ isDirty' = TRUE
    /\ UNCHANGED <<computed, tick>>

\* SetCell and the structural edits: a refused edit changes nothing at all.
Edit(e) ==
    /\ Apply(doc, e) # Rejected
    /\ doc' = Apply(doc, e)
    /\ isDirty' = TRUE
    /\ Recomputed

\* Recompute and RefreshImports leave the source and the dirty flag alone.
Recompute ==
    /\ UNCHANGED <<doc, isDirty>>
    /\ Recomputed

MarkSaved ==
    /\ isDirty' = FALSE
    /\ UNCHANGED <<doc, computed, tick>>

SheetNext ==
    \/ \E e \in Edits : Edit(e)
    \/ Recompute
    \/ MarkSaved

SheetSpec == SheetInit /\ [][SheetNext]_sheetVars
=============================================================================
