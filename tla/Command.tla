------------------------------- MODULE Command -------------------------------
(***************************************************************************)
(* The commands that read a sheet, write an answer and exit: render,       *)
(* parse, explain, from-json, eval, and check, which takes many sheets;    *)
(* and the references that are followed, where Loader says, as a sheet is  *)
(* computed.  Reading a sheet is one step here, with the verdicts that     *)
(* BoundedRead gives; parsing, computing and the diagnostics are the       *)
(* engine's (external), and have any of their outcomes.                    *)
(***************************************************************************)
EXTENDS Loader, Projection

CONSTANTS
    None, Stdin,
    Cells,     \* what a cell of a grid may show
    Computeds, \* the grids a sheet may be computed to, each with its view
    MaxSheets, \* bound: sheets on the command line of check
    MaxChain   \* bound: sheets deep that references are followed

ASSUME CommandAssumption ==
    /\ {MaxSheets, MaxChain} \subseteq Nat \ {0}
    /\ None \notin 0..2 /\ None \notin {"missing", "malformed", "refused"}
    /\ \A c \in Computeds : c.grid \in Seq(Seq(Cells)) /\ c.view.headerRows \subseteq DOMAIN c.grid
    /\ Stdin \notin Sources

VARIABLES
    run,      \* the command line
    stage,    \* where the command stands
    outcomes, \* what came of each sheet so far
    worst,    \* the outcome runCheck keeps of them
    chain,    \* the sheets being computed, each referred to by the one before
    out,      \* what stdout got of the answer: nothing, part, or the whole;
              \* the help of a usage mistake is none of it
    printed,  \* the table render printed, and what of, or None
    exit      \* the exit code, or None

commandVars == <<run, stage, outcomes, worst, chain, out, printed, exit>>

Computing == {"render", "parse", "explain"}
Kinds == Computing \cup {"check", "fromJSON", "eval"}

\* What is wrong with the command line that only the command finds out: an
\* argument that is missing or malformed, or one that is refused once there is
\* a grid: --hidden, --format, --cell, the cell explained.
Faults(kind) ==
    {None} \cup CASE kind = "render" -> {"refused"}
                  [] kind = "explain" -> {"missing", "malformed", "refused"}
                  [] kind = "eval" -> {"missing", "malformed"}
                  [] OTHER -> {}

\* Stdin is one sheet, so check is given it alone; paths matter to references.
Runs == {r \in UNION {
    [kind : {k}, fault : Faults(k), source : Sources \cup {Stdin},
     isUnconfined : BOOLEAN, sheets : 1..(IF k = "check" THEN MaxSheets ELSE 1)] : k \in Kinds} :
        /\ r.isUnconfined => r.kind \in Computing /\ r.source # Stdin
        /\ r.sheets > 1 => r.source # Stdin}

\* nil, ErrDiagnostics, ErrSyntax, ErrUsage, and every other error.
Outcomes == {"nil", "diagnostics", "syntax", "usage", "other"}

\* A sheet on the chain: its name, its place, and the reference that led to it.
Root == Dir(run.source)
Top == [name |-> Base(run.source), place |-> Place(Cwd, run.source), ref |-> None]

CommandTypeOK ==
    /\ run \in Runs
    /\ stage \in {"start", "open", "read", "parsed", "compute", "emit", "sheetDone", "exit"}
    /\ outcomes \in BoundedSeq(Outcomes, MaxSheets)
    /\ worst \in Outcomes
    /\ Len(chain) <= MaxChain
    /\ out \in {"nothing", "part", "whole"}
    /\ exit \in 0..2 \cup {None}
    /\ (exit # None) = (stage = "exit")

CommandInit ==
    /\ run \in Runs
    /\ stage = "start"
    /\ outcomes = <<>>
    /\ worst = "nil"
    /\ chain = <<>>
    /\ out = "nothing"
    /\ printed = None
    /\ exit = None

GoOn(from, to) ==
    /\ stage = from /\ stage' = to
    /\ UNCHANGED <<run, outcomes, worst, chain, out, printed, exit>>

\* The sheet at hand is done with.
Finish(outcome) ==
    /\ stage' = "sheetDone"
    /\ outcomes' = Append(outcomes, outcome)
    /\ UNCHANGED <<run, worst, chain, exit>>

Fails(outcome) == Finish(outcome) /\ UNCHANGED <<out, printed>>

\* explain parses its cell before it opens anything.
Start ==
    /\ stage = "start"
    /\ IF run.kind # "explain" \/ run.fault \in {None, "refused"} THEN GoOn("start", "open")
       ELSE Fails(IF run.fault = "missing" THEN "usage" ELSE "other")

\* sourcePath.open
OpenSheet ==
    /\ run.kind # "eval"
    /\ \/ GoOn("open", "read")
       \/ stage = "open" /\ run.source # Stdin /\ Fails("other")

\* readBounded, and the parse of what it returns.
ReadSheet ==
    /\ run.kind # "fromJSON"
    /\ \/ GoOn("read", "parsed")
       \/ stage = "read" /\ (Fails("other") \/ Fails("syntax"))

\* runFromJSON: whatever ends the decoding is a syntax error, a read that fails
\* too; a grid over budget is another error.
Decode ==
    /\ run.kind = "fromJSON"
    /\ \/ GoOn("read", "emit")
       \/ stage = "read" /\ (Fails("other") \/ Fails("syntax"))

\* checkSheet: the findings go to stderr, and whether they got there is not asked.
CheckSheet ==
    /\ stage = "parsed" /\ run.kind = "check"
    /\ Fails("diagnostics") \/ Fails("nil")

\* runEval: the expression, from the argument or stdin, is a sheet of one cell.
Evaluate ==
    /\ run.kind = "eval"
    /\ \/ run.fault = None /\ GoOn("open", "emit")
       \/ stage = "open" /\ run.fault = "missing" /\ Fails("usage")
       \/ stage = "open" /\ run.fault # "missing" /\ Fails("other")
       \/ stage = "open" /\ run.fault = None /\ Fails("syntax")

\* computeOptions: stdin has no loader, and nothing refers from it.
Compute ==
    /\ stage = "parsed" /\ run.kind \in Computing
    /\ stage' = "compute"
    /\ chain' = IF run.source = Stdin THEN <<>> ELSE <<Top>>
    /\ UNCHANGED <<run, outcomes, worst, out, printed, exit>>

\* Mutated: a sheet goes by the reference that led to it.
NamedByRef(ref) == ref

\* The name the loader gives the sheet a reference on the chain's end leads to.
Named(ref) == Target(run.isUnconfined, Root, Last(chain).name, ref)

\* The loader opens, reads and parses the sheet referred to.  A reference to a
\* name on the chain, or to what cannot be loaded, is an error value in its
\* cell, and the computing goes on.
LoadReference(ref) ==
    /\ stage = "compute"
    /\ chain # <<>> /\ Len(chain) < MaxChain
    /\ \A i \in DOMAIN chain : chain[i].name # Named(ref)
    /\ Opens(run.isUnconfined, Root, Named(ref))
    /\ chain' = Append(chain, [name |-> Named(ref), ref |-> ref,
                    place |-> PlaceOf(run.isUnconfined, Root, Named(ref))])
    /\ UNCHANGED <<run, stage, outcomes, worst, out, printed, exit>>

\* The sheet referred to is computed.
Return ==
    /\ stage = "compute" /\ Len(chain) > 1
    /\ chain' = Front(chain)
    /\ UNCHANGED <<run, stage, outcomes, worst, out, printed, exit>>

Computed == Len(chain) <= 1 /\ GoOn("compute", "emit")

\* parse without --value
ParseOnly == run.kind = "parse" /\ GoOn("parsed", "emit")

\* Mutated: the error of a write is nobody's.
EmitUnchecked ==
    /\ stage = "emit"
    /\ \/ run.fault = "refused" /\ Fails("other")
       \/ run.fault = None /\ out' \in {"nothing", "part", "whole"} /\ Finish("nil")
    /\ UNCHANGED printed

\* The table of format html: of the grid computed, under the --hidden given.
WriteGrid ==
    IF run.kind = "render"
    THEN \E computed \in Computeds, policy \in Policies :
            printed' = [computed |-> computed, policy |-> policy,
                        table |-> HTML(Project(computed.grid, computed.view, policy))]
    ELSE UNCHANGED printed

\* What comes of an answer that is cut short: writeTraceText does not ask.
CutShort == IF run.kind = "explain" THEN {"other", "nil"} ELSE {"other"}

\* project, format, writeCell and ExplainWith refuse before a byte is written;
\* the one answer then goes out whole, or is cut short.
Emit ==
    /\ stage = "emit"
    /\ \/ run.fault = "refused" /\ Fails("other")
       \/ run.fault = None /\ out' = "whole" /\ WriteGrid /\ Finish("nil")
       \/ /\ run.fault = None
          /\ out' \in {"nothing", "part"}
          /\ \E outcome \in CutShort : Finish(outcome)
          /\ UNCHANGED printed

\* severityOf
Severity(outcome) ==
    CASE outcome = "nil" -> 0
      [] outcome = "diagnostics" -> 1
      [] outcome = "syntax" -> 3
      [] OTHER -> 2

\* Mutated: the sheet last checked decides.
WorseOfLast(a, b) == b

\* worseOutcome
Worse(a, b) == IF Severity(a) >= Severity(b) THEN a ELSE b

NextSheet ==
    /\ stage = "sheetDone"
    /\ worst' = Worse(worst, Last(outcomes))
    /\ Len(outcomes) < run.sheets
    /\ stage' = "open"
    /\ chain' = <<>>
    /\ UNCHANGED <<run, outcomes, out, printed, exit>>

ExitCode(outcome) ==
    IF outcome = "nil" THEN 0 ELSE IF outcome \in {"syntax", "usage"} THEN 2 ELSE 1

Exit ==
    /\ stage = "sheetDone"
    /\ worst' = Worse(worst, Last(outcomes))
    /\ Len(outcomes) = run.sheets
    /\ stage' = "exit"
    /\ exit' = ExitCode(worst')
    /\ UNCHANGED <<run, outcomes, chain, out, printed>>

CommandNext ==
    \/ Start \/ OpenSheet \/ ReadSheet \/ Decode \/ CheckSheet \/ Evaluate
    \/ Compute \/ (\E ref \in Refs : LoadReference(ref)) \/ Return \/ Computed \/ ParseOnly
    \/ Emit \/ NextSheet \/ Exit

CommandSpec == CommandInit /\ [][CommandNext]_commandVars
-----------------------------------------------------------------------------
\* "Every sheet is checked even if an earlier fails, and the run exits with the
\* severest result": whatever the order of the sheets, a syntax error in one is
\* exit 2, and success is success of all.
ExitIsWorst ==
    exit # None =>
        /\ Len(outcomes) = run.sheets
        /\ (exit = 0) = (Range(outcomes) = {"nil"})
        /\ (exit = 2) = (Range(outcomes) \cap {"syntax", "usage"} # {})

\* How many outcomes worst is of: the last one is taken up as its sheet is left.
Taken == IF stage = "sheetDone" THEN Len(outcomes) - 1 ELSE Len(outcomes)

\* What makes it so: worst is the severest of them, a usage mistake is never one of
\* check's, and only the last sheet's outcome exits.
KeepsTheWorst ==
    /\ worst = "nil" \/ \E i \in 1..Taken : outcomes[i] = worst
    /\ \A i \in 1..Taken : Severity(outcomes[i]) <= Severity(worst)
    /\ run.kind = "check" => \A i \in DOMAIN outcomes : outcomes[i] # "usage"
    /\ stage = "sheetDone" => Len(outcomes) > 0
    /\ stage \notin {"sheetDone", "exit"} => Len(outcomes) < run.sheets
    /\ Len(outcomes) <= run.sheets
    /\ stage = "exit" => Len(outcomes) = run.sheets /\ exit = ExitCode(worst)

\* Nothing is on stdout before the answer, and what is there then agrees with the
\* outcome of the sheet.
AnswersAsItEnds ==
    /\ stage = "compute" => run.kind \in Computing
    /\ stage = "emit" => run.kind # "check"
    /\ stage \notin {"sheetDone", "exit"} \/ run.kind = "check" \/ run.fault # None => out = "nothing"
    /\ stage \in {"sheetDone", "exit"} /\ run.kind # "check" =>
        /\ Last(outcomes) = "nil" => out = "whole" \/ run.kind = "explain"
        /\ out = "whole" => Last(outcomes) = "nil"
        /\ Last(outcomes) \in {"syntax", "usage"} => out = "nothing"

\* "stdout carries only the computed grid": success is the whole answer on it,
\* failure never is, and what was refused, or only checked, puts none of it there.
\* The text of explain succeeds whatever went out.
AnswersWholeOrNothing ==
    exit # None =>
        /\ exit = 0 => out = "whole" \/ run.kind \in {"check", "explain"}
        /\ exit # 0 => out # "whole"
        /\ exit = 2 \/ run.fault # None \/ run.kind = "check" => out = "nothing"

\* Each sheet on the chain has a clean name, the one the sheet before it and the
\* reference give, and no other there has it.
Linked ==
    /\ chain # <<>> => run.source \in Sources /\ chain[1] = Top
    /\ \A i \in 1..Len(chain) :
        LET link == chain[i]
        IN  /\ NamesASheet(link.name) /\ link.name = Clean(link.name)
            /\ \A j \in 1..(i - 1) : chain[j].name # link.name
            /\ i > 1 =>
                /\ link.ref \in Refs
                /\ link.name = Target(run.isUnconfined, Root, chain[i - 1].name, link.ref)
                /\ link.place = PlaceOf(run.isUnconfined, Root, link.name)
                /\ run.isUnconfined \/ Confined(link.name)

CommandIInv ==
    /\ CommandTypeOK /\ KeepsTheWorst /\ AnswersAsItEnds /\ Linked
    /\ ExitIsWorst /\ AnswersWholeOrNothing

\* The numbering of a set of positions by 1..n, in their order.
InOrder(n, positions) ==
    {at \in [1..n -> positions] :
        /\ \A p \in positions : \E i \in 1..n : at[i] = p
        /\ \A i, j \in 1..n : i < j => at[i] < at[j]}

\* "a hidden row is still data": what is printed is the whole grid, or what its view
\* does not hide of it, row by row and cell by cell in order; the rows it declares
\* headers, wherever they landed, are the ones marked, and the thead is the block of
\* them at the top.
PrintsProjection ==
    printed # None =>
        LET grid == printed.computed.grid
            view == printed.computed.view
            head == printed.table.head
            rows == head \o printed.table.body
            Hidden(declared) == IF printed.policy = "drop" THEN declared ELSE {}
        IN  /\ \E at \in InOrder(Len(rows), DOMAIN grid \ Hidden(view.hiddenRows)) :
                \A i \in DOMAIN rows :
                    LET row == grid[at[i]]
                        cells == rows[i].cells
                    IN  /\ rows[i].isHeader = (at[i] \in view.headerRows)
                        /\ \E of \in InOrder(Len(cells), DOMAIN row \ Hidden(view.hiddenCols)) :
                            \A c \in DOMAIN cells : cells[c] = row[of[c]]
            /\ \A i \in DOMAIN rows : i <= Len(head) => rows[i].isHeader
            /\ Len(head) < Len(rows) => ~rows[Len(head) + 1].isHeader

\* Where the sheet that makes a reference lies is where the reference leads from:
\* not what the command, or a chain of references, called that sheet.
Beside(i) ==
    chain[i].place =
        IF run.isUnconfined THEN Place(Dir(chain[i - 1].place), chain[i].ref)
        ELSE Join(Dir(chain[i - 1].place), chain[i].ref)

\* A sheet that is not the top one, and has the bare name of one.
TakenForTop(i) == run.isUnconfined /\ i > 1 /\ Dir(chain[i].name) = Here /\ Root # Here

\* "a reference resolves relative to the referencing sheet's own directory", in
\* both loaders, unless Unconfined takes the sheet for the top one.
ResolvesBesideReferrer ==
    \A i \in 2..Len(chain) : Beside(i) \/ TakenForTop(i - 1)

\* "the default confines them to it": however many references deep, what a confined one
\* leads to is in the directory of the top sheet or below.
StaysInDirectory ==
    ~run.isUnconfined =>
        \A i \in DOMAIN chain : IsPrefix(Place(Cwd, Root).parts, chain[i].place.parts)

\* Names are "used for cycle detection": a confined sheet never finds itself
\* being computed twice over, since a place in the root has one name.
ComputesNoSheetTwice ==
    ~run.isUnconfined => IsInjective([i \in DOMAIN chain |-> chain[i].place])

\* "bare/relative against the referencing sheet's own directory, absolute as
\* given": the promise of Unconfined, of every sheet.
UnconfinedResolvesBeside ==
    run.isUnconfined => \A i \in 2..Len(chain) : Beside(i)

\* "an absolute path ... is rejected (#REF!)": the promise of FS.
AbsoluteIsRejected ==
    ~run.isUnconfined => \A i \in 2..Len(chain) : ~chain[i].ref.abs
=============================================================================
