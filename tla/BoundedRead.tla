----------------------------- MODULE BoundedRead -----------------------------
(***************************************************************************)
(* How a spreadsheet is read under a cell budget: the census before any    *)
(* byte of a file is buffered, the census of what was buffered, and the    *)
(* doubling checkpoints of a stream, while another program may append to   *)
(* the file or truncate it.  The census is the engine's (external).        *)
(***************************************************************************)
EXTENDS Naturals, Sequences, SequencesExt

CONSTANTS
    Bytes,
    Census(_),  \* tsvsheet.Census: the cells of a sheet, or of its beginning
    Budget,     \* limits.EffectiveResidentCells()
    Checkpoint, \* censusCheckpoint
    MaxLength   \* bound: the longest source

Documents == BoundedSeq(Bytes, MaxLength)

\* "a prefix's cell count only ever grows as more bytes arrive".
CensusGrows ==
    \A d \in Documents :
        /\ Census(d) \in Nat
        /\ \A n \in 0..Len(d) : \A m \in 0..n : Census(SubSeq(d, 1, m)) <= Census(SubSeq(d, 1, n))

ASSUME BoundedReadAssumption ==
    /\ {Budget, MaxLength} \subseteq Nat
    /\ Checkpoint \in Nat \ {0}
    /\ CensusGrows

VARIABLES
    source,     \* what the file holds, or all that will come down the stream
    reader,     \* who reads, and what
    pc,         \* where the reading stands
    size,       \* the size Stat reported
    buf,        \* the bytes buffered
    checkpoint, \* the length of the buffer the next census is due at
    ended,      \* how CopyN ended: short of the checkpoint, or not
    verdict,    \* what the caller is told
    changed     \* history: the file was written to since it was opened

readVars == <<pc, size, buf, checkpoint, ended, verdict>>
vars == <<source, reader, readVars, changed>>

OverBudget(bytes) == Census(bytes) > Budget

\* readBounded on a file and on a stream; loader.parse on a referenced sheet;
\* loadEditable on the sheet serve and the editor open.
Readers == {"file", "stream", "reference", "editable"}

TypeOK ==
    /\ source \in Documents
    /\ reader \in Readers
    /\ pc \in {"open", "census", "read", "vet", "copy", "vetPrefix", "done"}
    /\ size \in 0..MaxLength
    /\ buf \in Documents
    /\ checkpoint \in Nat
    /\ ended \in {"no", "eof", "error"}
    /\ verdict \in {"none", "ok", "tooLarge", "error"}
    /\ pc = "done" <=> verdict # "none"
    /\ changed \in BOOLEAN

Init ==
    /\ source \in Documents
    /\ reader \in Readers
    /\ pc = "open"
    /\ size = 0
    /\ buf = <<>>
    /\ checkpoint = Checkpoint
    /\ ended = "no"
    /\ verdict = "none"
    /\ changed = FALSE

Conclude(v) == pc' = "done" /\ verdict' = v
Proceed(to) == pc' = to /\ UNCHANGED verdict

\* Mutated: buffered first, censused after.
OpenBuffering ==
    /\ pc = "open"
    /\ size' = Len(source)
    /\ Proceed(IF reader = "stream" THEN "copy" ELSE "read")
    /\ UNCHANGED <<source, reader, buf, checkpoint, ended, changed>>

\* Stat, for the two that vet the file where it lies.
Open ==
    /\ pc = "open"
    /\ size' = Len(source)
    /\ Proceed(CASE reader = "stream" -> "copy"
                 [] reader = "editable" -> "read"
                 [] OTHER -> "census")
    /\ UNCHANGED <<source, reader, buf, checkpoint, ended, changed>>

\* Opening, the Stat, a read of the census or of the buffering fails.
Fail ==
    /\ pc \in {"open", "census", "read"}
    /\ Conclude("error")
    /\ UNCHANGED <<source, reader, size, buf, checkpoint, ended, changed>>

\* The census reads size bytes, which a truncation may have taken: an error.
CensusFile ==
    /\ pc = "census"
    /\ size <= Len(source)
    /\ IF OverBudget(SubSeq(source, 1, size)) THEN Conclude("tooLarge") ELSE Proceed("read")
    /\ UNCHANGED <<source, reader, size, buf, checkpoint, ended, changed>>

\* A Read returns some of the bytes past those it returned before.
Arrive(upTo) ==
    /\ \E n \in (Len(buf) + 1)..Len(source) :
        /\ n <= upTo
        /\ buf' = buf \o SubSeq(source, Len(buf) + 1, n)

Read ==
    /\ pc = "read"
    /\ Arrive(MaxLength)
    /\ UNCHANGED <<source, reader, pc, size, checkpoint, ended, verdict, changed>>

ReadEnds ==
    /\ pc = "read"
    /\ Len(buf) >= Len(source)
    /\ Proceed("vet")
    /\ UNCHANGED <<source, reader, size, buf, checkpoint, ended, changed>>

\* Mutated: the census of the file is taken for that of the bytes.
VetNothing ==
    /\ pc = "vet"
    /\ Conclude("ok")
    /\ UNCHANGED <<source, reader, size, buf, checkpoint, ended, changed>>

\* readVettedFile and loadEditable; ParseWith counts for a reference.
VetBytes ==
    /\ pc = "vet"
    /\ Conclude(IF OverBudget(buf) THEN "tooLarge" ELSE "ok")
    /\ UNCHANGED <<source, reader, size, buf, checkpoint, ended, changed>>

\* io.CopyN up to the checkpoint.
Copy ==
    /\ pc = "copy"
    /\ Arrive(checkpoint)
    /\ UNCHANGED <<source, reader, pc, size, checkpoint, ended, verdict, changed>>

CopyReturns ==
    /\ pc = "copy"
    /\ ended' \in IF Len(buf) = checkpoint THEN {"no"}
                  ELSE IF Len(buf) = Len(source) THEN {"eof", "error"} ELSE {"error"}
    /\ Proceed("vetPrefix")
    /\ UNCHANGED <<source, reader, size, buf, checkpoint, changed>>

\* Mutated: a stream that reaches a checkpoint in budget is taken to be whole.
VetPrefixOnce ==
    /\ pc = "vetPrefix"
    /\ Conclude(IF OverBudget(buf) THEN "tooLarge" ELSE IF ended = "error" THEN "error" ELSE "ok")
    /\ UNCHANGED <<source, reader, size, buf, checkpoint, ended, changed>>

\* readStream: the budget before the error, then streamEnd, or on it goes.
VetPrefix ==
    /\ pc = "vetPrefix"
    /\ IF OverBudget(buf) THEN Conclude("tooLarge")
       ELSE IF ended = "no" THEN Proceed("copy")
       ELSE Conclude(IF ended = "eof" THEN "ok" ELSE "error")
    /\ checkpoint' = IF pc' = "copy" THEN 2 * checkpoint ELSE checkpoint
    /\ UNCHANGED <<source, reader, size, buf, ended, changed>>

\* Another program appends to the file or truncates it while it is read.
ChangeFile ==
    /\ pc \notin {"open", "done"} /\ reader # "stream"
    /\ \/ Len(source) < MaxLength /\ \E b \in Bytes : source' = Append(source, b)
       \/ \E n \in 0..(Len(source) - 1) : source' = SubSeq(source, 1, n)
    /\ changed' = TRUE
    /\ UNCHANGED <<reader, readVars>>

Next ==
    \/ Open \/ Fail \/ CensusFile \/ Read \/ ReadEnds \/ VetBytes
    \/ Copy \/ CopyReturns \/ VetPrefix
    \/ ChangeFile

Spec == Init /\ [][Next]_vars
-----------------------------------------------------------------------------
\* "The bytes returned are exactly the bytes vetted, so the plain parse that
\* follows cannot exceed the budget": whatever grew, and whenever.
ParsedIsBudgeted == verdict = "ok" => ~OverBudget(buf)

\* "an over-budget file refuses in O(index) memory": a file, or a referenced
\* sheet, that was over budget when it was opened and nobody wrote to is refused
\* with nothing of it buffered.  "within a factor of two of the bytes that proved
\* it": a stream is refused with less than twice its shortest over-budget prefix
\* in hand, or in its first checkpoint.
RefusedEarly ==
    /\ reader \in {"file", "reference"} /\ ~changed /\ OverBudget(source) => buf = <<>>
    /\ reader = "stream" =>
        \A n \in 0..Len(buf) :
            OverBudget(SubSeq(source, 1, n)) => Len(buf) <= Checkpoint \/ Len(buf) < 2 * n

\* "an in-budget stream still arrives whole", and so does a file nobody wrote
\* to: it is accepted with every byte, and refused only when it is over budget.
ArrivesWhole ==
    ~changed =>
        /\ verdict = "ok" => buf = source
        /\ verdict = "tooLarge" => OverBudget(source)

\* The first n bytes of the source.
Sent(n) == SubSeq(source, 1, n)

\* What makes it so.  Nobody writes to a stream; what is buffered is how the source
\* begins, unless it was written to, and all of it once the reading has ended.
ReadsFromTheStart ==
    /\ reader = "stream" => ~changed /\ pc \notin {"census", "read", "vet"}
    /\ reader # "stream" => pc \notin {"copy", "vetPrefix"}
    /\ ~changed => Len(buf) <= Len(source) /\ buf = Sent(Len(buf))
    /\ ~changed /\ pc = "census" => size = Len(source)
    /\ ~changed /\ (pc = "vet" \/ (pc = "vetPrefix" /\ ended = "eof")) => buf = source

\* Nothing of a file is buffered but under a census that was in budget.
BuffersWhatIsVetted ==
    reader \in {"file", "reference"} =>
        /\ pc \in {"open", "census"} => buf = <<>>
        /\ ~changed /\ (pc \in {"read", "vet"} \/ buf # <<>>) => ~OverBudget(source)

\* A stream is read up to the checkpoint; past the first one, to twice a prefix
\* that was in budget.
DoublesWhatIsVetted ==
    reader = "stream" =>
        /\ Len(buf) <= checkpoint
        /\ pc = "vetPrefix" /\ ended = "no" => Len(buf) = checkpoint
        /\ \/ checkpoint = Checkpoint
           \/ \E n \in 0..Len(buf) : checkpoint = 2 * n /\ ~OverBudget(Sent(n))

IInv ==
    /\ TypeOK /\ ReadsFromTheStart /\ BuffersWhatIsVetted /\ DoublesWhatIsVetted
    /\ ParsedIsBudgeted /\ RefusedEarly /\ ArrivesWhole
=============================================================================
