-------------------------------- MODULE Loader --------------------------------
(***************************************************************************)
(* Where a sheet's reference to another sheet leads: the two loaders, FS,  *)
(* confined to the root by os.Root, and Unconfined, and the path/filepath  *)
(* operations (external) they are made of.  A path is absolute or not, and *)
(* a sequence of names; Up is "..", no name at all is ".".  A place is the *)
(* absolute path a name leads to; there are no symbolic links.             *)
(***************************************************************************)
EXTENDS Naturals, SequencesExt

CONSTANTS
    Up,
    Cwd,      \* the place the command runs in
    Files,    \* the places that hold a sheet
    Sources,  \* the paths the top sheet may be given by
    Refs      \* the paths sheets refer to each other by

Here == [abs |-> FALSE, parts |-> <<>>]

Name == STRING
Paths == [abs : BOOLEAN, parts : Seq(Name)]

\* ".." takes the name before it; at "/" it takes nothing.
Resolved(isAbs, done, part) ==
    IF part # Up THEN Append(done, part)
    ELSE IF done # <<>> /\ Last(done) # Up THEN Front(done)
    ELSE IF isAbs THEN done ELSE Append(done, Up)

\* filepath.Clean
Clean(p) ==
    LET done[n \in 0..Len(p.parts)] ==
            IF n = 0 THEN <<>> ELSE Resolved(p.abs, done[n - 1], p.parts[n])
    IN  [p EXCEPT !.parts = done[Len(p.parts)]]

\* filepath.Join: what is joined to a directory is below it, "/x" like "x".
Join(dir, p) == Clean([dir EXCEPT !.parts = @ \o p.parts])

\* filepath.Dir cleans what it returns; filepath.Base is the name that ends the path.
Dir(p) == Clean([p EXCEPT !.parts = IF @ = <<>> THEN @ ELSE Front(@)])
Base(p) == [abs |-> FALSE, parts |-> <<Last(p.parts)>>]

Place(dir, name) == IF name.abs THEN Clean(name) ELSE Join(dir, name)

\* A path that may be a sheet's ends in its name, as a directory's need not.
NamesASheet(p) == p \in Paths /\ p.parts # <<>> /\ Last(p.parts) # Up

ASSUME LoaderAssumption ==
    /\ Up \in Name /\ {Cwd} \cup Files \subseteq Paths
    /\ Cwd.abs /\ Cwd = Clean(Cwd)
    /\ \A p \in Sources \cup Refs : NamesASheet(p)

\* Mutated: every reference is the top sheet's.
FSTargetOfRoot(base, ref) == Clean(ref)

FSTarget(base, ref) == Join(Dir(base), ref)

\* os.Root.Open (external) refuses what leads out of the root.
Confined(target) == ~target.abs /\ Head(target.parts) # Up

\* resolvePath, with its test for the top sheet, whose base is a bare name.
UnconfinedTarget(root, base, ref) ==
    IF ref.abs THEN Clean(ref)
    ELSE Join(IF Dir(base) = Here THEN root ELSE Dir(base), ref)

Target(isUnconfined, root, base, ref) ==
    IF isUnconfined THEN UnconfinedTarget(root, base, ref) ELSE FSTarget(base, ref)

\* Mutated: the name is opened as it is, and not in the root.
PlaceOfCwd(isUnconfined, root, target) == Place(Cwd, target)

\* The name a sheet was loaded by, and its place: FS's names are the root's,
\* Unconfined's the working directory's.
PlaceOf(isUnconfined, root, target) ==
    Place(IF isUnconfined THEN Cwd ELSE Place(Cwd, root), target)

\* The loader opens a file, and not a directory or nothing at all.
Opens(isUnconfined, root, target) ==
    /\ isUnconfined \/ Confined(target)
    /\ PlaceOf(isUnconfined, root, target) \in Files
=============================================================================
