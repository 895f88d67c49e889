---------------------------- MODULE MCScopedRun -----------------------------
(* ScopedRun with MCImporter's hosts, and a directory with one tabular file. *)
EXTENDS MCImporter, ScopedRun

MCScopedBase == Url("http", <<"127.0.0.1:port">>, <<>>)

MCMediaTypes == [n \in {"rates.csv"} |-> "text/csv"]

MCFiles == {<<"rates.csv">>}

MCScopedReferences ==
    MCReferences
    \cup {Relative(FALSE, <<"rates.csv">>), Relative(TRUE, <<"team", "..", "rates.csv">>),
          Relative(FALSE, <<"team", "rates.csv">>)}
=============================================================================
