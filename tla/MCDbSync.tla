------------------------------ MODULE MCDbSync ------------------------------
(***************************************************************************)
(* Two tables.  The first is gone at the destination; the second is there  *)
(* empty and has a key, which all rows share: one of them keeps out the    *)
(* others.  Both are renamed to the first, or the first to the second.     *)
(***************************************************************************)
EXTENDS DbSync, TLC

CONSTANTS t1, t2, r1, r2

RowKeys == [r \in Rows |-> 1]

Plain   == [tables |-> Tables, name |-> [t \in Tables |-> t], inPublic |-> TRUE,
            dry |-> FALSE, repeats |-> FALSE]
Renamed == [Plain EXCEPT !.name = [t \in Tables |-> t1], !.repeats = TRUE]
Moved   == [Plain EXCEPT !.name = [t \in Tables |-> t2], !.tables = {t1}]
Other   == [Plain EXCEPT !.inPublic = FALSE, !.tables = {t1}]
Preview == [Plain EXCEPT !.dry = TRUE]

AllConfigs  == {Renamed, Moved, Other, Preview}
PlainConfig == {Plain}
SomeSources == {(t1 :> {r1} @@ t2 :> {r2})}
SomeTargets == {(t1 :> Gone @@ t2 :> {})}
NotThere    == [t \in Tables |-> Gone]
=============================================================================
