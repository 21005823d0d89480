------------------------ MODULE MCIcebergIngestion ------------------------
(* Values of the constants of IcebergIngestion for TLC. *)
EXTENDS IcebergIngestionProperties, TLC

CONSTANTS k1, k2, plain, nulls, twice, keyless, empty, flat, misplaced

Rows(n1, n2) == k1 :> n1 @@ k2 :> n2
Upload(place, mergeKey, rows, nullRows) ==
    [place |-> place, mergeKey |-> mergeKey, rows |-> rows, nullRows |-> nullRows]

\* Good sources: distinct keys, some rows without a key, a key that occurs
\* twice; and sources that cannot be ingested.
MCObject == plain     :> Upload("raw/entity/file", TRUE,  Rows(1, 1), 0)
         @@ nulls     :> Upload("raw/entity/file", TRUE,  Rows(0, 1), 1)
         @@ twice     :> Upload("raw/entity/file", TRUE,  Rows(2, 0), 0)
         @@ keyless   :> Upload("raw/entity/file", FALSE, Rows(0, 0), 1)
         @@ empty     :> Upload("raw/entity/file", TRUE,  Rows(0, 0), 0)
         @@ flat      :> Upload("raw/file",        TRUE,  Rows(1, 0), 0)
         @@ misplaced :> Upload("file",            TRUE,  Rows(1, 0), 0)

MCFiles == {plain, nulls, twice, keyless, empty, flat, misplaced}
MCGood  == {plain, nulls, twice}
MCObjectGood == [f \in MCGood |-> MCObject[f]]
MCKeys  == {k1, k2}
=============================================================================
