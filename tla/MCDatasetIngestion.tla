------------------------- MODULE MCDatasetIngestion -------------------------
(* DatasetIngestion with two files that name two numbers in opposite       *)
(* orders, and a file without a phone column.                              *)
EXTENDS DatasetIngestion, TLC

CONSTANTS a, b, f, g, h

Tables == f :> << <<a, b>>, <<Blank, Blank>> >>
       @@ g :> << <<b, a, a>>, <<Scrawl, Blank, Blank>> >>
       @@ h :> << <<>> >>
=============================================================================
