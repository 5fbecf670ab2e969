---------------------------- MODULE MCPayableTime ----------------------------
(* Instants for the runs of PayableTime: units of three hours, around the   *)
(* UTC midnights (3 and 11) and a local one (8) that ends a month.          *)
EXTENDS PayableTime

AroundMidnights == {2, 3, 7, 8, 9, 11, 12}
=============================================================================
