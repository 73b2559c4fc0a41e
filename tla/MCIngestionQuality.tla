------------------------ MODULE MCIngestionQuality ------------------------
(* An instance of IngestionQuality for TLC: a main feed with rows on and   *)
(* inside the hours, a plug load, and rows without a meter id.             *)
EXTENDS IngestionQuality

CONSTANTS main, plug, blank

TwoMeters == {main, plug}
OneBlank == {blank}
TypeOfMeter == (main :> "main_feed") @@ (plug :> "plug_load")
Bounds == [main_feed |-> 6, plug_load |-> 1]
Windows == [main_feed |-> 2, plug_load |-> 2]
Hours == [main_feed |-> 2, plug_load |-> 1]

SentRows ==
    [meter : {main}, at : {0, 3, 5}, kwh : {1, None}]
        \cup [meter : {main}, at : {0, 2}, kwh : {9}] \cup [meter : {main}, at : {7, 8}, kwh : {2}]
        \cup [meter : {plug}, at : {1, 3}, kwh : {1}] \cup [meter : {plug}, at : {3}, kwh : {-1}]
        \cup [meter : {blank}, at : {1}, kwh : {1}]
===========================================================================
