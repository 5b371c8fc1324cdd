--------------------------- MODULE MCHotdealStock ----------------------------
(***************************************************************************)
(* Small instances of HotdealStock.  InTurn: two units and requests enough *)
(* for a deal to be started, sold from, ended and started again.  Races:   *)
(* one unit, three requests at any time, every fault, with the cache, and  *)
(* Deaths: the same without it, and with a crash.  A command is sent again *)
(* once: enough to take effect twice, and to be refused after it took      *)
(* effect; go-redis would send it three times.                             *)
(***************************************************************************)
EXTENDS HotdealStock, TLC

MCDeltas == {-1, 1}

InTurnRegime == [stock |-> 2, cached |-> FALSE, faults |-> FALSE, orderly |-> TRUE,
                 requests |-> 4, crashes |-> 0]
Races == [stock |-> 1, cached |-> TRUE, faults |-> TRUE, orderly |-> FALSE,
          requests |-> 3, crashes |-> 0]
Deaths == [Races EXCEPT !.cached = FALSE, !.crashes = 1]

MCRegimes == {InTurnRegime, Races, Deaths}
MCInTurn == {InTurnRegime}
=============================================================================
