------------------------------- MODULE MCPmic -------------------------------
(***************************************************************************)
(* The PMIC driver with the configuration of the example                   *)
(* (examples/main.c:15), one that enables BUCK4 only, and one that asks a  *)
(* regulator for more than it can give.                                    *)
(***************************************************************************)
EXTENDS Pmic

MCRail(mv, enable) == [mv |-> mv, enable |-> enable, mode |-> FALSE, low_noise |-> TRUE]
MCTda4 ==
  [rails |-> <<MCRail(3300, TRUE), MCRail(1800, TRUE), MCRail(1200, TRUE), MCRail(1100, TRUE),
               MCRail(900, TRUE), MCRail(1800, TRUE), MCRail(1200, TRUE), MCRail(3300, TRUE),
               MCRail(1800, TRUE)>>,
   sleep |-> TRUE, retention |-> TRUE, bucks |-> {2}, ldos |-> {1},
   watchdog |-> TRUE, timeout |-> 30000, esm |-> 1]
MCDark ==
  [MCTda4 EXCEPT !.rails = [i \in 1..9 |-> MCRail(900, i = 4)], !.sleep = FALSE,
                 !.bucks = {0}, !.watchdog = FALSE, !.timeout = 200, !.esm = 0]
MCTooMuch == [MCDark EXCEPT !.rails[6].mv = 3301]

MCConfigs == {MCTda4, MCDark, MCTooMuch}

=============================================================================
