------------------------ MODULE MCStrategySynthesis ------------------------
(* Two required tactics, one of them with an action that no finding supports. *)
EXTENDS StrategySynthesis

CONSTANTS plain, miscited, first, second, unfounded, wrong, bare, t1, t2

MCCites ==
  [x \in {plain, miscited, first, second, unfounded, wrong, bare} |->
     CASE x \in {plain, bare}        -> None
       [] x \in {miscited, wrong}    -> Unknown
       [] x = first                  -> t1
       [] x \in {second, unfounded}  -> t2]
MCStatements == {plain, miscited}
MCActions    == {first, second, unfounded, wrong, bare}
MCOffered    == MCActions \ {bare}
MCWithheld   == {unfounded}
MCRequired   == {t1, t2}
MCTactics    == {t1, t2}
=============================================================================
