---------------------------- MODULE MCValidation ----------------------------
(* Specs for the validation of validation.go: every combination of the     *)
(* values below, each field with a value on either side of each rule that  *)
(* reads it, with at most one canary step; maxSurge also takes "-5%".      *)
EXTENDS Validation

MCPct(n) == [type |-> "String", val |-> n]
MCInt(n) == [type |-> "Int", val |-> n]

MCAntiAffinities == {Nil} \cup [preferred : BOOLEAN, required : BOOLEAN]

MCSteps ==
    [setWeight : {Nil, -1, 50, 101},
     pause : {Nil, [duration |-> Nil], [duration |-> -1]},
     experiment : BOOLEAN, analysis : BOOLEAN]

MCCanaries ==
    [maxSurge : {Nil, MCInt(0), MCPct(0), MCPct(-5)},
     maxUnavailable : {Nil, MCInt(0), MCPct(0)},
     steps : {<<>>} \cup {<<s>> : s \in MCSteps},
     antiAffinity : MCAntiAffinities]

MCBlueGreens ==
    [activeService : {"active"}, previewService : {"active", "preview"},
     scaleDownDelayRevisionLimit : {Nil, 1, 20},
     antiAffinity : MCAntiAffinities]

MCStrategies ==
    {[blueGreen |-> Nil, canary |-> Nil]}
    \cup {[blueGreen |-> b, canary |-> Nil] : b \in MCBlueGreens}
    \cup {[blueGreen |-> Nil, canary |-> c] : c \in MCCanaries}
    \cup {[blueGreen |-> b, canary |-> c] :
            b \in {CHOOSE b \in MCBlueGreens : TRUE},
            c \in {CHOOSE c \in MCCanaries : TRUE}}

MCRollouts ==
    {[replicas |-> n, selector |-> sel, templateMatches |-> tm,
      minReadySeconds |-> mr, progressDeadlineSeconds |-> pd,
      revisionHistoryLimit |-> rh, blueGreen |-> st.blueGreen,
      canary |-> st.canary] :
       n \in {Nil, -1, 3}, sel \in {"nil", "empty", "valid", "malformed"},
       tm \in BOOLEAN, mr \in {-1, 30}, pd \in {Nil, 10},
       rh \in {Nil, -1, 1}, st \in MCStrategies}
=============================================================================
