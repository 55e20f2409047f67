-------------------------- MODULE MCExperimentRunner --------------------------
EXTENDS ExperimentRunner

Campaign(strategy, distributed, runBO, push) ==
    [strategy |-> strategy, distributed |-> distributed, runBO |-> runBO, push |-> push,
     stopFleet |-> distributed]

CampaignModes == {Campaign("pbt", TRUE, TRUE, FALSE), Campaign("lhs", FALSE, FALSE, TRUE),
                  Campaign("pbt", FALSE, TRUE, FALSE)}
=============================================================================
