----------------------------- MODULE MCInstances -----------------------------
EXTENDS Instances

SomeConfigs == {[pm |-> 1, dyn |-> 1], [pm |-> 2, dyn |-> 0]}
=============================================================================
