----------------------------- MODULE MCRetryWait -----------------------------
\* RetryWait on every way of waiting: for a state or for an absence, that occurs
\* once or twice, with one or two absences tolerated, with and without Pending states.
EXTENDS RetryWait

MCConfs == [ContinuousTargetOccurence : {1, 2}, NotFoundChecks : {1, 2},
            TargetEmpty : BOOLEAN, PendingEmpty : BOOLEAN]
=============================================================================
