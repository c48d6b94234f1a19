\* Every part in turn; their bounds are in the module.
SPECIFICATION FairSpec
PROPERTIES PaidIsSettled RegistrationsEnd BackupsAreAnswered BansSettle DashboardsCatchUp BuyersSeeSuccess
CHECK_DEADLOCK FALSE
