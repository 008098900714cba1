SPECIFICATION Spec
CONSTANT Chain <- FullChain
CONSTANT Routes <- AppRoutes
CONSTANT Routers <- AppRouters
CONSTANT Authorized <- AppAuthorized
CONSTANT Targets <- AppTargets
INVARIANT TypeOK
INVARIANT GuardedHandler
INVARIANT RefusalStands
INVARIANT FirstMeant
INVARIANT GivenMeant
INVARIANT AuthShields
CHECK_DEADLOCK FALSE
