CONSTANTS
    Inputs <- SomeInputs
    TargetHosts <- Hosts
    Upstream <- AServer
SPECIFICATION Spec
INVARIANTS ReadonlyChangesNothing AnnotationsHonest RemovalsConfirmed TargetsVetted
    DescriptionReadsBack SecretsStayInside
