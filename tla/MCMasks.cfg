SPECIFICATION MaskSpec
CONSTANTS
    Sources = {1, 2, 3}
    Domains <- MCDomains
    Members <- MCMembers
    LocalSize <- MCLocal
    PartialSize <- MCPartial
    Fields = {"t", "u", "s"}
    DomainOf <- MCDomainOf
    StepOf <- MCStepOf
    MaxStep = 2
    Definition <- MCDefinition
    Setups <- MCSetups
    OffsetFields = {"t"}
    NoMask = NoMask
INVARIANTS TypeOK EmittedWhole EmittedExactlyOnce FlushAfterFields FlushedExactlyOnce MaskExact FieldsMasked
CHECK_DEADLOCK FALSE
