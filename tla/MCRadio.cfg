SPECIFICATION Spec
CONSTANT Chips = {"si4432", "other", "none"}
INVARIANT TypeOK SwitchSetUp SendsOn315
PROPERTY CarrierStaysOn FunctionsReturn
CHECK_DEADLOCK FALSE
