CONSTANTS
  Procs = {p1, p2, p3}
  Values = {v1, v2}
  Zero = zero
  Capacity = 2
  MaxPos = 4
  MaxDiscard = 2
SPECIFICATION Spec
SYMMETRY Symmetry
INVARIANTS SlotExclusive ClaimsHaveOwners SlotsAgree
PROPERTIES ImplementsQueue FailuresAreTrueWhenQuiet
