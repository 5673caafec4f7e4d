SPECIFICATION Spec
CONSTANTS
  Mutation = {m1, m2}
  Request = {r1, r2}
  Channel = {c1, c2}
  NoChannel = NoChannel
SYMMETRY Interchangeable
INVARIANTS
  ReadyMeansLoaded
  OneLoadAtBoot
  AnsweredChangesRouted
  FlightLed
PROPERTIES
  EditKeepsEnabled
