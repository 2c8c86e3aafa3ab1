\* A council of up to three seats, two of them on one LM Studio box, by names, tier or
\* provider; a chain of up to three stages; a debate over two claims; a conference of
\* up to three seats, two of which may share a label.
CONSTANTS
  a = a  b = b  g = g  G = G
  None = None
  Seats = {"fable", "fable51", "opus", "minimax", a, b, g, G}
  LabOf <- Labs3
  Local = {a, b}
  Voices <- FewVoices
  Claims = {"x", "y"}
  Oracles <- Known
  Excluded = {"fable51"}
  AliasOf <- Alias
  GroupOf <- Twin
  IdOf <- Ids
  Blank = " "
  LabelOf <- Labels
  Budget = 5
  MaxOpen = 3
  Lists <- AllLists
  Slots = {None, "opus", "twin", "nobody"}
  Tiers = {"default", "twin", "middle"}
  Candidates <- Three
  Denials = {{}, {"minimax"}, {G}, {"fable", "opus", "minimax"}}
  Gateways <- Hosts
  Keyless = {g}
  OnBox <- Both
CHECK_DEADLOCK FALSE
SPECIFICATION Spec
INVARIANTS StrongIsEarned BoxLeftAsFound VerdictsHoldUp HeardAsAsked
