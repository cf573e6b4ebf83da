SPECIFICATION Spec
CONSTANTS
  P = 7
  Names = {"a:1", "b:2"}
  Odd = "o:office"
  Role = "vidasrole:AnalysisSerivces"
  OfNamed = {"o:office"}
  Bare = {"bare"}
  Formulas <- Drawn
  Users <- Keys
  Hash <- Hashes
  Coefs = {0, 1}
  Blinds = {2, 4}
  Messages = {3}
  Master <- AlphaBeta
INVARIANTS OpensForItsFormula UnusableForAReason UsesFewestLeaves
CHECK_DEADLOCK FALSE
