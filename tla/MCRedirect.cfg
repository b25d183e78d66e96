CONSTANTS
  Host = {h1, h2}
  Defaults <- MCDefaults
  Limit = 1
  DefaultLimit = 2
  None = None
SPECIFICATION MCSpec
INVARIANTS LimitRespected BodyIsWhole RequestsAreDerived CookiesAreOwn AnswerIsTheLast
SYMMETRY Symmetry
