\* Two registrations of routes with up to two segments; paths of up to three
\* segments on every file system of four entries, one of which may appear or
\* vanish at any moment; two parameters of keys and values of one character or
\* none behind a path of one character, one behind a path of two and none behind a
\* path of three, and every query of up to five characters.
SPECIFICATION Spec
CONSTANTS
  Segments = {"a", "b"}
  Literals = {"a"}
  Accepted = {"a"}
  ParamNames = {"p", "r"}
  Methods = {"get", "post"}
  MaxLen = 2
  MaxRoutes = 2
  MaxDepth = 3
  MaxChanges = 1
  MaxParams = 2
  MaxChars = 1
  MaxText = 5
INVARIANTS TypeOK RoutesAreFound ServesWhatIsAsked ParametersArrive
CHECK_DEADLOCK FALSE
