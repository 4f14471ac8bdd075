\* Two servers, TLS and plain, three clients, two handles.
SPECIFICATION Spec
CONSTANTS
  NoClient = NoClient
  Clients = {c1, c2, c3}
  Handles = {h1, h2}
  Hosts = {a, b}
  Tls = {TRUE, FALSE}
  Multi = TRUE
  MaxSize = 1
INVARIANTS TypeOK OnePlace NoDowngrade NothingOutlivesPool
CHECK_DEADLOCK FALSE
