------------------------------- MODULE Requests -------------------------------
(* What the server makes of the target of a request: its path and parameters  *)
(* (QueryParams), the route that the path takes (Router), and the entry of    *)
(* the file system that a path below a mount point names (MountPoint).  The   *)
(* three are handed a path by each other and share nothing else, so that one  *)
(* of them is looked at at a time; the variables of the others keep their     *)
(* initial values.                                                            *)
EXTENDS Naturals, Sequences

CONSTANTS
  Segments, Literals, Accepted, ParamNames, Methods, MaxLen, MaxRoutes,  \* of Router
  MaxDepth, MaxChanges,                                                  \* of MountPoint
  MaxParams, MaxChars, MaxText                                           \* of QueryParams

VARIABLES
  part,    \* "router", "mount" or "query"
  \* the router
  tree, handlers, ws, routes,
  \* the mount point
  kind, touched, listings, target, path, pc, doc, rest, opened, dirs, files, ec, answer,
  \* the parameters
  url_path, params, url, at, decoded_path, got, asked, boolean

routerVars == <<tree, handlers, ws, routes>>
mountVars ==
  <<kind, touched, listings, target, path, pc, doc, rest, opened, dirs, files, ec, answer>>
queryVars == <<url_path, params, url, at, decoded_path, got, asked, boolean>>
vars == <<part, routerVars, mountVars, queryVars>>

R == INSTANCE Router
M == INSTANCE MountPoint WITH MaxLen <- MaxDepth
Q == INSTANCE QueryParams WITH path <- url_path, target <- url, pc <- at, answer <- boolean

NoMount == listings = "off" /\ target = <<"f">> /\ kind = CHOOSE k \in M!FileSystems : TRUE
NoQuery == url_path = <<Q!LetterA>>

Init ==
  /\ R!Init
  /\ \/ part = "router" /\ NoMount /\ M!Init /\ NoQuery /\ Q!Init
     \/ part = "mount" /\ NoQuery /\ Q!Init /\ M!Init
     \/ part = "query" /\ NoMount /\ M!Init /\ Q!Init

Next ==
  \/ part = "router" /\ R!Next /\ UNCHANGED <<part, mountVars, queryVars>>
  \/ part = "mount" /\ M!Next /\ UNCHANGED <<part, routerVars, queryVars>>
  \/ part = "query" /\ Q!Next /\ UNCHANGED <<part, routerVars, mountVars>>

Spec == Init /\ [][Next]_vars
-----------------------------------------------------------------------------
(* Properties *)

\* The states each variable ranges over.
TypeOK ==
  (part = "router" => R!TypeOK) /\ (part = "mount" => M!TypeOK) /\ (part = "query" => Q!TypeOK)

\* The search of the router finds what the routes mean: a handler if there is
\* one, the most specific, with the parameters of its own route (see Router).
RoutesAreFound ==
  part = "router" =>
    /\ R!RoutesAreFound /\ R!MostSpecificWins /\ R!ParamsAreThoseOfTheRoute
    /\ R!WebsocketsAreFound

\* What is served below a mount point is what the path means, and all that exists
\* there is served, while other programs change it (see MountPoint).
ServesWhatIsAsked ==
  part = "mount" =>
    M!ServesWhatIsAsked /\ M!RefusesOnlyOutside /\ M!FilesAreServed /\ M!DirectoriesAreServed

\* The parameters of a client are those of the server's request, its path is, with
\* its own escapes replaced and up to a "?" of its own, and a query written by hand
\* is read by its definition (see QueryParams).
ParametersArrive ==
  part = "query" =>
    Q!ParametersArrive /\ Q!PathArrives /\ Q!BooleansArrive /\ Q!QueriesAreRead
=============================================================================
