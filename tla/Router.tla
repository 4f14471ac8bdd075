-------------------------------- MODULE Router --------------------------------
(* The router (lib/server/router_impl.cpp): routes are inserted into a tree   *)
(* of segments, and a path is matched against the tree by a backtracking      *)
(* search that prefers static children to regular expressions, these to       *)
(* parameters and these to a wildcard.  Paths and routes are sequences of     *)
(* segments; the properties compare the search with what the routes mean.     *)
EXTENDS Naturals, Sequences, SequencesExt, TLC

CONSTANTS
  Segments,    \* the segments of request paths
  Literals,    \* those that occur in routes
  Accepted,    \* those that a regular expression matches
  ParamNames,  \* the names of parameters
  Methods,
  MaxLen,      \* the longest path
  MaxRoutes    \* the largest number of registrations

\* A segment of a route as it is written: a literal, :name, {name:regex} or *.
RouteSegments ==
  [type : {"static"}, name : Literals]
    \cup [type : {"param", "regex"}, name : ParamNames]
    \cup {[type |-> "star", name |-> "*"]}
Routes == UNION {[1 .. n -> RouteSegments] : n \in 1 .. MaxLen}
Paths  == UNION {[1 .. n -> Segments] : n \in 1 .. MaxLen}

VARIABLES
  tree,      \* the nodes below root_, in the order of their creation
  handlers,  \* the methods each node has a handler for
  ws,        \* the nodes with a ws_handler
  routes     \* what was registered: pairs of a method, or "ws", and a route

vars == <<tree, handlers, ws, routes>>

\* A node is the sequence of keys that leads to it.
root == <<>>

Init ==
  /\ tree = <<>>
  /\ handlers = (root :> {})
  /\ ws = {}
  /\ routes = <<>>
-----------------------------------------------------------------------------
(* Registration *)

\* A star is a wildcard as the last segment and a literal anywhere else.
Key(route, i) ==
  IF route[i].type # "star" THEN route[i]
  ELSE [type |-> IF i = Len(route) THEN "wildcard" ELSE "static", name |-> "*"]

NodeOf(route) == [i \in DOMAIN route |-> Key(route, i)]

\* An insert that does not look for the child it is about to make.
MutInsert(route) == tree \o [i \in DOMAIN route |-> SubSeq(NodeOf(route), 1, i)]

\* insert(): the nodes on the way that do not exist yet, each the last child.
Insert(route) ==
  tree \o SelectSeq([i \in DOMAIN route |-> SubSeq(NodeOf(route), 1, i)],
                    LAMBDA n : n \notin Range(tree))

SetHttpHandler(m, route) ==
  /\ Len(routes) < MaxRoutes
  /\ tree' = Insert(route)
  /\ handlers' = LET n == NodeOf(route)
                     had == IF n \in DOMAIN handlers THEN handlers[n] ELSE {}
                 IN  (n :> had \cup {m}) @@ handlers
  /\ routes' = Append(routes, <<m, route>>)
  /\ UNCHANGED ws

SetWsHandler(route) ==
  /\ Len(routes) < MaxRoutes
  /\ tree' = Insert(route)
  /\ ws' = ws \cup {NodeOf(route)}
  /\ routes' = Append(routes, <<"ws", route>>)
  /\ UNCHANGED handlers
-----------------------------------------------------------------------------
(* match_nodes *)

Children(n, type) ==
  SelectSeq(tree, LAMBDA c : Len(c) = Len(n) + 1 /\ IsPrefix(n, c) /\ Last(c).type = type)

\* A search that gives up when the first child that fits does not lead anywhere.
MutCandidatesFirst(n, seg) ==
  LET all == SelectSeq(Children(n, "static"), LAMBDA c : Last(c).name = seg)
               \o (IF seg \in Accepted THEN Children(n, "regex") ELSE <<>>)
               \o Children(n, "param") \o Children(n, "wildcard")
  IN  IF all = <<>> THEN <<>> ELSE <<Head(all)>>

\* A search that tries parameters before regular expressions.
MutCandidatesOrder(n, seg) ==
  SelectSeq(Children(n, "static"), LAMBDA c : Last(c).name = seg)
    \o Children(n, "param")
    \o (IF seg \in Accepted THEN Children(n, "regex") ELSE <<>>)
    \o Children(n, "wildcard")

\* The children that fit a segment, in the order in which they are tried.
Candidates(n, seg) ==
  SelectSeq(Children(n, "static"), LAMBDA c : Last(c).name = seg)
    \o (IF seg \in Accepted THEN Children(n, "regex") ELSE <<>>)
    \o Children(n, "param")
    \o Children(n, "wildcard")

\* The segments that a wildcard or a parameter at index i stands for.
Bound(c, path, i) == IF Last(c).type = "wildcard" THEN SubSeq(path, i, Len(path)) ELSE <<path[i]>>

Bind(params, c, path, i) ==
  IF Last(c).type = "static" THEN params ELSE (Last(c).name :> Bound(c, path, i)) @@ params

\* A search that leaves behind what it bound on the way to a dead end.
MutUnbind(params, c) == params

\* params.erase, when a child has led nowhere.
Unbind(params, c) ==
  IF Last(c).type = "static" THEN params
  ELSE [x \in DOMAIN params \ {Last(c).name} |-> params[x]]

\* The search from node n for path from index i on.  s is what it carries along:
\* the node found, the params, and the methods of the nodes it ended in.
\* accept is the set of nodes that pass the test match_nodes is given.
RECURSIVE MatchNodes(_, _, _, _, _)
MatchNodes(n, path, i, s, accept) ==
  IF i > Len(path)
    THEN [s EXCEPT !.allows = @ \cup (IF n \in DOMAIN handlers THEN handlers[n] ELSE {}),
                   !.node = IF n \in accept THEN <<n>> ELSE <<>>]
    ELSE LET Try(t, c) ==
               IF t.node # <<>> THEN t
               ELSE LET next == IF Last(c).type = "wildcard" THEN Len(path) + 1 ELSE i + 1
                        r    == MatchNodes(c, path, next,
                                           [t EXCEPT !.params = Bind(@, c, path, i)], accept)
                    IN  IF r.node # <<>> THEN r ELSE [r EXCEPT !.params = Unbind(@, c)]
         IN  FoldLeft(Try, s, Candidates(n, path[i]))

Start == [node |-> <<>>, params |-> <<>>, allows |-> {}]
-----------------------------------------------------------------------------
(* What the callers of match_nodes make of it *)

HaveHandler(m) == {n \in DOMAIN handlers : m \in handlers[n]}

\* proc_routing: the handler's node and its parameters, or a status.
ProcRouting(m, path) ==
  LET r == MatchNodes(root, path, 1, Start, HaveHandler(m))
  IN  [status |-> IF r.node # <<>> THEN "handled" ELSE IF r.allows # {} THEN "405" ELSE "404",
       node   |-> r.node,
       params |-> r.params]

\* Any node will do.
MutQueryWsHandler(path) ==
  MatchNodes(root, path, 1, Start, Range(tree)).node # <<>>

QueryWsHandler(path) ==
  MatchNodes(root, path, 1, Start, ws).node # <<>>
-----------------------------------------------------------------------------
Next ==
  \E route \in Routes :
    \/ \E m \in Methods : SetHttpHandler(m, route)
    \/ SetWsHandler(route)

Spec == Init /\ [][Next]_vars
-----------------------------------------------------------------------------
(* Properties *)

\* The states each variable ranges over; the tree has every node once and the
\* parent of each before it, and every handler is at a node of the tree.
TypeOK ==
  /\ IsInjective(tree)
  /\ \A k \in DOMAIN tree : Len(tree[k]) > 1 => \E j \in 1 .. k : tree[j] = Front(tree[k])
  /\ (DOMAIN handlers \cup ws) \subseteq Range(tree) \cup {root}
  /\ \A n \in DOMAIN handlers : handlers[n] \subseteq Methods
  /\ routes \in Seq((Methods \cup {"ws"}) \X Routes)

\* What a route means, without any tree.
Fits(key, seg) ==
  CASE key.type = "static" -> key.name = seg
    [] key.type = "regex"  -> seg \in Accepted
    [] OTHER               -> TRUE

Matches(n, path) ==
  LET wild == n # <<>> /\ Last(n).type = "wildcard"
  IN  /\ IF wild THEN Len(path) >= Len(n) ELSE Len(path) = Len(n)
      /\ \A i \in DOMAIN n : Fits(n[i], path[i])

\* The nodes of the routes registered for m that a path matches.
Matching(m, path) ==
  {n \in {NodeOf(routes[k][2]) : k \in {j \in DOMAIN routes : routes[j][1] = m}} : Matches(n, path)}

\* The search finds a handler exactly when some route for the method matches;
\* otherwise the answer is 405 exactly when a route for another method does.
\* No order of registration and no dead end hides a route.
RoutesAreFound ==
  \A path \in Paths : \A m \in Methods :
    ProcRouting(m, path).status =
      CASE Matching(m, path) # {}                        -> "handled"
        [] \E o \in Methods : Matching(o, path) # {}     -> "405"
        [] OTHER                                         -> "404"

Rank(key) == CASE key.type = "static" -> 1 [] key.type = "regex" -> 2 [] key.type = "param" -> 3
               [] OTHER -> 4

\* Of the routes that match, none is more specific than the one taken at the
\* first segment where the two differ.
MostSpecificWins ==
  \A path \in Paths : \A m \in Methods :
    \A n \in Matching(m, path) :
      LET taken   == Head(ProcRouting(m, path).node)
          differs == {i \in DOMAIN n \cap DOMAIN taken : n[i] # taken[i]}
          first   == CHOOSE i \in differs : \A j \in differs : i <= j
      IN  differs # {} => Rank(taken[first]) <= Rank(n[first])

\* No name twice in a route.
DistinctNames ==
  \A k \in DOMAIN routes :
    \A i, j \in DOMAIN routes[k][2] :
      LET a == routes[k][2][i]
          b == routes[k][2][j]
      IN  i # j /\ a.name = b.name => a.type = "static" \/ b.type = "static"

\* The handler gets the parameters of its own route, with the segments they
\* stand for, and nothing of the routes that were tried before.  Where a route
\* uses a name twice this does not hold: a dead end erases the outer one.
ParamsAreThoseOfTheRoute ==
  DistinctNames =>
    \A path \in Paths : \A m \in Methods :
      LET r == ProcRouting(m, path)
          n == Head(r.node)
          named == {i \in DOMAIN n : n[i].type # "static"}
      IN  r.status = "handled" =>
            /\ DOMAIN r.params = {n[i].name : i \in named}
            /\ \A i \in named : r.params[n[i].name] = Bound(SubSeq(n, 1, i), path, i)

\* A websocket handler is found exactly when one of its routes matches, whatever
\* http handlers share the tree.
WebsocketsAreFound ==
  \A path \in Paths : QueryWsHandler(path) <=> Matching("ws", path) # {}
=============================================================================
