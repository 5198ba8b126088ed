----------------------------- MODULE MCHttpApi -----------------------------
(* Routes and requests of the HTTP side for TLC: the routes of              *)
(* server/example.cxx, and one more that shares a built-in route's path.    *)
EXTENDS HttpApi

MCRoutes ==
  <<[method |-> "GET", match |-> "Prefix", path |-> <<"/", "hello", "/">>,
     middleware |-> <<>>, handler |-> "hello"],
    [method |-> "POST", match |-> "Exact", path |-> <<"/", "stop">>,
     middleware |-> <<"require_auth">>, handler |-> "stop"],
    [method |-> "POST", match |-> "Exact", path |-> <<"/", "uploads">>,
     middleware |-> <<>>, handler |-> "notify"]>>

Get(path, auth) == [method |-> "GET", path |-> path, auth |-> auth]
MCRequests ==
  {Get(p, a) : p \in {<<"/", "uploads">>, <<"/", "uploads", "/", "id">>},
               a \in Token \cup {"none"}}
  \cup {Get(p, "none") : p \in {<<"/">>, <<"/", "hello", "/", "you">>, <<"/", "stop">>, <<"/", "x">>}}
  \cup {[method |-> "POST", path |-> <<"/", "uploads">>, auth |-> "none"]}
  \cup {[method |-> "POST", path |-> <<"/", "stop">>, auth |-> k] : k \in Token}
  \cup {Get(<<"/", "uploads", "/", "bad">>, k) : k \in Token}
Symmetry == Permutations(Tool) \cup Permutations(Token)
=============================================================================
