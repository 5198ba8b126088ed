------------------------------ MODULE HttpApi ------------------------------
(***************************************************************************)
(* The HTTP side of the server, beside the tools that change its tokens    *)
(* (module TokenStore): a request is collected on the loop thread          *)
(* (Connection::handle_http_data), parsed (server/http.cxx), routed        *)
(* (server/router.cxx) through the middleware of its route                 *)
(* (server/middleware/auth.cxx) to a controller (server/controllers) and   *)
(* answered once.  The loop thread works on one request at a time; the     *)
(* token file is opened in one step and used in a later one.  A response   *)
(* that cannot be encrypted tears the connection down instead of being     *)
(* sent, which counts as the answer here.                                  *)
(*                                                                         *)
(* A path is a sequence of its slashes and names, so that a route's path   *)
(* can be a prefix of it; bytes are counted in fragments.                  *)
(***************************************************************************)
EXTENDS TokenStore, SequencesExt

CONSTANTS Requests,        \* requests the clients send, see Request
          UserRoutes,      \* Server::route: routes the application adds
          DefaultRoutes,   \* ServerConfig::default_routes
          Statuses,        \* what the application's handlers set HttpContext::status to
          MaxHeader,       \* kMaxHttpHeaderBytes, in fragments
          MaxFragments     \* bound: fragments of one connection

ASSUME HttpAssumption == /\ MaxHeader \in Nat /\ MaxFragments \in Nat
                         /\ MaxHeader < MaxFragments
                         /\ DefaultRoutes \in BOOLEAN /\ Statuses \subseteq Nat

\* The middleware of the application's routes is the server's own require_auth;
\* the controllers of the built-in routes are in no header, so that no other
\* route can name them.
ASSUME RoutesAssumption ==
  /\ UserRoutes \in Seq(Range(UserRoutes))
  /\ \A route \in Range(UserRoutes) :
       route.handler \notin {"none", "root", "uploads_list", "uploads_download"}

VARIABLE r    \* the connection the loop thread works on, see NewConnection
hvars == <<vars, r>>

-----------------------------------------------------------------------------
(* Router *)

\* The controllers of the built-in routes.
add_builtin_routes ==
  <<[method |-> "GET", match |-> "Exact", path |-> <<"/">>,
     middleware |-> <<>>, handler |-> "root"],
    [method |-> "GET", match |-> "Exact", path |-> <<"/", "uploads">>,
     middleware |-> <<"require_auth">>, handler |-> "uploads_list"],
    [method |-> "GET", match |-> "Prefix", path |-> <<"/", "uploads", "/">>,
     middleware |-> <<"require_auth">>, handler |-> "uploads_download"]>>
builtins == IF DefaultRoutes THEN add_builtin_routes ELSE <<>>

path_matches(route, path) ==
  IF route.match = "Exact" THEN path = route.path ELSE IsPrefix(route.path, path)

\* find: the first route of a table that takes the request, if there is one.
find(routes, q) ==
  LET takes == {i \in DOMAIN routes : /\ path_matches(routes[i], q.path)
                                      /\ routes[i].method = q.method}
  IN  {routes[i] : i \in {j \in takes : \A k \in takes : j <= k}}
path_matched(routes, q) == \E i \in DOMAIN routes : path_matches(routes[i], q.path)

\* Router::dispatch: the application's routes are searched first.
\* Faulty: a path of the application's routes hides the built-in ones.
matched_Hidden(q) ==
  IF path_matched(UserRoutes, q) THEN find(UserRoutes, q) ELSE find(builtins, q)
matched(q) ==
  IF find(UserRoutes, q) # {} THEN find(UserRoutes, q) ELSE find(builtins, q)

param(route, q) ==
  IF route.match = "Prefix" THEN SubSeq(q.path, Len(route.path) + 1, Len(q.path)) ELSE <<>>

-----------------------------------------------------------------------------
(* The connection *)

NoRequest == [method |-> "", path |-> <<>>, auth |-> "none"]
NoRoute == [method |-> "", match |-> "Exact", path |-> <<>>, middleware |-> <<>>,
            handler |-> "none"]

\* pc is "idle" while the loop thread waits for bytes, done is http_done_; status
\* and respond belong to the HttpContext; sent counts the responses begun and
\* answer is the status of the last.  promise is history: what the tools have
\* reported about the request's token, and still hold, since it arrived.
NewConnection == [pc |-> "idle", buffered |-> 0, done |-> FALSE, req |-> NoRequest,
                  route |-> NoRoute, index |-> 0, read |-> {}, opened |-> TRUE,
                  handler |-> "none", status |-> 200, respond |-> TRUE,
                  promise |-> "maybe", answer |-> 0, sent |-> 0]

HttpInit == Init /\ r = NewConnection

\* One whole response is handed to the socket.
send_http_simple(x, status) == [x EXCEPT !.answer = status, !.sent = @ + 1]

\* handle_http_data: another fragment of the connection's bytes.
Received == [r EXCEPT !.buffered = @ + 1]
Reads == r.pc = "idle" /\ r.buffered < MaxFragments

\* Bytes that come after the request are ignored.
Ignored == /\ Reads /\ r.done
           /\ r' = Received
           /\ UNCHANGED vars

\* The header is not complete yet; a header that grows too long is refused.
Partial == /\ Reads /\ ~r.done
           /\ r' = IF Received.buffered > MaxHeader
                   THEN send_http_simple([Received EXCEPT !.done = TRUE], 400) ELSE Received
           /\ UNCHANGED vars

\* The header is complete but parse_http_request finds no request line in it.
Unparsable == /\ Reads /\ ~r.done
              /\ r' = send_http_simple([Received EXCEPT !.done = TRUE], 400)
              /\ UNCHANGED vars

\* The header is complete: Router::dispatch looks for the route and calls it with a
\* new HttpContext, or refuses the request itself.
Dispatch(q) ==
  /\ Reads /\ ~r.done
  /\ LET x == [Received EXCEPT !.done = TRUE, !.req = q,
                               !.promise = IF q.auth \in Token THEN acked[q.auth] ELSE "maybe"]
     IN  \/ \E route \in matched(q) : r' = [x EXCEPT !.pc = "next", !.route = route]
         \/ /\ matched(q) = {}
            /\ r' = send_http_simple(x, IF path_matched(UserRoutes, q) \/ path_matched(builtins, q)
                                        THEN 405 ELSE 404)
  /\ UNCHANGED vars

\* The chain returns to Router::dispatch with this status in the context.
Return(x, status) == [x EXCEPT !.pc = "flush", !.status = status]

InChain == r.pc = "next" /\ r.index < Len(r.route.middleware)

\* Connection::authorized: no bearer token, no look at the store.
NoBearer == /\ InChain /\ r.req.auth \notin Token
            /\ r' = Return(r, 401)
            /\ UNCHANGED vars

\* Server::verify_token opens the store: what is renamed over it afterwards is
\* not seen.  One that cannot be opened counts as empty.
OpenStore == /\ InChain /\ r.req.auth \in Token
             /\ \E opened \in BOOLEAN :
                  r' = [r EXCEPT !.pc = "verify", !.read = read_file(opened), !.opened = opened]
             /\ UNCHANGED vars

\* Faulty: a store that does not decrypt, or an absent one, lets everybody in.
verify_Lenient(token, tokens) == tokens \in {Torn, {}} \/ token \in tokens
verify(token, tokens) == tokens # Torn /\ token \in tokens

\* require_auth: on to the rest of the chain, or back with 401.
require_auth == /\ r.pc = "verify"
                /\ r' = IF verify(r.req.auth, r.read)
                        THEN [r EXCEPT !.pc = "next", !.index = @ + 1]
                        ELSE Return(r, 401)
                /\ UNCHANGED vars

-----------------------------------------------------------------------------
(* Controllers *)

AtHandler == r.pc = "next" /\ r.index = Len(r.route.middleware)
Ran == [r EXCEPT !.handler = r.route.handler]

\* root and uploads_list leave the status alone, the application's handlers set it.
Handler == /\ AtHandler /\ r.route.handler # "uploads_download"
           /\ \E status \in IF r.route.handler \in {"root", "uploads_list"} THEN {200} ELSE Statuses :
                r' = Return(Ran, status)
           /\ UNCHANGED vars

valid_session_id(p) == Len(p) = 1 /\ p[1] \notin {"/", "bad"}

\* uploads_download: the id is checked, then its directory.
NotFound == /\ AtHandler /\ r.route.handler = "uploads_download"
            /\ r' = Return(Ran, 404)
            /\ UNCHANGED vars

\* HttpContext::begin_download takes the answer over: the head of the archive's
\* response is sent, or 500 when the archive cannot be begun.
\* Faulty: respond is left on.
begin_download_Twice(status) == [send_http_simple(Ran, status) EXCEPT !.pc = "flush"]
begin_download(status) ==
  [send_http_simple(Ran, status) EXCEPT !.pc = "flush", !.respond = FALSE]

\* uploads_download calls it for a valid id, an application's handler for any
\* directory, once.
Download == /\ AtHandler /\ r.route.handler \notin {"root", "uploads_list"}
            /\ r.route.handler = "uploads_download" => valid_session_id(param(r.route, r.req))
            /\ \E status \in {200, 500} : r' = begin_download(status)
            /\ UNCHANGED vars

\* The end of Router::dispatch: the context's answer is sent, unless somebody has
\* taken it over.
Flush == /\ r.pc = "flush"
         /\ LET x == [r EXCEPT !.pc = "idle"]
            IN  r' = IF r.respond THEN send_http_simple(x, r.status) ELSE x
         /\ UNCHANGED vars

-----------------------------------------------------------------------------
\* The answer is out and the connection torn down; the next one comes.
Accept == /\ r.pc = "idle" /\ r.done /\ r' = NewConnection
          /\ UNCHANGED vars

\* The tools go on while a request is worked on.
Tools == /\ ToolStep
         /\ r' = IF r.req.auth \in Token /\ acked'[r.req.auth] # r.promise
                 THEN [r EXCEPT !.promise = "maybe"] ELSE r

\* The machine goes down, and the server with it.
Restart == Crash /\ r' = NewConnection

HttpNext == \/ Ignored \/ Partial \/ Unparsable \/ \E q \in Requests : Dispatch(q)
            \/ NoBearer \/ OpenStore \/ require_auth
            \/ Handler \/ NotFound \/ Download \/ Flush
            \/ Accept \/ Tools \/ Restart

HttpSpec == HttpInit /\ [][HttpNext]_hvars

-----------------------------------------------------------------------------
(* Properties *)

Protected == {"uploads_list", "uploads_download"}
Answered == r.pc = "idle" /\ r.done

\* server.h:113-115 "reloaded on every check, so dicker-dbtool changes take
\* effect live without a restart": a token whose removal had been reported when
\* the request came in, and was not undone since, opens no protected endpoint,
\* and one whose addition had been reported is not refused, whatever the tools do
\* between the steps of the check and wherever they were killed; without a token
\* no way through the routes reaches them.  After a crash this holds of the
\* reports that AckedInEffect says it leaves.
TokensTakeEffect ==
  (Answered /\ ~unsure) =>
    /\ r.handler \in Protected => r.req.auth \in Token /\ r.promise \in {"yes", "maybe"}
    /\ (r.answer = 401 /\ r.handler = "none" /\ r.opened /\ r.req.auth \in Token)
         => r.promise \in {"no", "maybe"}

\* http_context.h:15-20, router.cxx:94-97, connection.cxx:319 - a request is
\* answered exactly once, whichever of the connection, the router, a middleware,
\* a controller or a takeover does it, and with whatever status; bytes that come
\* after it get no second answer.
OneAnswer == r.sent <= 1 /\ (r.pc = "idle" => (r.sent = 1 <=> r.done))

\* router.h:31-32 "Unmatched path -> 404; matched path, wrong method -> 405", over
\* the application's and the built-in routes together: the first route of both
\* that has the path and the method gets the request, whatever other routes share
\* the path, and its handler runs unless its middleware refuses; only when there
\* is none does the router refuse, and no handler runs.
RoutesAnswer ==
  LET all   == UserRoutes \o builtins
      known == {i \in DOMAIN all : path_matches(all[i], r.req.path)}
      takes == {i \in known : all[i].method = r.req.method}
  IN  Answered /\ r.req # NoRequest =>
        IF takes = {}
        THEN r.handler = "none" /\ r.answer = IF known = {} THEN 404 ELSE 405
        ELSE \E i \in takes :
               /\ \A j \in takes : i <= j
               /\ \/ r.handler = all[i].handler
                  \/ r.handler = "none" /\ r.answer = 401 /\ all[i].middleware # <<>>
=============================================================================
