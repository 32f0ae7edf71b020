------------------------------ MODULE AdminHandle ------------------------------
(***************************************************************************)
(* The request routing of the admin web interface (handle in              *)
(* webadmin/admin.go) and the error codes its API functions panic with    *)
(* (xcheckf, xcheckuserf).  A request is a path, a method and the verdict *)
(* of webauth.Check on its session cookie and CSRF header (webauth is not *)
(* under src/).  An API function is a path under /api/.                   *)
(***************************************************************************)
EXTENDS Sequences

CONSTANT ApiFunctions    \* the exported methods of Admin, by name

\* The functions that need no session: they create one.
LoginFunctions == {"LoginPrep", "Login"}

ApiPath(f) == "/api/" \o f
Paths == {"/", "/api/", "/other"} \cup {ApiPath(f) : f \in ApiFunctions}
Methods == {"GET", "HEAD", "POST"}
Requests == [path : Paths, method : Methods, authOK : BOOLEAN]

IsAPI(p) == p = "/api/" \/ \E f \in ApiFunctions : p = ApiPath(f)

\* Variant: an API call is accepted with any method.
RouteNoPostCheck(r) ==
    CASE r.path = "/" -> IF r.method \in {"GET", "HEAD"} THEN "page" ELSE "405"
      [] r.path \notin {ApiPath(f) : f \in LoginFunctions} /\ ~r.authOK -> "401"
      [] IsAPI(r.path) -> "api"
      [] OTHER -> "404"

\* handle: what the request is answered with.  "page" is the HTML/JS of the
\* interface, "api" hands it to the sherpa handler; the others are the
\* status the early returns write (webauth.Check writes its own).
Route(r) ==
    CASE r.path = "/" -> IF r.method \in {"GET", "HEAD"} THEN "page" ELSE "405"
      [] IsAPI(r.path) /\ r.path # "/api/" /\ r.method # "POST" -> "405"
      [] r.path \notin {ApiPath(f) : f \in LoginFunctions} /\ ~r.authOK -> "401"
      [] IsAPI(r.path) -> "api"
      [] OTHER -> "404"

\* The function the sherpa handler calls for a request routed to "api";
\* "/api/" itself is the API documentation.
FunctionOf(r) == IF r.path = "/api/" THEN "doc"
                 ELSE CHOOSE f \in ApiFunctions : r.path = ApiPath(f)

\* Errors a call can meet: none, a record that is absent, the request's
\* context canceled or past its deadline, any other failure of a package.
Errors == {"nil", "absent", "canceled", "deadline", "failed"}

\* xcheckf: an error of the context is the caller's, any other the server's.
Xcheckf(err) ==
    IF err \in {"canceled", "deadline"} THEN "user:error" ELSE "server:error"

\* xcheckuserf: always the caller's.
Xcheckuserf(err) == "user:error"
=============================================================================
