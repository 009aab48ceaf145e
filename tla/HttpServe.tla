------------------------------ MODULE HttpServe ------------------------------
(***************************************************************************)
(* The HTTP front end (server/src/http.rs, handle) before the dispatch     *)
(* that BatchServe models and the TCP front end shares: a path selects the *)
(* op, a header carries the token, the frame body is the request's body    *)
(* and the frame's status becomes a status code.                           *)
(*                                                                         *)
(* Reading requests and keeping connections alive is hyper's part.         *)
(***************************************************************************)
EXTENDS BatchServe

VARIABLES http,          \* the exchange: where it is, the request, the response
          auth_failures  \* Metrics::auth_failures

hvars == <<vars, http, auth_failures>>

Paths == {"/health", "/metrics", "/get", "/set", "/del", "/batch", "/ping", "/unknown"}
Requests == [path : Paths, method : {"GET", "POST"}, token : BOOLEAN]

OpOf(path) == CASE path = "/get" -> "get" [] path = "/set" -> "set" [] path = "/del" -> "del"
                [] path = "/batch" -> "batch" [] path = "/ping" -> "ping"

(* A response, and whether the connection is closed after it. *)
Response(code, len) == [code |-> code, len |-> len, close |-> FALSE]
closing(code, len) == [code |-> code, len |-> len, close |-> TRUE]
Pending == Response(0, 0)

Tcp == [at |-> "tcp"]
Exchange(at, req, res) == [at |-> at, req |-> req, res |-> res]

HInit == /\ Init /\ auth_failures = 0
         /\ \/ http = Tcp
            \/ out = <<>> /\ \E req \in Requests : http = Exchange("head", req, Pending)

(* The response to a head that is refused, or needs no body. *)
Gate(method, req, granted) ==
    CASE req.method # method -> closing(405, 1)
      [] req.method = method /\ ~req.token -> closing(401, 1)
      [] OTHER -> granted

(* Bug: a path that does not exist leaves the connection open. *)
AnswerKeepsAlive(req) ==
    CASE req.path = "/health" -> closing(200, 0)
      [] req.path = "/metrics" -> Gate("GET", req, Response(200, 1))
      [] req.path = "/unknown" -> Response(404, 1)
      [] OTHER -> Gate("POST", req, Pending)

Answer(req) ==
    CASE req.path = "/health" -> closing(200, 0)
      [] req.path = "/metrics" -> Gate("GET", req, Response(200, 1))
      [] req.path = "/unknown" -> closing(404, 1)
      [] OTHER -> Gate("POST", req, Pending)

(* handle, up to the wait for the body. *)
Handle ==
    /\ http.at = "head"
    /\ LET res == Answer(http.req)
       IN  /\ http' = Exchange(IF res = Pending THEN "body" ELSE "sent", http.req, res)
           /\ auth_failures' = auth_failures + IF res.code = 401 THEN 1 ELSE 0
    /\ UNCHANGED vars

(* The body is too long, by its announced length or as it comes in, or breaks
   off. *)
BodyRefused ==
    /\ http.at = "body"
    /\ \E code \in {413, 400} : http' = Exchange("sent", http.req, Response(code, 1))
    /\ UNCHANGED <<vars, auth_failures>>

(* The body is complete, and dispatched. *)
Complete(op) == http.at = "body" /\ OpOf(http.req.path) = op
Serve == http' = Exchange("serve", http.req, Pending) /\ UNCHANGED auth_failures

HttpSingle(it) == Complete(it.op) /\ Single(it) /\ Serve
HttpMalformed == Complete("batch") /\ Malformed /\ Serve
HttpBegin(its) == Complete("batch") /\ Begin(its) /\ Serve

CodeOf(status) ==
    CASE status = "Ok" -> 200
      [] status = "NotFound" -> 404
      [] status = "BadRequest" -> 400
      [] status = "TooLarge" -> 413
      [] OTHER -> 500

(* The frame that dispatch wrote becomes the response. *)
Respond ==
    /\ http.at = "serve" /\ phase = "done" /\ Len(out) = 1
    /\ http' = Exchange("sent", http.req, Response(CodeOf(out[1].status), out[1].len))
    /\ out' = <<>>
    /\ UNCHANGED <<phase, items, next, cache, stats, replies, first, auth_failures>>

OverTcp == http = Tcp
Same == UNCHANGED <<http, auth_failures>>

HNext ==
    \/ \E it \in Items : HttpSingle(it) \/ (OverTcp /\ Single(it) /\ Same)
    \/ HttpMalformed \/ (OverTcp /\ Malformed /\ Same)
    \/ \E its \in SeqOf(Items, ITEMS) : HttpBegin(its) \/ (OverTcp /\ Begin(its) /\ Same)
    \/ (GetRun /\ Same) \/ (SetRun /\ Same) \/ (DelRun /\ Same)
    \/ (OtherItem /\ Same) \/ (End /\ Same)
    \/ Handle \/ BodyRefused \/ Respond

HSpec == HInit /\ [][HNext]_hvars

-----------------------------------------------------------------------------
(* What the TCP front end answers to a frame of this op, with what it leaves of
   the cache and the counters. *)
TcpAnswer(op, status, len) ==
    \/ op = "batch" /\ items = <<>> /\ status = "BadRequest" /\ len = 1
    \/ op = "batch" /\ LET a == OnTheirOwn(Len(items))
                       IN  /\ cache = a.cache /\ stats = a.stats /\ replies = a.replies
                           /\ IF since > MAX_RESPONSE THEN status = "TooLarge" /\ len = 1
                              ELSE status = "Ok" /\ len = since
    \/ \E it \in Items : /\ it.op = op
                         /\ Alone(it, first.cache, first.stats)
                              = Served(cache, stats, [status |-> status, len |-> len])

(* "Every response sent before the token has been verified closes the
   connection: an unauthenticated peer never gets to keep one alive" (closing):
   a connection is kept, and the cache read or written, only for a request with
   the token; every refused token is counted, once.  And whatever dispatch
   answers has a code, "so this [500] cannot happen" (handle): the response is
   the one the frame would get over TCP, its status as that code. *)
HttpAsTcp ==
    http # Tcp =>
        LET sent == http.at = "sent"
            acted == cache # first.cache \/ stats # first.stats
        IN  /\ acted \/ (sent /\ ~http.res.close) => http.req.token
            /\ acted => http.req.method = "POST"
            /\ auth_failures = IF sent /\ http.res.code = 401 THEN 1 ELSE 0
            /\ sent /\ phase = "done" =>
                 \E status \in {"Ok", "NotFound", "BadRequest", "TooLarge"} :
                     /\ http.res.code = CodeOf(status)
                     /\ TcpAnswer(OpOf(http.req.path), status, http.res.len)
=============================================================================
