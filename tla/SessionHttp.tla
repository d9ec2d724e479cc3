----------------------------- MODULE SessionHttp -----------------------------
(***************************************************************************)
(* What the session commands and the Review Map of the TUI say over HTTP:  *)
(* SessionClient and the broker's HTTP front end, and ReviewMapClient      *)
(* reading what ramo-server answers (its own HTTP library is external).    *)
(*                                                                         *)
(* A message is its head and its body as bytes on the wire; the bytes that *)
(* matter to the framing are "r" and "n", any other is "x".  `cuts' is the *)
(* set of the numbers of bytes that were there after a read.  What a head  *)
(* says is a record beside it.  JSON is left out: a body is a value, or it *)
(* was damaged and is None.                                                *)
(***************************************************************************)
EXTENDS Integers, Sequences, FiniteSets, FiniteSetsExt

CONSTANTS MaxHeader,    \* MAX_HTTP_HEADER_BYTES, MAX_REVIEW_MAP_HEADERS
          MaxBody,      \* MAX_HTTP_BODY_BYTES
          MaxResponse,  \* MAX_HTTP_RESPONSE_BYTES, MAX_REVIEW_MAP_RESPONSE
          None

Blank == <<"r", "n", "r", "n">>

\* find_bytes(bytes, "\r\n\r\n"): how many bytes stand before the first one.
find_bytes(bytes) ==
  LET at == {i \in 0 .. Len(bytes) - 4 : SubSeq(bytes, i + 1, i + 4) = Blank}
  IN  IF at = {} THEN None ELSE Min(at)

Refused(code) == [ok |-> FALSE, code |-> code, body |-> <<>>]
Accepted(body) == [ok |-> TRUE, code |-> "200", body |-> body]

\* The loop over the reads: how many bytes the head has, or why there is none.  `full'
\* is the number of bytes without a blank line at which it gives up.
ReadHead(wire, cuts, full) ==
  LET found  == {c \in cuts : find_bytes(SubSeq(wire, 1, c)) # None}
      before == {c \in cuts : \A f \in found : c < f}
      head   == IF found = {} THEN None ELSE find_bytes(SubSeq(wire, 1, Min(found)))
  IN  [size |-> head,
       code |-> IF (\E c \in before : c >= full) \/ (found # {} /\ head > MaxHeader) THEN "headers-too-large"
                ELSE IF found = {} THEN "incomplete-request" ELSE "Ok"]

\* Mutant: the length counts from the blank line instead of from the byte after it.
ReadFromBlankLine(wire, head, length) ==
  IF Len(wire) < head + length THEN Refused("incomplete-body") ELSE Accepted(SubSeq(wire, head + 1, head + length))

\* The body after the head: what came with the head is cut at the length, what is missing
\* is read until it is there or the peer is gone.
ReadBody(wire, head, length) ==
  IF Len(wire) < head + 4 + length THEN Refused("incomplete-body")
  ELSE Accepted(SubSeq(wire, head + 5, head + 4 + length))

-----------------------------------------------------------------------------
(* The broker.                                                             *)

read_request(wire, cuts, headers) ==
  LET head == ReadHead(wire, cuts, MaxHeader)
  IN  IF head.code # "Ok" THEN Refused(head.code)
      ELSE IF headers.duplicate THEN Refused("invalid-header")
      ELSE IF headers.chunked THEN Refused("unsupported-transfer-encoding")
      ELSE IF headers.length # None /\ headers.length > MaxBody THEN Refused("body-too-large")
      ELSE ReadBody(wire, head.size, IF headers.length = None THEN 0 ELSE headers.length)

\* resolve_session_address: the first variable that is set, one of the loopback hosts and
\* a port; what is none of these is an error.
Loopback == {"127.0.0.1", "::1", "localhost"}
Ports == 1 .. 65535
resolve_session_address(env) ==
  LET set(first, second, default) == IF env[first] # None THEN env[first] ELSE IF env[second] # None THEN env[second] ELSE default
      host == set("RAMO_SESSION_HOST", "HUNK_MCP_HOST", "127.0.0.1")
      port == set("RAMO_SESSION_PORT", "HUNK_MCP_PORT", 47657)
  IN  IF host \notin Loopback \/ port \notin Ports THEN None
      ELSE [host |-> IF host = "localhost" THEN "127.0.0.1" ELSE host, port |-> port]

\* A socket address is written with brackets around an IPv6 host; split_authority takes
\* them off and refuses an IPv6 host without them.
HostHeader(address) == [address EXCEPT !.host = IF @ = "::1" THEN "[::1]" ELSE @]
validate_authority(authority, port) ==
  /\ authority.port = port
  /\ authority.host \in (Loopback \ {"::1"}) \cup {"[::1]"}
validate_request_authority(headers, port) ==
  /\ validate_authority(headers.host, port)
  /\ headers.origin = None \/ validate_authority(headers.origin, port)

Mutations == {"navigate", "reload", "comment-add", "comment-apply", "comment-list", "comment-rm", "comment-clear"}
Reads == {"get", "context", "review"}

Routed(code, action, wait) == [code |-> code, action |-> action, wait |-> wait]

\* route_session_api: the code of the answer, and for how long the broker waits for the
\* session it passed the command to.
route_session_api(request) ==
  IF request.method # "POST" THEN Routed("method-not-allowed", None, 0)
  ELSE IF request.headers.type # "application/json" THEN Routed("unsupported-content-type", None, 0)
  ELSE IF request.input = None THEN Routed("invalid-json", None, 0)
  ELSE LET action == request.input.action
       IN  IF action = "list" THEN Routed("200", action, 0)
           ELSE IF Cardinality(request.input.selector) # 1 THEN Routed("invalid-selector", None, 0)
           ELSE IF action \in Mutations THEN Routed("200", action, IF action \in {"reload", "comment-apply"} THEN 30 ELSE 5)
           ELSE IF action \in Reads THEN Routed("200", action, 0)
           ELSE Routed("unsupported-action", None, 0)

\* route: whose request it is, then the path; the other paths answer on their own.
route(request, port) ==
  IF ~validate_request_authority(request.headers, port) THEN Routed("forbidden-authority", None, 0)
  ELSE CASE request.path = "/session-api" -> route_session_api(request)
         [] request.path \in {"/health", "/session-api/capabilities"} /\ request.method = "GET" -> Routed("200", request.path, 0)
         [] request.path = "/daemon/shutdown" /\ request.method = "POST" -> Routed("200", "shutdown", 0)
         [] OTHER -> Routed("refused", None, 0)

\* write_response: a body that is too large is replaced by an error of its own.
write_response(body) ==
  IF Len(body) > MaxResponse THEN [status |-> 500, body |-> <<"x">>] ELSE [status |-> 200, body |-> body]
-----------------------------------------------------------------------------
(* SessionClient.                                                          *)

Commands == [List |-> "list", Get |-> "get", Context |-> "context", Review |-> "review", Navigate |-> "navigate",
             Reload |-> "reload", CommentAdd |-> "comment-add", CommentApply |-> "comment-apply",
             CommentList |-> "comment-list", CommentRemove |-> "comment-rm", CommentClear |-> "comment-clear"]

\* command_request: the action of each command and how long the client waits; the command
\* line gives one selector to every command but list.
command_request(command, selector) ==
  [input |-> [action |-> Commands[command], selector |-> IF command = "List" THEN {} ELSE {selector}],
   timeout |-> IF command \in {"Reload", "CommentApply"} THEN 30 ELSE 5]

\* send: what goes out with a body.
Request(command, selector, address, body) ==
  [method |-> "POST", path |-> "/session-api", input |-> command_request(command, selector).input,
   headers |-> [host |-> HostHeader(address), origin |-> None, type |-> "application/json",
                length |-> Len(body), duplicate |-> FALSE, chunked |-> FALSE]]

\* send: the whole answer is read, up to the limit on head and body together; there is no
\* check of its length, and a body that was cut does not parse.
send(wire, whole) ==
  LET head == find_bytes(wire)
  IN  IF Len(wire) > MaxResponse THEN Refused("exceeds 1 MiB")
      ELSE IF head = None THEN Refused("invalid HTTP response")
      ELSE IF Len(wire) < whole THEN Refused("damaged")
      ELSE Accepted(SubSeq(wire, head + 5, Len(wire)))
-----------------------------------------------------------------------------
(* ReviewMapClient.                                                        *)

\* read_response.
read_response(wire, cuts, headers) ==
  LET head == ReadHead(wire, cuts, MaxHeader + 1)
  IN  IF head.code # "Ok" THEN Refused(head.code)
      ELSE IF headers.duplicate \/ headers.chunked \/ headers.length = None THEN Refused("incompatible")
      ELSE IF headers.length > MaxResponse THEN Refused("exceeds 1 MiB")
      ELSE ReadBody(wire, head.size, headers.length)

\* decode_response: the failure of the server, another schema, or the response.
decode_response(answer, response) ==
  CASE ~answer.ok -> answer.code
    [] answer.ok /\ response.schema # 1 -> "ServerIncompatible"
    [] answer.ok /\ response.schema = 1 /\ response.status # 200 -> response.failure
    [] OTHER -> IF response.mapSchema # 1 THEN "ServerIncompatible" ELSE "Ok"

\* resolve compares the head with the one it asked for; a poll asks for none.
resolve(answer, response, expected) ==
  LET decoded == decode_response(answer, response)
  IN  IF decoded = "Ok" /\ expected # None /\ response.head # expected THEN "ResultStale" ELSE decoded
-----------------------------------------------------------------------------
(* Properties.                                                             *)

Wire(head, body) == [i \in 1 .. head |-> "x"] \o Blank \o body

\* Whatever the reads return, a request that a command sends is read byte for byte, also
\* when its body has a blank line of its own or bytes of another message follow it; it is
\* routed as the action of the command, and the client waits no less long than the broker
\* does (send, read_request, route, command_request).
RequestArrives(command, selector, env, head, body, after, cuts) ==
  LET address == resolve_session_address(env)
      request == Request(command, selector, address, body)
      read    == read_request(Wire(head, body) \o after, cuts, request.headers)
      routed  == route(request, address.port)
  IN  address # None =>
        /\ routed.code = "200" /\ routed.action = Commands[command]
        /\ routed.wait <= command_request(command, selector).timeout
        /\ \/ read = Accepted(body)
           \/ ~read.ok /\ (head + 4 > MaxHeader \/ Len(body) > MaxBody)

\* A response is taken whole or refused: a connection that ends early, a length that is
\* too large or a head that is too long never leaves a part of a map behind, and a map of
\* another head is not taken for the one that was asked for (read_response, send, resolve).
ResponseIsWhole(head, body, cut, cuts, headers, response, expected) ==
  LET wire == SubSeq(Wire(head, body), 1, cut)
      map  == read_response(wire, cuts, headers)
      json == send(wire, Len(Wire(head, body)))
  IN  /\ map.ok => headers.length <= Len(body) /\ map.body = SubSeq(body, 1, headers.length)
      /\ json.ok => json.body = body
      /\ write_response(body).status = 200 => (json.ok <=> cut = Len(Wire(head, body)) /\ cut <= MaxResponse)
      /\ (resolve(map, response, expected) = "Ok" /\ expected # None) => response.head = expected
=============================================================================
