---------------------------- MODULE UpstreamHttp ----------------------------
(***************************************************************************)
(* One request of a service's client (UpstreamHttpClient, src/upstream/),  *)
(* from the environment its settings are read from to its result: the      *)
(* address it is sent to, the redirects that are followed, and the answer  *)
(* that is read as JSON or as the bytes of a download under a limit.  The  *)
(* server and the HTTP library are external: the library follows the       *)
(* redirects that the client's policy lets through, and ends a request     *)
(* when its time is over.                                                  *)
(***************************************************************************)
EXTENDS ServiceSettings, Sequences

CONSTANTS
  Environments,  \* the environments the process may be started in
  Senders,       \* bound: those of them whose client goes on to a request
  Base,          \* the service's URL
  Urls,          \* URLs a caller or a server may name
  MaxRedirects,  \* MAX_SAME_ORIGIN_REDIRECTS
  MaxBytes,      \* the limit of a download
  MaxBody,       \* bound: a body of JSON is counted up to here
  Timeout        \* the time a request may take, in ticks

ASSUME UpstreamHttpAssumption ==
    /\ Senders \subseteq Environments
    /\ \A e \in Environments :
          e.kind \in {"cloud", "server", "gitlab"} /\ e.given \in [SettingNames -> SUBSET Places]
    /\ Base \in Urls
    /\ \A u \in Urls : u.scheme \in {"http", "https", "ftp"} /\ u.port \in Seq(Nat)
    /\ {MaxRedirects, MaxBytes, MaxBody} \subseteq Nat /\ MaxBytes < MaxBody
    /\ Timeout \in Nat \ {0}

VARIABLES
  env,       \* the environment
  settings,  \* what was read from it
  request,   \* the request: its sender, method, body and target
  pc,        \* "configure", "address", "send", "body", "error_body" or "done"
  url,       \* where it is sent next
  urls,      \* where it was sent so far
  declared,  \* the length the answer declares, <<>> if none
  held,      \* the bytes of the answer held
  served,    \* the bytes of the answer that came (history)
  clock,     \* the time the request has taken
  outcome    \* the result

vars == <<env, settings, request, pc, url, urls, declared, held, served, clock, outcome>>

NoRequest == [sender |-> "none"]
NoOutcome == [status |-> "none"]
Error(kind) == [status |-> "error", kind |-> kind]
Ok(value, size) == [status |-> "ok", value |-> value, size |-> size]

Path == [how |-> "path"]
Blank == [how |-> "blank"]
To(u) == [how |-> "url", url |-> u]

\* Calls decode JSON (send_json), JSON or nothing (send_json_value_or_null), or
\* take bytes (send_bytes_limited).  Only a download names its own target.
Requests ==
    [sender : {"json", "null"}, method : {"GET"}, body : {"none"}, target : {Path}]
    \cup [sender : {"json", "null"}, method : {"WRITE"}, body : {"json", "form"}, target : {Path}]
    \cup [sender : {"bytes"}, method : {"GET"}, body : {"none"}, target : {Path, Blank} \cup {To(u) : u \in Urls}]

-----------------------------------------------------------------------------
(* Addresses.  The port of a URL is <<>> or <<number>>.                    *)

Port(u) == IF u.port # <<>> THEN u.port[1] ELSE IF u.scheme = "https" THEN 443 ELSE 80

SameOrigin(left, right) ==
    /\ left.scheme = right.scheme
    /\ left.host = right.host
    /\ Port(left) = Port(right)


\* A path is put behind the base's; a URL must be of the base's origin.
Refused(r) == r.target = Blank \/ (r.target.how = "url" /\ ~SameOrigin(Base, r.target.url))
Address(r) == IF r.target.how = "url" THEN r.target.url ELSE Base

\* Fault: a redirect is judged by its host.
Fault_Follows(previous, next) ==
    /\ Len(previous) <= MaxRedirects
    /\ next.scheme \in {"http", "https"}
    /\ previous[Len(previous)].host = next.host

\* same_origin_redirect_policy: previous holds every URL requested so far.
Follows(previous, next) ==
    /\ Len(previous) <= MaxRedirects
    /\ next.scheme \in {"http", "https"}
    /\ SameOrigin(previous[Len(previous)], next)

-----------------------------------------------------------------------------
Init ==
    /\ env \in Environments
    /\ settings = Off
    /\ request = NoRequest
    /\ pc = "configure"
    /\ url = Base
    /\ urls = <<>>
    /\ declared = <<>>
    /\ held = 0
    /\ served = 0
    /\ clock = 0
    /\ outcome = NoOutcome

Return(result) ==
    /\ pc' = "done"
    /\ outcome' = result

Configure ==
    /\ pc = "configure"
    /\ settings' = Settings(env)
    /\ pc' = IF Settings(env).status = "on" /\ env \in Senders THEN "address" ELSE "done"
    /\ UNCHANGED <<env, request, url, urls, declared, held, served, clock, outcome>>

Build(r) ==
    /\ pc = "address"
    /\ request' = r
    /\ IF Refused(r)
         THEN Return(Error("invalid_input")) /\ UNCHANGED url
         ELSE url' = Address(r) /\ pc' = "send" /\ UNCHANGED outcome
    /\ UNCHANGED <<env, settings, urls, declared, held, served, clock>>

Sending ==
    /\ pc = "send"
    /\ urls' = Append(urls, url)
    /\ UNCHANGED <<env, settings, held, served, clock>>

\* The connection fails, or breaks before an answer.
NoAnswer ==
    /\ Sending
    /\ Return(Error("transport"))
    /\ UNCHANGED <<request, url, declared>>

\* 301 to 303 go on as a GET; 307 and 308 send the same again.
Redirected(next, keep) ==
    /\ Sending
    /\ ~(keep /\ request.body = "form")
    /\ IF Follows(urls', next)
         THEN /\ url' = next
              /\ request' = IF keep THEN request ELSE [request EXCEPT !.method = "GET", !.body = "none"]
              /\ UNCHANGED <<pc, outcome>>
         ELSE Return(Error("transport")) /\ UNCHANGED <<url, request>>
    /\ UNCHANGED declared

\* A status of failure, or a redirect that the library does not follow: it
\* names no place, or the body cannot be sent a second time.
StatusError ==
    /\ Sending
    /\ pc' = "error_body"
    /\ UNCHANGED <<request, url, declared, outcome>>

DeclaredExceeds(length) == length # <<>> /\ length[1] > MaxBytes

Answered(length) ==
    /\ Sending
    /\ declared' = length
    /\ IF request.sender = "bytes" /\ DeclaredExceeds(length)
         THEN Return(Error("invalid_input"))
         ELSE pc' = "body" /\ UNCHANGED outcome
    /\ UNCHANGED <<request, url>>

-----------------------------------------------------------------------------
(* The answer's body.                                                      *)

Least(m, n) == IF m <= n THEN m ELSE n

\* Fault: the limit is compared with what is held, without the new piece.
Fault_Exceeds(n) == request.sender = "bytes" /\ held > MaxBytes

Exceeds(n) == request.sender = "bytes" /\ held + n > MaxBytes

\* Fault: the time starts again with every piece (a read timeout).
Fault_TimeAfterPiece == 0

\* One time for the whole request (Client::builder().timeout).
TimeAfterPiece == clock

\* A piece of the body; the library passes on no more than was declared.
Piece(n) ==
    /\ pc = "body"
    /\ declared # <<>> => served + n <= declared[1]
    /\ served' = Least(served + n, MaxBody)
    /\ clock' = TimeAfterPiece
    /\ IF Exceeds(n)
         THEN Return(Error("invalid_input")) /\ UNCHANGED held
         ELSE held' = Least(held + n, MaxBody) /\ UNCHANGED <<pc, outcome>>
    /\ UNCHANGED <<env, settings, request, url, urls, declared>>

\* What the body's bytes are told as: a JSON body may not parse.
Readings ==
    CASE request.sender = "bytes" -> {Ok("bytes", held)}
      [] request.sender = "null" /\ held = 0 -> {Ok("null", 0)}
      [] request.sender = "json" /\ held = 0 -> {Error("json_decode")}
      [] OTHER -> {Ok("json", held), Error("json_decode")}

BodyEnds ==
    /\ pc = "body"
    /\ declared # <<>> => served = declared[1]
    /\ \E result \in Readings : Return(result)
    /\ UNCHANGED <<env, settings, request, url, urls, declared, held, served, clock>>

BodyBreaks ==
    /\ pc = "body"
    /\ Return(Error("transport"))
    /\ UNCHANGED <<env, settings, request, url, urls, declared, held, served, clock>>

\* The text of an error is read as far as it comes.
ErrorText ==
    /\ pc = "error_body"
    /\ Return(Error("http_status"))
    /\ UNCHANGED <<env, settings, request, url, urls, declared, held, served, clock>>

-----------------------------------------------------------------------------
Waiting == pc \in {"send", "body", "error_body"}

Tick ==
    /\ Waiting
    /\ clock < Timeout
    /\ clock' = clock + 1
    /\ UNCHANGED <<env, settings, request, pc, url, urls, declared, held, served, outcome>>

TimeOut ==
    /\ Waiting
    /\ clock = Timeout
    /\ Return(Error(IF pc = "error_body" THEN "http_status" ELSE "transport"))
    /\ UNCHANGED <<env, settings, request, url, urls, declared, held, served, clock>>

Next ==
    \/ Configure
    \/ \E r \in Requests : Build(r)
    \/ NoAnswer
    \/ \E u \in Urls, keep \in BOOLEAN : Redirected(u, keep)
    \/ StatusError
    \/ \E length \in {<<>>} \cup {<<n>> : n \in 0..MaxBody} : Answered(length)
    \/ \E n \in 1..MaxBody : Piece(n)
    \/ BodyEnds
    \/ BodyBreaks
    \/ ErrorText
    \/ Tick
    \/ TimeOut

\* Time passes, and the library's timer fires; nothing is assumed of the server.
Spec == Init /\ [][Next]_vars /\ WF_vars(Tick) /\ WF_vars(TimeOut)

-----------------------------------------------------------------------------
\* Every address a request goes to, credentials included, has the scheme, host
\* and port of the configured URL, whatever target the caller named and whatever
\* places the servers redirected to, and at most MaxRedirects redirects are
\* followed (docs/configuration.md, Security behavior).
StaysHome ==
    /\ Len(urls) <= MaxRedirects + 1
    /\ \A i \in DOMAIN urls :
          /\ urls[i].scheme = Base.scheme
          /\ urls[i].host = Base.host
          /\ Port(urls[i]) = Port(Base)

\* No more bytes of a download are held than its limit; a download that is
\* returned is the whole answer, and one that is rejected as too large after it
\* was sent for is.
SizeExact ==
    /\ request.sender = "bytes" => held <= MaxBytes
    /\ outcome.status = "ok" /\ request.sender = "bytes" =>
          /\ outcome.size = served
          /\ declared # <<>> => served = declared[1]
    /\ outcome = Error("invalid_input") /\ urls # <<>> =>
          DeclaredExceeds(declared) \/ served > MaxBytes

\* Own before shared, as far as secrets go: no shared secret is sent where the service has
\* its own of the kind that is sent (a shared token comes before a service's own user and
\* password on Server), the certificate and the key come from the same place, and GitLab
\* uses nothing that is shared.
OwnFirst ==
    settings.status = "on" =>
      /\ settings.auth.place = "shared" =>
            \A v \in IF settings.auth.scheme = "bearer" THEN {"personal_token"}
                     ELSE IF env.kind = "cloud" THEN {"api_token"} ELSE {"api_token", "password"} :
                "own" \notin env.given[v]
      /\ \A place \in settings.identity :
            {"client_cert", "client_key"} \subseteq {v \in SettingNames : place \in env.given[v]}
      /\ settings.identity # {} => settings.identity = {The(settings.identity)}
      /\ env.kind = "gitlab" =>
            \A places \in {settings.headers, settings.identity, settings.verify, settings.timeout}
                            \cup {settings.proxy[v] : v \in Proxies} : "shared" \notin places

\* Every request ends, though the server may let a redirect, a body or an
\* error text drip for ever.
RequestEnds == (pc = "send") ~> (pc = "done")
=============================================================================
