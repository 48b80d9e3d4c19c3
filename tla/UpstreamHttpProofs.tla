-------------------------- MODULE UpstreamHttpProofs --------------------------
(***************************************************************************)
(* Proofs about UpstreamHttp: a request stays at the origin of the         *)
(* service's URL, and a download is held and told as it should be, for     *)
(* every set of URLs, every number of redirects and every limit.           *)
(***************************************************************************)
EXTENDS UpstreamHttp, TLAPS

Stages == {"configure", "address", "send", "body", "error_body", "done"}

\* The strengthening of StaysHome: while the request may still be sent, the place
\* it would go to is at home, and a redirect is left.
HomeInv ==
    /\ pc \in Stages
    /\ url \in Urls
    /\ urls \in Seq(Urls)
    /\ SameOrigin(Base, url)
    /\ \A i \in 1..Len(urls) : SameOrigin(Base, urls[i])
    /\ Len(urls) <= MaxRedirects + 1
    /\ pc \in {"configure", "address", "send"} => Len(urls) <= MaxRedirects

USE UpstreamHttpAssumption

LEMMA SameOriginTransitive ==
  ASSUME NEW a, NEW b, NEW c, SameOrigin(a, b), SameOrigin(b, c)
  PROVE  SameOrigin(a, c)
BY DEF SameOrigin

\* What every request has in common: it goes to url, which is at home.
LEMMA SendingKeepsHome ==
  ASSUME HomeInv, Sending
  PROVE  /\ urls' \in Seq(Urls)
         /\ urls'[Len(urls')] = url
         /\ Len(urls') <= MaxRedirects + 1
         /\ \A i \in 1..Len(urls') : SameOrigin(Base, urls'[i])
BY DEF HomeInv, Sending

LEMMA HomeInvInit == Init => HomeInv
BY DEF Init, HomeInv, Stages, SameOrigin

LEMMA HomeInvNext == HomeInv /\ [Next]_vars => HomeInv'
<1> SUFFICES ASSUME HomeInv, [Next]_vars PROVE HomeInv'
  OBVIOUS
<1>1. CASE Configure
  BY <1>1 DEF HomeInv, Configure, Stages
<1>2. ASSUME NEW r \in Requests, Build(r) PROVE HomeInv'
  <2>1. CASE Refused(r)
    BY <1>2, <2>1 DEF HomeInv, Build, Return, Stages
  <2>2. CASE ~Refused(r)
    <3>1. r.target.how = "url" => r.target.url \in Urls
      BY DEF Requests, To, Path, Blank
    <3>2. Address(r) \in Urls /\ SameOrigin(Base, Address(r))
      BY <2>2, <3>1 DEF Refused, Address, SameOrigin
    <3> QED BY <1>2, <2>2, <3>2 DEF HomeInv, Build, Stages
  <2> QED BY <2>1, <2>2
<1>3. CASE NoAnswer
  BY <1>3, SendingKeepsHome DEF HomeInv, NoAnswer, Return, Stages
<1>4. ASSUME NEW u \in Urls, NEW keep \in BOOLEAN, Redirected(u, keep) PROVE HomeInv'
  <2>0. Sending
    BY <1>4 DEF Redirected
  <2>1. CASE Follows(urls', u)
    <3>1. SameOrigin(url, u) /\ Len(urls') <= MaxRedirects
      BY <2>0, <2>1, SendingKeepsHome DEF Follows
    <3>2. SameOrigin(Base, u)
      BY <3>1, SameOriginTransitive DEF HomeInv
    <3> QED BY <1>4, <2>0, <2>1, <3>1, <3>2, SendingKeepsHome DEF HomeInv, Redirected, Stages
  <2>2. CASE ~Follows(urls', u)
    BY <1>4, <2>0, <2>2, SendingKeepsHome DEF HomeInv, Redirected, Return, Stages
  <2> QED BY <2>1, <2>2
<1>5. CASE StatusError
  BY <1>5, SendingKeepsHome DEF HomeInv, StatusError, Stages
<1>6. ASSUME NEW length, Answered(length) PROVE HomeInv'
  BY <1>6, SendingKeepsHome DEF HomeInv, Answered, Return, Stages
<1>7. ASSUME NEW n, Piece(n) PROVE HomeInv'
  BY <1>7 DEF HomeInv, Piece, Return, Stages
<1>8. CASE BodyEnds
  BY <1>8 DEF HomeInv, BodyEnds, Return, Stages
<1>9. CASE BodyBreaks
  BY <1>9 DEF HomeInv, BodyBreaks, Return, Stages
<1>10. CASE ErrorText
  BY <1>10 DEF HomeInv, ErrorText, Return, Stages
<1>11. CASE Tick
  BY <1>11 DEF HomeInv, Tick, Stages
<1>12. CASE TimeOut
  BY <1>12 DEF HomeInv, TimeOut, Return, Stages
<1>13. CASE UNCHANGED vars
  BY <1>13 DEF HomeInv, vars
<1> QED BY <1>1, <1>2, <1>3, <1>4, <1>5, <1>6, <1>7, <1>8, <1>9, <1>10, <1>11, <1>12, <1>13 DEF Next

\* Every address a request goes to is of the configured URL's origin, and no
\* more than MaxRedirects redirects are followed, for every set of URLs.
THEOREM StaysHomeHolds == Spec => []StaysHome
<1>1. HomeInv => StaysHome
  BY DEF HomeInv, StaysHome, SameOrigin
<1> QED BY <1>1, HomeInvInit, HomeInvNext, PTL DEF Spec

-----------------------------------------------------------------------------
\* The strengthening of SizeExact: what is held of a download is what came, until
\* the piece that is too much; nothing was asked or read before a request is sent.
SizeInv ==
    /\ pc \in Stages
    /\ declared \in {<<>>} \cup {<<n>> : n \in 0..MaxBody}
    /\ served \in 0..MaxBody
    /\ held \in 0..MaxBody
    /\ request \in Requests \cup {NoRequest}
    /\ request.sender = "bytes" => held <= MaxBytes
    /\ pc # "done" => held = served /\ outcome = NoOutcome
    /\ pc \in {"configure", "address"} => urls = <<>> /\ held = 0
    /\ outcome.status = "ok" /\ request.sender = "bytes" =>
          /\ outcome.size = served
          /\ declared # <<>> => served = declared[1]
    /\ outcome = Error("invalid_input") /\ urls # <<>> =>
          DeclaredExceeds(declared) \/ served > MaxBytes

LEMMA SizeInvInit == Init => SizeInv
BY DEF Init, SizeInv, Stages, NoRequest, NoOutcome, Error

\* A redirect that is followed changes a request's method and body, never how its
\* answer is read.
\* The same, while the request is under way, and when it ends with a failure.
Under ==
    /\ declared \in {<<>>} \cup {<<n>> : n \in 0..MaxBody}
    /\ served \in 0..MaxBody
    /\ held \in 0..MaxBody
    /\ request \in Requests \cup {NoRequest}
    /\ request.sender = "bytes" => held <= MaxBytes

LEMMA GoesOn ==
  ASSUME Under', pc' \in Stages, held' = served', outcome' = NoOutcome,
         pc' \in {"configure", "address"} => urls' = <<>> /\ held' = 0
  PROVE  SizeInv'
BY DEF Under, SizeInv, NoOutcome, Error

LEMMA Fails ==
  ASSUME Under', NEW kind, Return(Error(kind)),
         kind = "invalid_input" /\ urls' # <<>> =>
            DeclaredExceeds(declared') \/ served' > MaxBytes
  PROVE  SizeInv'
<1>1. outcome' = Error(kind) /\ pc' = "done"
  BY DEF Return
<1>2. outcome'.status # "ok" /\ (outcome' = Error("invalid_input") => kind = "invalid_input")
  BY <1>1 DEF Error
<1> QED BY <1>1, <1>2 DEF Under, SizeInv, Stages, DeclaredExceeds

\* A redirect that is followed changes a request's method and body, never how its
\* answer is read.
LEMMA RedirectKeepsSender ==
  ASSUME NEW r \in Requests \cup {NoRequest}, NEW s,
         s = [r EXCEPT !.method = "GET", !.body = "none"]
  PROVE  s \in Requests \cup {NoRequest} /\ s.sender = r.sender
<1>1. CASE r = NoRequest
  BY <1>1 DEF NoRequest
<1>2. CASE r \in Requests
  BY <1>2 DEF Requests
<1> QED BY <1>1, <1>2

LEMMA SizeInvNext == SizeInv /\ [Next]_vars => SizeInv'
<1> SUFFICES ASSUME SizeInv, [Next]_vars PROVE SizeInv'
  OBVIOUS
<1>0. Under
  BY DEF SizeInv, Under
<1>a. pc # "done" => held = served /\ outcome = NoOutcome
  BY DEF SizeInv
<1>1. CASE Configure
  <2>1. Under'
    BY <1>0, <1>1 DEF Configure, Under
  <2>2. urls = <<>> /\ held = 0
    BY <1>1 DEF Configure, SizeInv
  <2>3. pc' \in Stages /\ held' = served' /\ outcome' = NoOutcome /\ urls' = <<>> /\ held' = 0
    BY <1>1, <1>a, <2>2 DEF Configure, Stages
  <2> QED BY <2>1, <2>3, GoesOn
<1>2. ASSUME NEW r \in Requests, Build(r) PROVE SizeInv'
  <2>1. /\ urls' = <<>> /\ request' = r /\ held' = held /\ served' = served /\ declared' = declared
        /\ held = 0
    BY <1>2 DEF Build, SizeInv
  <2>2. Under'
    BY <1>0, <2>1 DEF Under
  <2>3. CASE Refused(r)
    BY <1>2, <2>1, <2>2, <2>3, Fails DEF Build
  <2>4. CASE ~Refused(r)
    <3>1. pc' \in Stages /\ held' = served' /\ outcome' = NoOutcome /\ pc' = "send"
      BY <1>2, <1>a, <2>1, <2>4 DEF Build, Stages
    <3> QED BY <2>2, <3>1, GoesOn
  <2> QED BY <2>3, <2>4
<1>3. CASE NoAnswer
  <2>1. Under'
    BY <1>0, <1>3 DEF NoAnswer, Sending, Under
  <2> QED BY <1>3, <2>1, Fails DEF NoAnswer
<1>4. ASSUME NEW u \in Urls, NEW keep \in BOOLEAN, Redirected(u, keep) PROVE SizeInv'
  <2>1. /\ pc = "send" /\ urls' = Append(urls, url)
        /\ held' = held /\ served' = served /\ declared' = declared
    BY <1>4 DEF Redirected, Sending
  <2>2. request' \in Requests \cup {NoRequest} /\ request'.sender = request.sender
    BY <1>0, <1>4, RedirectKeepsSender DEF Redirected, Under
  <2>3. Under'
    BY <1>0, <2>1, <2>2 DEF Under
  <2>4. CASE Follows(urls', u)
    <3>1. pc' \in Stages /\ held' = served' /\ outcome' = NoOutcome /\ pc' = "send"
      BY <1>4, <1>a, <2>1, <2>4 DEF Redirected, Stages
    <3> QED BY <2>3, <3>1, GoesOn
  <2>5. CASE ~Follows(urls', u)
    BY <1>4, <2>3, <2>5, Fails DEF Redirected
  <2> QED BY <2>4, <2>5
<1>5. CASE StatusError
  <2>1. Under'
    BY <1>0, <1>5 DEF StatusError, Sending, Under
  <2>2. pc' = "error_body" /\ held' = served' /\ outcome' = NoOutcome
    BY <1>5, <1>a DEF StatusError, Sending
  <2> QED BY <2>1, <2>2, GoesOn DEF Stages
<1>6. ASSUME NEW length \in {<<>>} \cup {<<n>> : n \in 0..MaxBody}, Answered(length) PROVE SizeInv'
  <2>1. Under'
    BY <1>0, <1>6 DEF Answered, Sending, Under
  <2>2. CASE request.sender = "bytes" /\ DeclaredExceeds(length)
    <3>1. Return(Error("invalid_input")) /\ DeclaredExceeds(declared')
      BY <1>6, <2>2 DEF Answered
    <3> QED BY <2>1, <3>1, Fails
  <2>3. CASE ~(request.sender = "bytes" /\ DeclaredExceeds(length))
    <3>1. pc' = "body" /\ held' = served' /\ outcome' = NoOutcome
      BY <1>6, <1>a, <2>3 DEF Answered, Sending
    <3> QED BY <2>1, <3>1, GoesOn DEF Stages
  <2> QED BY <2>2, <2>3
<1>7. ASSUME NEW n \in 1..MaxBody, Piece(n) PROVE SizeInv'
  <2>1. /\ pc = "body" /\ held = served /\ outcome = NoOutcome
        /\ served' = Least(served + n, MaxBody)
        /\ UNCHANGED <<request, urls, declared>>
    BY <1>7, <1>a DEF Piece
  <2>2. /\ served \in Nat /\ n \in Nat /\ MaxBody \in Nat /\ MaxBytes \in Nat /\ MaxBytes < MaxBody
        /\ served' \in 0..MaxBody
    BY <1>0, <2>1 DEF Under, Least
  <2>3. CASE Exceeds(n)
    <3>1. Return(Error("invalid_input")) /\ held' = held
      BY <1>7, <2>3 DEF Piece
    <3>2. Under'
      BY <1>0, <2>1, <2>2, <3>1 DEF Under
    <3>3. served' > MaxBytes
      BY <2>1, <2>2, <2>3 DEF Exceeds, Least
    <3> QED BY <3>1, <3>2, <3>3, Fails
  <2>4. CASE ~Exceeds(n)
    <3>1. held' = served' /\ pc' = "body" /\ outcome' = NoOutcome
      BY <1>7, <2>1, <2>4 DEF Piece
    <3>2. request.sender = "bytes" => held' <= MaxBytes
      BY <2>1, <2>2, <2>4, <3>1 DEF Exceeds, Least
    <3>3. Under'
      BY <1>0, <2>1, <2>2, <3>1, <3>2 DEF Under
    <3> QED BY <3>1, <3>3, GoesOn DEF Stages
  <2> QED BY <2>3, <2>4
<1>8. CASE BodyEnds
  <2>1. /\ held = served /\ (declared # <<>> => served = declared[1])
        /\ UNCHANGED <<urls, declared, held, served, request>>
    BY <1>8, <1>a DEF BodyEnds
  <2>2. PICK result \in Readings : Return(result)
    BY <1>8 DEF BodyEnds
  <2>3. Under'
    BY <1>0, <2>1 DEF Under
  <2>4. CASE result = Error("json_decode")
    BY <2>2, <2>3, <2>4, Fails
  <2>5. CASE result # Error("json_decode")
    <3>1. PICK value : result = Ok(value, held)
      BY <2>2, <2>5 DEF Readings
    <3>2. outcome' = Ok(value, held) /\ pc' = "done"
      BY <2>2, <3>1 DEF Return
    <3>3. outcome'.size = served' /\ outcome' # Error("invalid_input")
      BY <2>1, <3>2 DEF Ok, Error
    <3> QED BY <2>1, <2>3, <3>2, <3>3 DEF Under, SizeInv, Stages
  <2> QED BY <2>4, <2>5
<1>9. CASE BodyBreaks
  <2>1. Under'
    BY <1>0, <1>9 DEF BodyBreaks, Under
  <2> QED BY <1>9, <2>1, Fails DEF BodyBreaks
<1>10. CASE ErrorText
  <2>1. Under'
    BY <1>0, <1>10 DEF ErrorText, Under
  <2> QED BY <1>10, <2>1, Fails DEF ErrorText
<1>11. CASE Tick
  BY <1>11 DEF Tick, SizeInv, DeclaredExceeds
<1>12. CASE TimeOut
  <2>1. Under'
    BY <1>0, <1>12 DEF TimeOut, Under
  <2> QED BY <1>12, <2>1, Fails DEF TimeOut
<1>13. CASE UNCHANGED vars
  BY <1>13 DEF vars, SizeInv, DeclaredExceeds
<1> QED BY <1>1, <1>2, <1>3, <1>4, <1>5, <1>6, <1>7, <1>8, <1>9, <1>10, <1>11, <1>12, <1>13 DEF Next

\* What is held of a download stays within its limit, what is returned is the whole
\* of it, and only what is too large is rejected as such, for every limit and size.
THEOREM SizeExactHolds == Spec => []SizeExact
<1>1. SizeInv => SizeExact
  BY DEF SizeInv, SizeExact
<1> QED BY <1>1, SizeInvInit, SizeInvNext, PTL DEF Spec

-----------------------------------------------------------------------------
\* What is taken from one of several places is taken from the first that has it.
LEMMA TheFirst ==
  ASSUME NEW places, NEW more, places \subseteq {"own"}, more \subseteq {"shared"},
         First(places, more) # {}
  PROVE  /\ The(First(places, more)) \in {"own", "shared"}
         /\ The(First(places, more)) = "shared" => places = {}
BY DEF The, First

LEMMA TakenFirst ==
  ASSUME NEW e, NEW v, Taken(e, v) # {}
  PROVE  The(Taken(e, v)) = "shared" => "own" \notin e.given[v] /\ e.kind # "gitlab"
<1>1. CASE e.kind = "gitlab"
  BY <1>1 DEF Taken, Own, The
<1>2. CASE e.kind # "gitlab"
  <2>1. Taken(e, v) = First(Own(e, v), e.given[v] \cap {"shared"})
    BY <1>2 DEF Taken, OwnOrShared
  <2>2. Own(e, v) \subseteq {"own"} /\ e.given[v] \cap {"shared"} \subseteq {"shared"}
    BY DEF Own
  <2>3. The(Taken(e, v)) = "shared" => Own(e, v) = {}
    BY <2>1, <2>2, TheFirst
  <2> QED BY <1>2, <2>3 DEF Own
<1> QED BY <1>1, <1>2

\* A server's secret is a shared one only if it has neither of its own.
LEMMA ServerSecretFirst ==
  ASSUME NEW e, Taken(e, ServerSecret(e)) # {}, The(Taken(e, ServerSecret(e))) = "shared"
  PROVE  "own" \notin e.given["password"] /\ "own" \notin e.given["api_token"]
<1>1. "own" \notin e.given[ServerSecret(e)] /\ e.kind # "gitlab"
  BY TakenFirst
<1>2. CASE Own(e, "password") # {} \/ Own(e, "api_token") = {}
  <2>1. ServerSecret(e) = IF Taken(e, "password") # {} THEN "password" ELSE "api_token"
    BY <1>2 DEF ServerSecret
  <2>2. Own(e, "password") # {} => Taken(e, "password") # {}
    BY <1>1 DEF Taken, OwnOrShared, First
  <2> QED BY <1>1, <1>2, <2>1, <2>2 DEF Own
<1>3. CASE ~(Own(e, "password") # {} \/ Own(e, "api_token") = {})
  <2>1. ServerSecret(e) = IF Taken(e, "api_token") # {} THEN "api_token" ELSE "password"
    BY <1>3 DEF ServerSecret
  <2>2. Taken(e, "api_token") # {}
    BY <1>1, <1>3 DEF Taken, OwnOrShared, First
  <2> QED BY <1>1, <1>3, <2>1, <2>2 DEF Own
<1> QED BY <1>2, <1>3

SecretsFirst(e) ==
    Auth(e) # NoAuth /\ Auth(e).place = "shared" =>
        \A v \in IF Auth(e).scheme = "bearer" THEN {"personal_token"}
                 ELSE IF e.kind = "cloud" THEN {"api_token"} ELSE {"api_token", "password"} :
            "own" \notin e.given[v]

LEMMA AuthFirst ==
  ASSUME NEW e, e.kind \in {"cloud", "server", "gitlab"}
  PROVE  SecretsFirst(e)
<1> SUFFICES ASSUME Auth(e) # NoAuth, Auth(e).place = "shared" PROVE SecretsFirst(e)
  BY DEF SecretsFirst
<1>1. CASE e.kind = "cloud"
  <2>1. /\ Taken(e, "api_token") # {}
        /\ Auth(e) = Basic("api_token", The(Taken(e, "api_token")))
    BY <1>1 DEF Auth, CloudAuth
  <2>2. Auth(e).scheme = "basic" /\ The(Taken(e, "api_token")) = "shared"
    BY <2>1 DEF Basic
  <2> QED BY <1>1, <2>1, <2>2, TakenFirst DEF SecretsFirst
<1>2. CASE e.kind = "server" /\ Taken(e, "personal_token") # {}
  <2>1. Auth(e) = Bearer(The(Taken(e, "personal_token")))
    BY <1>2 DEF Auth, ServerAuth
  <2>2. Auth(e).scheme = "bearer" /\ The(Taken(e, "personal_token")) = "shared"
    BY <2>1 DEF Bearer
  <2> QED BY <1>2, <2>2, TakenFirst DEF SecretsFirst
<1>3. CASE e.kind = "server" /\ Taken(e, "personal_token") = {}
  <2>1. /\ Taken(e, ServerSecret(e)) # {}
        /\ Auth(e) = Basic(ServerSecret(e), The(Taken(e, ServerSecret(e))))
    BY <1>3 DEF Auth, ServerAuth, ServerBasicAuth
  <2>2. Auth(e).scheme = "basic" /\ The(Taken(e, ServerSecret(e))) = "shared"
    BY <2>1 DEF Basic
  <2> QED BY <1>3, <2>1, <2>2, ServerSecretFirst DEF SecretsFirst
<1>4. CASE e.kind = "gitlab"
  BY <1>4 DEF Auth, GitlabAuth, Header
<1> QED BY <1>1, <1>2, <1>3, <1>4

\* A pair that is whole lies in one place.
LEMMA OnePlace ==
  ASSUME NEW e, e.given \in [SettingNames -> SUBSET Places]
  PROVE  /\ PairPlaces(e) # {} => PairPlaces(e) = {The(PairPlaces(e))}
         /\ PairPlaces(e) \subseteq {"own", "shared"}
         /\ e.kind = "gitlab" => "shared" \notin PairPlaces(e)
<1> DEFINE own == Own(e, "client_cert") \cup Own(e, "client_key")
           shared == (e.given["client_cert"] \cup e.given["client_key"]) \cap {"shared"}
<1>1. own \in {{}, {"own"}} /\ shared \in {{}, {"shared"}}
  BY DEF Own
<1>2. PairPlaces(e) \in {{}, {"own"}, {"shared"}} /\ (e.kind = "gitlab" => PairPlaces(e) \in {{}, {"own"}})
  BY <1>1 DEF PairPlaces, First
<1> QED BY <1>2 DEF The

\* What GitLab takes is never shared.
LEMMA GitlabTakesNothingShared ==
  ASSUME NEW e, e.kind = "gitlab"
  PROVE  \A v : "shared" \notin Taken(e, v) /\ "shared" \notin ProxyTaken(e, v)
BY DEF Taken, ProxyTaken, Own, First

ReadInv ==
    /\ env \in Environments
    /\ settings.status = "on" => settings = Settings(env)

LEMMA ReadInvInvariant == Spec => []ReadInv
<1>1. Init => ReadInv
  BY DEF Init, ReadInv, Off
<1>2. ReadInv /\ [Next]_vars => ReadInv'
  BY DEF ReadInv, Next, vars, Configure, Build, Sending, NoAnswer, Redirected, StatusError, Answered,
         Piece, BodyEnds, BodyBreaks, ErrorText, Tick, TimeOut
<1> QED BY <1>1, <1>2, PTL DEF Spec

\* OwnFirst for every environment: a shared secret is sent only where the service has none of
\* that kind, certificate and key come from one place, and GitLab takes nothing shared.
THEOREM OwnFirstHolds == Spec => []OwnFirst
<1>1. ReadInv => OwnFirst
  <2> SUFFICES ASSUME ReadInv, settings.status = "on" PROVE OwnFirst
    BY DEF OwnFirst
  <2>1. /\ env.kind \in {"cloud", "server", "gitlab"}
        /\ env.given \in [SettingNames -> SUBSET Places]
    BY DEF ReadInv
  <2>2. settings = Settings(env) /\ Settings(env).status = "on"
    BY DEF ReadInv
  <2>3. Auth(env) # NoAuth /\ PairWhole(env)
    BY <2>2 DEF Settings, Off, Failed
  <2>4. /\ settings.auth = Auth(env)
        /\ settings.identity = PairPlaces(env)
        /\ settings.proxy = [v \in Proxies |-> ProxyTaken(env, v)]
        /\ settings.headers = Taken(env, "custom_headers")
        /\ settings.verify = Taken(env, "ssl_verify")
        /\ settings.timeout = Taken(env, "timeout")
    BY <2>2 DEF Settings, Off, Failed
  <2>5. settings.auth.place = "shared" =>
            \A v \in IF settings.auth.scheme = "bearer" THEN {"personal_token"}
                     ELSE IF env.kind = "cloud" THEN {"api_token"} ELSE {"api_token", "password"} :
                "own" \notin env.given[v]
    BY <2>1, <2>3, <2>4, AuthFirst DEF SecretsFirst
  <2>6. \A place \in settings.identity :
            {"client_cert", "client_key"} \subseteq {v \in SettingNames : place \in env.given[v]}
    BY <2>3, <2>4 DEF PairWhole, SettingNames, Others
  <2>7. settings.identity # {} => settings.identity = {The(settings.identity)}
    BY <2>1, <2>4, OnePlace
  <2>8. env.kind = "gitlab" =>
            \A places \in {settings.headers, settings.identity, settings.verify, settings.timeout}
                            \cup {settings.proxy[v] : v \in Proxies} : "shared" \notin places
    <3>1. env.kind = "gitlab" => \A v \in Proxies : "shared" \notin settings.proxy[v]
      BY <2>4, GitlabTakesNothingShared
    <3>2. env.kind = "gitlab" =>
              /\ "shared" \notin settings.headers /\ "shared" \notin settings.verify
              /\ "shared" \notin settings.timeout /\ "shared" \notin settings.identity
      BY <2>1, <2>4, GitlabTakesNothingShared, OnePlace
    <3> QED BY <3>1, <3>2
  <2> QED BY <2>5, <2>6, <2>7, <2>8 DEF OwnFirst
<1> QED BY <1>1, ReadInvInvariant, PTL
=============================================================================
