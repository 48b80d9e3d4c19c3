--------------------------- MODULE ServiceSettings ---------------------------
(***************************************************************************)
(* How the settings of one upstream service are read from the environment  *)
(* (src/upstream/config.rs for Jira and Confluence, src/gitlab/config.rs   *)
(* for GitLab).  A setting may be given in up to three places: a variable  *)
(* of the service itself (own), one that Jira and Confluence share         *)
(* (shared, ATLASSIAN_...), and, for the proxies, a variable of the whole  *)
(* system (global).  A value is told apart by the place it comes from.     *)
(*                                                                         *)
(* An environment is a record:                                             *)
(*   kind   the deployment: "cloud", "server" or "gitlab"                  *)
(*   url    the service's URL: "absent", "bad" or "good"                   *)
(*   given  for each setting, the places where it has a value (blank       *)
(*          values are trimmed away)                                       *)
(*   bad    the settings whose values do not parse: a proxy that is no     *)
(*          http(s) URL, a reserved or malformed header, a timeout that is *)
(*          no positive number                                             *)
(* GitLab's two tokens are api_token (GITLAB_TOKEN) and personal_token     *)
(* (GITLAB_PERSONAL_TOKEN).                                                *)
(***************************************************************************)
EXTENDS Naturals

Secrets == {"api_token", "password", "personal_token"}
Credentials == Secrets \cup {"username"}
Proxies == {"http_proxy", "https_proxy", "no_proxy"}
Others == {"custom_headers", "client_cert", "client_key", "ssl_verify", "timeout"}
SettingNames == Credentials \cup Proxies \cup Others
Places == {"own", "shared", "global"}

Failed == [status |-> "failed"]
Off == [status |-> "off"]

-----------------------------------------------------------------------------
(* Where a value is taken from: the set of that one place, or no place.    *)

First(places, more) == IF places # {} THEN places ELSE more

Own(e, v) == e.given[v] \cap {"own"}
OwnOrShared(e, v) == First(Own(e, v), e.given[v] \cap {"shared"})

\* GitLab never looks at the shared variables.
Taken(e, v) == IF e.kind = "gitlab" THEN Own(e, v) ELSE OwnOrShared(e, v)
ProxyTaken(e, v) == First(Taken(e, v), e.given[v] \cap {"global"})

\* A certificate and its key form a pair of one place: one variable of the
\* service makes the shared pair unused.
PairPlaces(e) ==
    LET own == Own(e, "client_cert") \cup Own(e, "client_key")
    IN  IF e.kind = "gitlab" THEN own
        ELSE First(own, (e.given["client_cert"] \cup e.given["client_key"]) \cap {"shared"})

PairWhole(e) ==
    \A v \in {"client_cert", "client_key"} : PairPlaces(e) \subseteq e.given[v]

-----------------------------------------------------------------------------
(* The credentials a request is sent with.                                 *)

NoAuth == [scheme |-> "none"]
Bearer(place) == [scheme |-> "bearer", secret |-> "personal_token", place |-> place]
Header(secret) == [scheme |-> "header", secret |-> secret, place |-> "own"]
Basic(secret, place) == [scheme |-> "basic", secret |-> secret, place |-> place]

The(places) == CHOOSE place \in places : TRUE

\* Fault: the password is looked at first wherever it comes from.
Fault_ServerSecret(e) ==
    IF Taken(e, "password") # {} THEN "password" ELSE "api_token"

\* A server takes a password or an API token: the password first, unless only
\* the API token is the service's own.
ServerSecret(e) ==
    LET order == IF Own(e, "password") # {} \/ Own(e, "api_token") = {}
                   THEN <<"password", "api_token">> ELSE <<"api_token", "password">>
    IN  IF Taken(e, order[1]) # {} THEN order[1] ELSE order[2]

ServerBasicAuth(e) ==
    IF Taken(e, "username") = {} \/ Taken(e, ServerSecret(e)) = {} THEN NoAuth
    ELSE Basic(ServerSecret(e), The(Taken(e, ServerSecret(e))))

CloudAuth(e) ==
    IF Taken(e, "username") = {} \/ Taken(e, "api_token") = {} THEN NoAuth
    ELSE Basic("api_token", The(Taken(e, "api_token")))

ServerAuth(e) ==
    IF Taken(e, "personal_token") # {} THEN Bearer(The(Taken(e, "personal_token")))
    ELSE ServerBasicAuth(e)

GitlabAuth(e) ==
    IF Own(e, "api_token") # {} THEN Header("api_token")
    ELSE IF Own(e, "personal_token") # {} THEN Header("personal_token")
    ELSE NoAuth

Auth(e) == CASE e.kind = "cloud"  -> CloudAuth(e)
             [] e.kind = "server" -> ServerAuth(e)
             [] e.kind = "gitlab" -> GitlabAuth(e)

-----------------------------------------------------------------------------
(* The whole reading: off without a URL, unless a credential of the        *)
(* service's own says that one was meant; a value that is used and does    *)
(* not parse fails the start.                                              *)

OwnCredentials(e) ==
    {v \in Credentials : Own(e, v) # {}} \ (IF e.kind = "gitlab" THEN {"username", "password"} ELSE {})

Used(e) ==
    {v \in Proxies : ProxyTaken(e, v) # {}} \cup {v \in {"custom_headers", "timeout"} : Taken(e, v) # {}}

Settings(e) ==
    IF e.url = "absent" THEN IF OwnCredentials(e) = {} THEN Off ELSE Failed
    ELSE IF \/ e.url = "bad"
            \/ Auth(e) = NoAuth
            \/ Used(e) \cap e.bad # {}
            \/ ~PairWhole(e)
      THEN Failed
    ELSE [status   |-> "on",
          auth     |-> Auth(e),
          proxy    |-> [v \in Proxies |-> ProxyTaken(e, v)],
          headers  |-> Taken(e, "custom_headers"),
          identity |-> PairPlaces(e),
          verify   |-> Taken(e, "ssl_verify"),
          timeout  |-> Taken(e, "timeout")]
=============================================================================
