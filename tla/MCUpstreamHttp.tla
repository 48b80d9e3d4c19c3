--------------------------- MODULE MCUpstreamHttp ---------------------------
(***************************************************************************)
(* Environments: every combination of own and shared credentials at each   *)
(* kind of deployment; every combination of certificate and key, and of    *)
(* proxies; values that do not parse; a URL that is absent or bad.  One    *)
(* goes on to requests.  URLs: the base's origin written two ways, and     *)
(* ones that differ from it in the scheme, the host or the port alone.     *)
(***************************************************************************)
EXTENDS UpstreamHttp, TLC

MCUrl(scheme, host, port) == [scheme |-> scheme, host |-> host, port |-> port]
MCBase == MCUrl("https", "home", <<>>)
MCUrls ==
    {MCBase, MCUrl("https", "home", <<443>>), MCUrl("http", "home", <<>>),
     MCUrl("https", "home", <<8443>>), MCUrl("https", "away", <<>>),
     MCUrl("ftp", "home", <<443>>)}

MCKinds == {"cloud", "server", "gitlab"}
MCOwnOrShared == SUBSET {"own", "shared"}

MCEnv(kind, address, given, bad) ==
    [kind |-> kind, url |-> address, bad |-> bad,
     given |-> [v \in SettingNames |-> IF v \in DOMAIN given THEN given[v] ELSE {}]]

\* Credentials that every kind of deployment accepts.
MCAll == [v \in Credentials |-> {"own"}]
MCWith(more) == [v \in Credentials \cup DOMAIN more |-> IF v \in DOMAIN more THEN more[v] ELSE {"own"}]

MCSecretEnvs ==
    {MCEnv(kind, address, given, {}) :
        kind \in MCKinds, address \in {"good", "absent"}, given \in [Credentials -> MCOwnOrShared]}

MCIdentityEnvs ==
    {MCEnv(kind, "good", MCWith(given), {}) :
        kind \in MCKinds, given \in [{"client_cert", "client_key"} -> MCOwnOrShared]}

MCProxyEnvs ==
    {MCEnv(kind, "good", MCWith(("http_proxy" :> places) @@ ("custom_headers" :> places \ {"global"})
                                @@ ("timeout" :> places \ {"global"})), bad) :
        kind \in MCKinds, places \in SUBSET Places,
        bad \in {{}, {"http_proxy"}, {"custom_headers"}, {"timeout"}}}

MCEnvironments ==
    MCSecretEnvs \cup MCIdentityEnvs \cup MCProxyEnvs
    \cup {MCEnv(kind, "bad", MCAll, {}) : kind \in MCKinds}

MCSenders == {MCEnv("gitlab", "good", MCAll, {})}
=============================================================================
