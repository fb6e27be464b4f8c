----------------------------- MODULE Cloudflare -----------------------------
(***************************************************************************)
(* The connected Cloudflare account: the store of cli/internal/cloudflare   *)
(* (one row, its secrets sealed with the key of SecretKey), the handlers of *)
(* webui that change it, and Token, which every page that talks to          *)
(* Cloudflare calls and which refreshes an expired OAuth token on the way.  *)
(* A sealed column is the key and what was sealed: an API token, or the     *)
(* OAuth client whose secret or tokens it holds.  Cloudflare's own answers  *)
(* are nondeterministic.                                                    *)
(***************************************************************************)
EXTENDS SecretKey

CONSTANTS
    ApiToken,  \* tokens an administrator may paste
    Client,    \* OAuth clients an administrator may register
    Overlap,   \* whether requests overlap
    Faults,    \* whether a request may end early
    None,      \* NULL
    Empty      \* the empty string

ASSUME CfNoneAssumption == {None, Empty} \cap (ApiToken \cup Client) = {} /\ None # Empty
ASSUME CfSwitchAssumption == {Overlap, Faults} \subseteq BOOLEAN

VARIABLES
    settings,    \* the row of cloudflare_settings, or None
    stateCookie, \* oauthStateCookie of each browser, named by the client it was made for
    req          \* the request each browser is executing

vars == << secrets, ensure, settings, stateCookie, req >>

Subject == ApiToken \cup Client \cup {Empty}
Sealed  == [key : Key, of : Subject]
Row     == [api : Sealed \cup {None}, client : Client \cup {None}, secret : Sealed \cup {None},
            access : Sealed \cup {None}, refresh : Sealed \cup {None}, expired : BOOLEAN]

\* of: the API token or the client; grant: the code or refresh token presented to Cloudflare;
\* open: the columns still to decrypt; seal, sealed: what is still to encrypt, and is.
Idle    == [kind |-> "idle", of |-> None, grant |-> None, open |-> << >>, seal |-> << >>,
            sealed |-> << >>]
Request == [kind : {"idle", "get", "connect", "client", "authorize", "callback", "token", "refresh"},
            of : Subject \cup {None}, grant : Subject \cup {None},
            open : Seq(Sealed), seal : Seq(Subject), sealed : Seq(Sealed)]

TypeOK ==
    /\ KeyTypeOK
    /\ settings \in Row \cup {None}
    /\ stateCookie \in [Caller -> Client \cup {None}]
    /\ req \in [Caller -> Request]

\* The key is made already, or still to be made.
Init ==
    /\ \/ secrets = << >>
       \/ \E k \in Key : secrets = << k >>
    /\ ensure = [c \in Caller |-> "read"]
    /\ settings = None
    /\ stateCookie = [c \in Caller |-> None]
    /\ req = [c \in Caller |-> Idle]

CanStart(c) ==
    /\ req[c] = Idle
    /\ Overlap \/ \A o \in Caller : req[o] = Idle

Start(c, q) ==
    /\ CanStart(c)
    /\ req' = [req EXCEPT ![c] = q]
    /\ UNCHANGED << secrets, ensure >>

Become(c, q) == req' = [req EXCEPT ![c] = q]
Return(c)    == Become(c, Idle)

-----------------------------------------------------------------------------
(* encrypt and decrypt: each calls Ensure for its own key.                  *)

\* What follows the last column decrypted: a page, the authorize redirect, or an exchange.
Opened(q) == IF q.kind \in {"get", "authorize", "token"} THEN Idle ELSE q

\* decrypt fails, and the request with it, when the column was sealed with another key.
decrypt(c) ==
    /\ req[c].open # << >>
    /\ \E k \in Key :
          /\ EnsureReturns(c, k)
          /\ LET q == req[c]
                 n == [q EXCEPT !.open = Tail(q.open)]
             IN  IF Head(q.open).key # k
                 THEN Return(c) /\ UNCHANGED stateCookie
                 ELSE /\ Become(c, IF n.open = << >> THEN Opened(n) ELSE n)
                      /\ stateCookie' = IF q.kind = "authorize"
                                        THEN [stateCookie EXCEPT ![c] = q.of] ELSE stateCookie
    /\ UNCHANGED settings

encrypt(c) ==
    /\ req[c].open = << >> /\ req[c].seal # << >>
    /\ \E k \in Key :
          /\ EnsureReturns(c, k)
          /\ Become(c, [req[c] EXCEPT !.seal = Tail(req[c].seal),
                           !.sealed = Append(req[c].sealed, [key |-> k, of |-> Head(req[c].seal)])])
    /\ UNCHANGED << settings, stateCookie >>

EnsureStep(c) ==
    /\ req[c].open # << >> \/ req[c].seal # << >>
    /\ EnsureMisses(c) \/ EnsureAppends(c)
    /\ UNCHANGED << settings, stateCookie, req >>

-----------------------------------------------------------------------------
(* The statements of Store.                                                 *)

\* The row SetAPIToken writes: any OAuth client and tokens are cleared.
ApiRow(e) == [api |-> e, client |-> None, secret |-> None, access |-> None, refresh |-> None,
              expired |-> FALSE]

\* Mutant: the OAuth columns are left alone.
SetAPITokenKeeps(c) ==
    /\ req[c].kind = "connect" /\ Len(req[c].sealed) = 1
    /\ settings' = IF settings = None THEN ApiRow(req[c].sealed[1])
                   ELSE [settings EXCEPT !.api = req[c].sealed[1]]
    /\ Return(c)
    /\ UNCHANGED << secrets, ensure, stateCookie >>

SetAPIToken(c) ==
    /\ req[c].kind = "connect" /\ Len(req[c].sealed) = 1
    /\ settings' = ApiRow(req[c].sealed[1])
    /\ Return(c)
    /\ UNCHANGED << secrets, ensure, stateCookie >>

\* Mutant: the tokens of the client before stay.
SetOAuthClientKeeps(c) ==
    /\ req[c].kind = "client" /\ Len(req[c].sealed) = 1
    /\ settings' = [(IF settings = None THEN ApiRow(None) ELSE settings) EXCEPT
                       !.api = None, !.client = req[c].of, !.secret = req[c].sealed[1]]
    /\ Return(c)
    /\ UNCHANGED << secrets, ensure, stateCookie >>

\* The API token and the tokens of any client before are cleared.
SetOAuthClient(c) ==
    /\ req[c].kind = "client" /\ Len(req[c].sealed) = 1
    /\ settings' = [ApiRow(None) EXCEPT !.client = req[c].of, !.secret = req[c].sealed[1]]
    /\ Return(c)
    /\ UNCHANGED << secrets, ensure, stateCookie >>

\* UPDATE: no row, no change, and no error.
saveOAuthTokens(c) ==
    /\ req[c].kind \in {"callback", "refresh"} /\ Len(req[c].sealed) = 2
    /\ settings' = IF settings = None THEN None
                   ELSE [settings EXCEPT !.access = req[c].sealed[1],
                            !.refresh = req[c].sealed[2], !.expired = FALSE]
    /\ Return(c)
    /\ UNCHANGED << secrets, ensure, stateCookie >>

HasClient == settings # None /\ settings.client # None /\ settings.secret # None

-----------------------------------------------------------------------------
(* The handlers.                                                            *)

\* Get, for the page every handler answers with and for the page of the domains: it only reads.
Get(c) ==
    /\ settings # None /\ settings.access = None /\ settings.client = None /\ settings.api # None
    /\ Start(c, [Idle EXCEPT !.kind = "get", !.open = << settings.api >>])
    /\ UNCHANGED << settings, stateCookie >>

\* VerifyToken has accepted the token.
handleCloudflareConnect(c) ==
    /\ \E t \in ApiToken : Start(c, [Idle EXCEPT !.kind = "connect", !.of = t, !.seal = << t >>])
    /\ UNCHANGED << settings, stateCookie >>

handleCloudflareOAuthClientSave(c) ==
    /\ \E o \in Client : Start(c, [Idle EXCEPT !.kind = "client", !.of = o, !.seal = << o >>])
    /\ UNCHANGED << settings, stateCookie >>

\* The cookie is set once the client's secret could be decrypted.
handleCloudflareAuthorize(c) ==
    /\ HasClient
    /\ Start(c, [Idle EXCEPT !.kind = "authorize", !.of = settings.client,
                    !.open = << settings.secret >>])
    /\ UNCHANGED << settings, stateCookie >>

\* The cookie is cleared whatever the answer says; an error, another state, no code or no
\* client end the request.
handleCloudflareCallback(c) ==
    /\ \/ /\ stateCookie[c] # None /\ HasClient
          /\ Start(c, [Idle EXCEPT !.kind = "callback", !.of = settings.client,
                          !.grant = stateCookie[c], !.open = << settings.secret >>])
       \/ /\ stateCookie[c] # None
          /\ CanStart(c) /\ UNCHANGED << secrets, ensure, req >>
    /\ stateCookie' = [stateCookie EXCEPT ![c] = None]
    /\ UNCHANGED settings

\* Token returns what is stored, or refreshes it when it has expired; with columns missing it
\* is an error.
TokenStored(c) ==
    /\ settings # None
    /\ \/ /\ settings.access # None /\ ~settings.expired
          /\ Start(c, [Idle EXCEPT !.kind = "token", !.open = << settings.access >>])
       \/ /\ settings.access = None /\ settings.api # None
          /\ Start(c, [Idle EXCEPT !.kind = "token", !.open = << settings.api >>])
    /\ UNCHANGED << settings, stateCookie >>

TokenRefresh(c) ==
    /\ HasClient
    /\ settings.access # None /\ settings.expired /\ settings.refresh # None
    /\ Start(c, [Idle EXCEPT !.kind = "refresh", !.of = settings.client,
                    !.grant = settings.refresh.of,
                    !.open = << settings.secret, settings.refresh >>])
    /\ UNCHANGED << settings, stateCookie >>

\* ExchangeCode and RefreshAccessToken: Cloudflare grants tokens for a code or a refresh token
\* of the same client, or refuses.  The refresh token may be missing from its answer; Token
\* then keeps the one it has.
Exchange(c) ==
    /\ req[c].kind \in {"callback", "refresh"}
    /\ req[c].open = << >> /\ req[c].seal = << >> /\ req[c].sealed = << >>
    /\ \/ /\ req[c].grant = req[c].of
          /\ \E r \in {req[c].of} \cup (IF req[c].kind = "callback" THEN {Empty} ELSE {}) :
                Become(c, [req[c] EXCEPT !.seal = << req[c].of, r >>])
       \/ Return(c)
    /\ UNCHANGED << secrets, ensure, settings, stateCookie >>

\* Clear.
handleCloudflareDisconnect(c) ==
    /\ CanStart(c)
    /\ settings # None
    /\ settings' = None
    /\ UNCHANGED << secrets, ensure, stateCookie, req >>

-----------------------------------------------------------------------------
\* oauth_expires_at passes.
Expire ==
    /\ settings # None /\ settings.access # None /\ ~settings.expired
    /\ settings' = [settings EXCEPT !.expired = TRUE]
    /\ UNCHANGED << secrets, ensure, stateCookie, req >>

\* The request fails, is cancelled, or the dashboard restarts.
Abandon(c) ==
    /\ Faults
    /\ req[c] # Idle
    /\ EnsureFails(c)
    /\ Return(c)
    /\ UNCHANGED << settings, stateCookie >>

Next ==
    \/ \E c \in Caller :
          \/ Get(c) \/ handleCloudflareConnect(c) \/ handleCloudflareOAuthClientSave(c)
          \/ handleCloudflareAuthorize(c) \/ handleCloudflareCallback(c)
          \/ handleCloudflareDisconnect(c) \/ TokenStored(c) \/ TokenRefresh(c)
          \/ decrypt(c) \/ encrypt(c) \/ EnsureStep(c) \/ Exchange(c)
          \/ SetAPIToken(c) \/ SetOAuthClient(c) \/ saveOAuthTokens(c) \/ Abandon(c)
    \/ Expire

Spec == Init /\ [][Next]_vars

\* The system after the first use of the key.
KeyedSpec == Spec /\ secrets # << >>

-----------------------------------------------------------------------------
(* Properties.                                                              *)

Stored == IF settings = None THEN {}
          ELSE {settings.api, settings.secret, settings.access, settings.refresh} \ {None}

\* Whatever is stored can be decrypted by the next request: it was sealed with the key Ensure
\* returns from now on.
StoredReadable == \A e \in Stored : secrets # << >> /\ e.key = read

\* What a request has sealed was sealed with the key in the file; a request about a client
\* names it.
RequestOK(q) ==
    /\ \A i \in 1 .. Len(q.sealed) : q.sealed[i].key = read
    /\ q.kind \in {"client", "authorize", "callback", "refresh"} => q.of \in Client

\* Behind StoredReadable, once there is a key: there is one line, nobody is about to append
\* another, and what requests have sealed but not stored yet was sealed with it.
KeyInv ==
    /\ TypeOK
    /\ Len(secrets) = 1
    /\ \A c \in Caller : ensure[c] = "read" /\ RequestOK(req[c])
    /\ StoredReadable

\* SetAPIToken "clears any OAuth client/tokens that were configured instead": a pasted token is
\* not shadowed by OAuth tokens, which Token prefers.
OneConnection == settings # None /\ settings.api # None => settings.access = None

\* The tokens stored were issued to the client whose credentials will refresh them.
TokensOfClient ==
    settings # None /\ settings.access # None =>
        settings.client # None /\ settings.access.of = settings.client
=============================================================================
