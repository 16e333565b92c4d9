--------------------------- MODULE ProviderRequests --------------------------
(***************************************************************************)
(* The two requests that one login makes to the provider in detail: the    *)
(* authorization URL of LoginUsecase.Execute, which the browser follows,   *)
(* and the token request of tokenClient.Exchange with its client           *)
(* authentication; what the provider reads in each, and what               *)
(* CallbackUsecase.Execute makes of the answer.  LoginFlow has each        *)
(* request as one step that carries a state, a nonce and a code.           *)
(*                                                                         *)
(* Texts are sequences of characters.  Base64 is one-to-one and left out;  *)
(* state, nonce and code stand for themselves, each as one character.      *)
(***************************************************************************)
EXTENDS FormEncoding

CONSTANTS
    Texts,         \* client ids and secrets
    RedirectUris,
    Endpoints,     \* authorization endpoints, some with a query of their own
    None           \* not there (yet)

\* An endpoint's own query does not name a parameter of the request, which
\* no request may contain twice (RFC 6749 section 3.1).
ASSUME TextsAssumption ==
    /\ Texts \subseteq Seq(STRING)
    /\ RedirectUris \subseteq Seq(STRING)
    /\ Endpoints \subseteq Seq(STRING)
    /\ \A e \in Endpoints : \A pair \in ReadQuery(e) : pair[1] # <<"client_id">>

VARIABLES
    client,    \* the registered client and its authentication method
    endpoint,  \* authorization_endpoint in the metadata
    pc,        \* where the login is, or how it ended
    url,       \* where the browser is sent
    received,  \* the parameters that the provider read there
    request,   \* header and body of the token request
    answer     \* the provider's answer to it

vars == <<client, endpoint, pc, url, received, request, answer>>

\* wire.go configures one of two methods; the provider supports both.
Clients == [id : Texts, secret : Texts, redirectUri : RedirectUris,
            method : {"basic", "post"}]

Init ==
    /\ client \in Clients
    /\ endpoint \in Endpoints
    /\ pc = "login"
    /\ url = None
    /\ received = None
    /\ request = None
    /\ answer = None

-----------------------------------------------------------------------------
(* Login.                                                                  *)

\* As a provider sees parameters: a set of names with values.
Pairs(values) == {<<<<values[i][1]>>, values[i][2]>> : i \in DOMAIN values}

params ==
    <<<<"client_id", client.id>>,
      <<"nonce", <<"nonce value">>>>,
      <<"redirect_uri", client.redirectUri>>,
      <<"response_type", <<"code">>>>,
      <<"scope", <<"openid", " ", "email", " ", "profile">>>>,
      <<"state", <<"state value">>>>>>

buildAuthorizationUrl == endpoint \o <<"?">> \o Encode(params)

Redirect ==
    /\ pc = "login"
    /\ pc' = "redirected"
    /\ url' = buildAuthorizationUrl
    /\ UNCHANGED <<client, endpoint, received, request, answer>>

\* The provider authenticates the user for a registered client and redirect
\* URI; it shows an error page otherwise.
ProviderAuthorizes ==
    /\ pc = "redirected"
    /\ received' = ReadQuery(url)
    /\ pc' = IF {<<<<"client_id">>, client.id>>,
                 <<<<"redirect_uri">>, client.redirectUri>>} \subseteq received'
             THEN "callback" ELSE "notAuthorized"
    /\ UNCHANGED <<client, endpoint, url, request, answer>>

-----------------------------------------------------------------------------
(* Callback.                                                               *)

\* Fault: values are escaped before Encode escapes them.
formValuesEscaped ==
    <<<<"code", <<"code value">>>>,
      <<"grant_type", <<"authorization_code">>>>,
      <<"redirect_uri", QueryEscape(client.redirectUri)>>>>

formValues ==
    <<<<"code", <<"code value">>>>,
      <<"grant_type", <<"authorization_code">>>>,
      <<"redirect_uri", client.redirectUri>>>>

credentials ==
    <<<<"client_id", client.id>>, <<"client_secret", client.secret>>>>

\* Fault: the credentials are joined as they are.
BasicVerbatim(id, secret) == id \o <<":">> \o secret

BasicCredentials(id, secret) ==
    QueryEscape(id) \o <<":">> \o QueryEscape(secret)

tokenRequest ==
    IF client.method = "basic"
    THEN [header |-> BasicCredentials(client.id, client.secret),
          body |-> Encode(formValues)]
    ELSE [header |-> <<>>, body |-> Encode(credentials \o formValues)]

Exchange ==
    /\ pc = "callback"
    /\ pc' = "sent"
    /\ request' = tokenRequest
    /\ UNCHANGED <<client, endpoint, url, received, answer>>

\* A provider takes the header apart at its first colon.
ReadBasic(header) ==
    {<<<<"client_id">>, FormDecode(Before(":", header))>>,
     <<<<"client_secret">>, FormDecode(After(":", header))>>}

\* All that the provider reads in the token request.
Presented ==
    ReadForm(request.body)
    \cup (IF request.header = <<>> THEN {} ELSE ReadBasic(request.header))

\* The answer as it is decoded: an error status or body is "refused", a body
\* that is not JSON "undecodable".  Tokens go to the registered client and
\* the redirect URI of the authorization only; a provider may refuse others.
Answers ==
    [kind : {"refused", "undecodable"}]
    \cup [kind : {"tokens"}, tokenType : {"Bearer", "bearer", "mac"}]

SameRedirectUri ==
    {p \in Presented : p[1] = <<"redirect_uri">>}
        = {p \in received : p[1] = <<"redirect_uri">>}

ProviderAnswers ==
    /\ pc = "sent"
    /\ pc' = "answered"
    /\ answer' \in {a \in Answers : a.kind = "tokens" =>
                       Pairs(credentials) \subseteq Presented /\ SameRedirectUri}
    /\ UNCHANGED <<client, endpoint, url, received, request>>

\* No answer within the client's ten seconds, or only part of one.
ExchangeTimesOut ==
    /\ pc = "sent"
    /\ pc' = "tokenRejected"
    /\ UNCHANGED <<client, endpoint, url, received, request, answer>>

\* The type is compared without regard to case; the scope that the response
\* names is not looked at.
AnswerRead ==
    /\ pc = "answered"
    /\ pc' = IF /\ answer.kind = "tokens"
                /\ answer.tokenType \in {"Bearer", "bearer"}
             THEN "verify" ELSE "tokenRejected"
    /\ UNCHANGED <<client, endpoint, url, received, request, answer>>

Next ==
    \/ Redirect \/ ProviderAuthorizes
    \/ Exchange \/ ProviderAnswers \/ ExchangeTimesOut \/ AnswerRead

Spec == Init /\ [][Next]_vars

-----------------------------------------------------------------------------
(* Properties.                                                             *)

\* At an endpoint without a query the provider reads exactly the parameters
\* of this login, whatever characters the client id and the redirect URI are
\* made of (buildAuthorizationUrl).
ParametersArrive ==
    received # None /\ ReadQuery(endpoint) = {} => received = Pairs(params)

\* By both methods, whatever characters the client id and the secret are
\* made of, the provider reads exactly the registered credentials, and reads
\* them once (client authentication in tokenClient.Exchange).
CredentialsArrive ==
    request # None =>
        {p \in Presented : p[1] \in {<<"client_id">>, <<"client_secret">>}}
            = Pairs(credentials)

\* The provider reads the same redirect URI in both requests of a login,
\* without which it refuses the code (buildAuthorizationUrl, Exchange).
RedirectUriAgrees == request # None => SameRedirectUri
=============================================================================
