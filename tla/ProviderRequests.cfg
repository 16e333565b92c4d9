\* Every pair of texts, both authentication methods, three redirect URIs, an
\* endpoint with and one without a query.
SPECIFICATION Spec
CONSTANTS
    None = None
    Texts <- MCTexts
    RedirectUris <- MCRedirectUris
    Endpoints <- MCEndpoints
INVARIANTS
    ParametersArrive
    CredentialsArrive
    RedirectUriAgrees
\* A login is over once the token answer has been read.
CHECK_DEADLOCK FALSE
