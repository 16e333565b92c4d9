------------------------- MODULE MCProviderRequests --------------------------
(* A small instance of ProviderRequests for TLC. *)
EXTENDS ProviderRequests, SequencesExt

\* Every text of one or two characters, among them a letter, characters with
\* a meaning in a query or in credentials, and what looks like the code of a
\* colon; redirect URIs with a query and with what looks like an escape.
MCTexts ==
    BoundedSeq({"a", ":", "%", "+", "&", "=", " ", "3A"}, 2) \ {<<>>}

MCRedirectUris ==
    {<<"uri">>, <<"uri", "?", "a", "=", "b", "&", "c">>, <<"%", "26", "+", "#">>}

MCEndpoints == {<<"op">>, <<"op", "?", "tenant", "=", "t">>}
=============================================================================
