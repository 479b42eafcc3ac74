---------------------------- MODULE Credentials ----------------------------
(***************************************************************************)
(* From the request's headers to a credential and its realm: go/extract.go *)
(* and classifyCredential in go/verifier.go.  A credential string is known *)
(* by its prefix, by how much follows the prefix, and by a name for the    *)
(* rest; a header value by its scheme and by the credential after it.      *)
(***************************************************************************)

CONSTANTS
  Names,      \* what tells two credentials of one form apart
  Empty       \* the empty string

Kinds == {"session", "bot", "apikey"}

\* tail: nothing after the prefix, less than MinAPIKeyLength in all, or more.
Raws == {r \in [prefix : {"uk_", "bf_", "app_", "none"},
                tail   : {"bare", "short", "long"},
                name   : Names] : r.prefix = "none" => r.tail # "bare"}

ASSUME EmptyAssumption == Empty \notin Raws

Tokens == Raws \cup {Empty}

\* An Authorization value: "Bearer" and white space and a token, "Bearer" with
\* the token glued to it, or another scheme.  A token header is just its token.
AuthValues == [scheme : {"bearer", "glued", "other"}, token : Tokens] \cup {Empty}

Headers == [authorization : AuthValues, token : Tokens]

BadCredential == "invalid_credential"

\* Mutant: whatever follows the first word is the token.
StripScheme(value) == value.token

\* stripBearer.
StripBearer(value) == IF value.scheme = "bearer" THEN value.token ELSE Empty

\* readCredentialHeader: Authorization first; what is no bearer token counts as
\* no Authorization header.
ReadCredentialHeader(h) ==
  IF h.authorization # Empty /\ StripBearer(h.authorization) # Empty
  THEN StripBearer(h.authorization)
  ELSE h.token

\* ValidateAPIKey accepts.
ValidAPIKey(raw) == raw.prefix = "uk_" /\ raw.tail = "long"

\* ValidateBotToken accepts.  Its length test is the length of "bf_": a bare
\* "app_" is one character longer.
ValidBotToken(raw) ==
  raw.prefix \in {"bf_", "app_"} /\ (raw.prefix = "bf_" => raw.tail # "bare")

\* Mutant: a short api key is taken for a session token.
ClassifyByForm(raw) ==
  IF raw = Empty THEN BadCredential
  ELSE IF raw.prefix = "uk_" /\ raw.tail = "long" THEN "apikey"
  ELSE IF raw.prefix \in {"bf_", "app_"} THEN "bot"
  ELSE "session"

\* classifyCredential: a realm, or an *Error.
Classify(raw) ==
  IF raw = Empty THEN BadCredential
  ELSE IF raw.prefix = "uk_"
       THEN IF raw.tail = "long" THEN "apikey" ELSE BadCredential
  ELSE IF raw.prefix \in {"bf_", "app_"} THEN "bot"
  ELSE "session"

\* ExtractCredential, without its nil check: the realm, or an *Error.
ExtractedKind(h) == Classify(ReadCredentialHeader(h))

\* The child verifier of this realm refuses raw before any lookup: an app_ token
\* at the bot verifier, what is no api key at the api-key verifier.
RefusedByChild(kind, raw) ==
  \/ kind = "bot" /\ raw.prefix = "app_"
  \/ kind = "apikey" /\ ~ValidAPIKey(raw)
=============================================================================
