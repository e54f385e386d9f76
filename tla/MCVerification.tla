-------------------------- MODULE MCVerification ---------------------------
(***************************************************************************)
(* A small instance of TokenVerification for TLC.                          *)
(***************************************************************************)
EXTENDS TokenVerification

Good(kid) ==
  [kid |-> kid, signer |-> kid, alg |-> "RS256", iss |-> "tenant",
   aud |-> {"client_id"}, exp |-> MaxTime + 1, iat |-> 0, nbf |-> 0,
   claims |-> {"exp", "iat", "iss", "aud", "sub"}]

\* A good token per key, and one each that is forged, expires, is issued ahead of
\* the process's clock, is not valid yet, is meant for the API or for somebody else.
SomeTokens ==
  {Good(k) : k \in Kids}
  \cup {[Good(k) EXCEPT !.signer = "forged"] : k \in Kids}
  \cup {[Good(FirstKid) EXCEPT !.exp = 2],
        [Good(FirstKid) EXCEPT !.iat = 1],
        [Good(FirstKid) EXCEPT !.nbf = 2],
        [Good(FirstKid) EXCEPT !.aud = {"api", "other"}],
        [Good(FirstKid) EXCEPT !.aud = {"other"}]}

WithOrWithoutApi == {REQUIRED, REQUIRED \cup {"auth0_api_audience"},
                     REQUIRED \ {"supabase_jwt_secret"}}
=============================================================================
