----------------------------- MODULE LoginCookie -----------------------------
(***************************************************************************)
(* AuthService.login: the lifetime it gives the Authentication cookie, and *)
(* the lifetime JwtModule gives the token inside it.  Time is in seconds,  *)
(* counted from the last login.                                            *)
(*                                                                         *)
(* JWT_EXPIRATION is a string (Joi.string() in auth.module.ts), so the sum *)
(* getSeconds() + configService.get('JWT_EXPIRATION') is a concatenation:  *)
(* 12 + "3600" is "123600", which setSeconds reads as a number again.      *)
(***************************************************************************)
EXTENDS Integers

CONSTANT Expirations   \* the values of JWT_EXPIRATION to consider

\* Bound: numbers of one to five digits.
UpToFiveDigits(n) == n \in Nat /\ 1 <= n /\ n <= 99999

ASSUME ExpirationsAssumption == \A e \in Expirations : UpToFiveDigits(e)

VARIABLES
  expiration,   \* JWT_EXPIRATION of this deployment
  loggedIn,     \* whether the browser has logged in
  age,          \* seconds since it last did
  cookieEnds,   \* the age at which the browser drops the cookie
  tokenEnds     \* the age from which the token is refused as expired

vars == <<expiration, loggedIn, age, cookieEnds, tokenEnds>>

Init ==
  /\ expiration \in Expirations
  /\ loggedIn = FALSE
  /\ age = 0
  /\ cookieEnds = 0
  /\ tokenEnds = 0

-----------------------------------------------------------------------------

Powers == {10, 100, 1000, 10000, 100000}

\* Ten to the number of decimal digits of n.
Shift(n) == CHOOSE p \in Powers : p \div 10 <= n /\ n < p

\* Mutant: the current second is left out of the sum.
ExpirationOnly(s, e) == e

\* expirationDate.getSeconds() + JWT_EXPIRATION, as setSeconds reads it.
SecondsArgument(s, e) == s * Shift(e) + e

\* setSeconds counts from the start of the minute, s seconds ago.
CookieLifetime(s, e) == SecondsArgument(s, e) - s

\* The clock stands at second s of its minute when login starts; sign() may run
\* in the same second or just after the next one has begun.
Login ==
  /\ \E s \in 0 .. 59, late \in {0, 1} :
       /\ cookieEnds' = CookieLifetime(s, expiration)
       /\ tokenEnds' = late + expiration
  /\ loggedIn' = TRUE
  /\ age' = 0
  /\ UNCHANGED expiration

\* Time passes, up to the next of the two ends.
TimePasses ==
  /\ loggedIn
  /\ age' \in {cookieEnds, tokenEnds}
  /\ age' > age
  /\ UNCHANGED <<expiration, loggedIn, cookieEnds, tokenEnds>>

Next == Login \/ TimePasses

Spec == Init /\ [][Next]_vars

-----------------------------------------------------------------------------
(* Properties                                                              *)

HasCookie  == loggedIn /\ age < cookieEnds
TokenValid == loggedIn /\ age < tokenEnds

\* While the token is valid the browser still sends it, but for the one second
\* by which sign() may lag behind: nobody has to log in again too early.
CookieOutlivesToken == TokenValid /\ tokenEnds - age > 1 => HasCookie

\* "Sets the expiration date of the cookie to match the JWT expiration": a
\* browser does not go on sending a token that has expired.
CookieMatchesToken == HasCookie => TokenValid
=============================================================================
