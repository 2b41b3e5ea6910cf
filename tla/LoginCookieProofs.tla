-------------------------- MODULE LoginCookieProofs --------------------------
(***************************************************************************)
(* The concatenation in AuthService.login never makes the cookie shorter   *)
(* than the token, whatever JWT_EXPIRATION is and whenever login runs.     *)
(***************************************************************************)
EXTENDS LoginCookie, TLAPS

\* Once a browser has logged in, its cookie lasts at least JWT_EXPIRATION seconds
\* and its token at most one more.
EndsInv ==
  /\ expiration \in Nat /\ UpToFiveDigits(expiration)
  /\ age \in Int /\ cookieEnds \in Int
  /\ loggedIn => cookieEnds >= expiration /\ tokenEnds \in {expiration, expiration + 1}

\* Every JWT_EXPIRATION has a power of ten just above it, which Shift picks.
LEMMA ShiftIsPower ==
  ASSUME NEW n, UpToFiveDigits(n)
  PROVE  Shift(n) \in Powers /\ n < Shift(n)
<1>1. \E p \in Powers : p \div 10 <= n /\ n < p
  <2>1. \/ 1 <= n /\ n < 10
        \/ 10 <= n /\ n < 100
        \/ 100 <= n /\ n < 1000
        \/ 1000 <= n /\ n < 10000
        \/ 10000 <= n /\ n < 100000
    BY SMT DEF UpToFiveDigits
  <2>2. /\ 10 \div 10 = 1 /\ 100 \div 10 = 10 /\ 1000 \div 10 = 100
        /\ 10000 \div 10 = 1000 /\ 100000 \div 10 = 10000
    BY SMT
  <2> QED
    BY <2>1, <2>2, SMT DEF Powers
<1> QED
  BY <1>1 DEF Shift

\* Appending digits makes a number at least as large as adding would.
LEMMA LifetimeIsLong ==
  ASSUME NEW s \in 0 .. 59, NEW e \in Nat, UpToFiveDigits(e)
  PROVE  CookieLifetime(s, e) \in Int /\ CookieLifetime(s, e) >= e
<1> DEFINE p == Shift(e)
           q == s * p
<1>1. p \in Powers
  BY ShiftIsPower
<1> HIDE DEF p
<1>2. q \in Int /\ q >= s
  <2>1. p = 10 \/ p = 100 \/ p = 1000 \/ p = 10000 \/ p = 100000
    BY <1>1, SMT DEF Powers
  <2> QED
    BY <2>1, SMT
<1>3. CookieLifetime(s, e) = (q + e) - s
  BY DEF CookieLifetime, SecondsArgument, p
<1> HIDE DEF q
<1> QED
  BY <1>2, <1>3

\* A cookie set by AuthService.login stays in the browser as long as its token is
\* valid, for every JWT_EXPIRATION of up to five digits.
THEOREM CookieNeverTooShort == Spec => []CookieOutlivesToken
<1>1. Init => EndsInv
  BY ExpirationsAssumption DEF Init, EndsInv, UpToFiveDigits
<1>2. EndsInv /\ [Next]_vars => EndsInv'
  <2> SUFFICES ASSUME EndsInv, [Next]_vars PROVE EndsInv'
    OBVIOUS
  <2>1. CASE Login
    <3>1. PICK s \in 0 .. 59, late \in {0, 1} :
            /\ cookieEnds' = CookieLifetime(s, expiration)
            /\ tokenEnds' = late + expiration
      BY <2>1 DEF Login
    <3>2. /\ CookieLifetime(s, expiration) \in Int
          /\ CookieLifetime(s, expiration) >= expiration
      BY LifetimeIsLong, Zenon DEF EndsInv
    <3>3. cookieEnds' \in Int /\ cookieEnds' >= expiration
      BY <3>1, <3>2, Zenon
    <3>4. tokenEnds' \in {expiration, expiration + 1}
      BY <3>1 DEF EndsInv
    <3>5. expiration' = expiration /\ age' = 0
      BY <2>1 DEF Login
    <3> QED
      BY <3>3, <3>4, <3>5 DEF EndsInv, UpToFiveDigits
  <2>2. CASE TimePasses
    BY <2>2 DEF TimePasses, EndsInv, UpToFiveDigits
  <2>3. CASE UNCHANGED vars
    BY <2>3 DEF vars, EndsInv, UpToFiveDigits
  <2> QED
    BY <2>1, <2>2, <2>3 DEF Next
<1>3. EndsInv => CookieOutlivesToken
  BY DEF EndsInv, CookieOutlivesToken, TokenValid, HasCookie
<1> QED
  BY <1>1, <1>2, <1>3, PTL DEF Spec

-----------------------------------------------------------------------------
(* By how much the cookie outlives its token.                              *)

\* A product grows with its second factor.
LEMMA ProductGrows ==
  ASSUME NEW s \in Nat, NEW a \in Int, NEW b \in Int, a <= b
  PROVE  s * a \in Int /\ s * b \in Int /\ s * a <= s * b
<1>1. b - a >= 0 /\ b - a \in Int
  OBVIOUS
<1>2. s * (b - a) >= 0
  BY <1>1, SMT
<1>3. s * (b - a) = s * b - s * a
  BY SMT
<1> QED
  BY <1>2, <1>3, SMT

\* The cookie AuthService.login sets has the token's lifetime only in the first second
\* of a minute; at second s it lives at least s + 1 times as long, whatever
\* JWT_EXPIRATION of up to five digits is configured.
THEOREM CookieOverstays ==
  \A e \in Nat, s \in 0 .. 59 :
    UpToFiveDigits(e) =>
      /\ CookieLifetime(s, e) >= (s + 1) * e
      /\ CookieLifetime(s, e) = e <=> s = 0
<1> SUFFICES ASSUME NEW e \in Nat, NEW s \in 0 .. 59, UpToFiveDigits(e)
             PROVE  /\ CookieLifetime(s, e) >= (s + 1) * e
                    /\ CookieLifetime(s, e) = e <=> s = 0
  OBVIOUS
<1> DEFINE p == Shift(e)
<1>1. p \in Powers /\ e < p
  BY ShiftIsPower
<1>2. CookieLifetime(s, e) = (s * p + e) - s
  BY DEF CookieLifetime, SecondsArgument, p
<1> HIDE DEF p
<1>3. p \in Int /\ e <= p - 1 /\ p - 1 \in Int /\ s \in Nat
  BY <1>1, SMT DEF Powers
<1>4. s * (p - 1) = s * p - s /\ s * p \in Int
  BY <1>3, SMT
<1>5. CookieLifetime(s, e) = s * (p - 1) + e
  BY <1>2, <1>3, <1>4
<1>6. s * e <= s * (p - 1) /\ s * e \in Int /\ s * (p - 1) \in Int
  BY <1>3, ProductGrows
<1>7. (s + 1) * e = s * e + e
  BY <1>3, SMT
<1>8. s # 0 => s * (p - 1) # 0
  BY <1>1, <1>3, SMT DEF UpToFiveDigits
<1>9. s = 0 => s * (p - 1) = 0
  BY <1>3, SMT
<1> HIDE DEF UpToFiveDigits
<1>10. CookieLifetime(s, e) >= (s + 1) * e
  BY <1>5, <1>6, <1>7
<1>11. CookieLifetime(s, e) = e <=> s * (p - 1) = 0
  BY <1>5, <1>6
<1> QED
  BY <1>8, <1>9, <1>10, <1>11
=============================================================================
