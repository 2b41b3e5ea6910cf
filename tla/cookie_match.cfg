SPECIFICATION Spec
CONSTANT Expirations = {3600}
INVARIANT CookieMatchesToken
