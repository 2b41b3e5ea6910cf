SPECIFICATION Spec
CONSTANT Expirations = {1, 9, 10, 45, 60, 900, 3600}
INVARIANT CookieOutlivesToken
