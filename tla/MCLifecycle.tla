----------------------------- MODULE MCLifecycle -----------------------------
(***************************************************************************)
(* Lifecycle for TLC: three requests, a file that deviates from a good one *)
(* in one setting or two, four environments.                               *)
(***************************************************************************)
EXTENDS Lifecycle, TLC

MCRequests == {"r1", "r2", "r3"}

Good == ("database.dsn" :> "file") @@ ("auth.jwt_secret" :> "long")

MCFiles ==
    {Good @@ d : d \in
        {n :> 0 : n \in Positive}
        \cup {n :> "" : n \in NotEmpty \ {"database.dsn"}}
        \cup {"redis.db" :> -1, "captcha.length" :> 3, "captcha.length" :> 7,
              "auth.allowed_origins" :> {"origin/path"},
              "auth.allowed_origins" :> {"origin"}, "captcha.length" :> 6,
              "auth.refresh_cookie_secure" :> TRUE,
              ("auth.refresh_cookie_secure" :> TRUE) @@ ("captcha.enabled" :> FALSE)}}
    \cup {"database.dsn" :> "", "auth.jwt_secret" :> "short" @@ Good}

NoEnv == [n \in Overridable |-> ""]

MCEnvs ==
    {NoEnv,
     [NoEnv EXCEPT !["app.env"] = "production"],
     [NoEnv EXCEPT !["auth.jwt_secret"] = "short"],
     [NoEnv EXCEPT !["auth.jwt_secret"] = "long", !["database.dsn"] = "env"]}
=============================================================================
