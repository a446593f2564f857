-------------------------------- MODULE Config --------------------------------
(***************************************************************************)
(* pkg/config: the settings a process runs with, from the defaults, the    *)
(* file and the environment.  A configuration is a function from the names *)
(* of the settings; a file is one from some of them.                       *)
(*                                                                         *)
(* Strings and numbers are reduced to what Validate tells apart: empty or  *)
(* not, zero or positive, a secret of 32 bytes ("long") or less ("short"), *)
(* an origin that is one ("origin") or not ("origin/path").                *)
(***************************************************************************)
EXTENDS Integers

\* The settings that have an environment variable.
Overridable ==
    {"app.env", "server.addr", "database.dsn", "redis.addr", "redis.username",
     "redis.password", "auth.jwt_secret"}

\* Strings that must not be empty.
NotEmpty ==
    {"server.addr", "database.dsn", "redis.addr", "auth.issuer", "auth.audience",
     "auth.refresh_cookie_name"}

\* Times, sizes and limits that must be positive.
Positive ==
    {"server.read_header_timeout", "server.read_timeout", "server.write_timeout",
     "server.shutdown_timeout", "server.max_header_bytes", "server.max_request_body_bytes",
     "redis.dial_timeout", "redis.read_timeout", "redis.write_timeout",
     "auth.access_token_ttl", "auth.refresh_token_ttl",
     "captcha.ttl", "captcha.width", "captcha.height", "captcha.issue_limit_per_minute"}

Settings ==
    Overridable \cup NotEmpty \cup Positive
    \cup {"redis.db", "auth.refresh_cookie_secure", "auth.allowed_origins",
          "captcha.enabled", "captcha.length"}

Defaults ==
    [n \in Settings |->
        CASE n \in Positive -> 1
          [] n = "app.env" -> "development"
          [] n \in {"database.dsn", "redis.username", "redis.password", "auth.jwt_secret"} -> ""
          [] n \in NotEmpty \ {"database.dsn"} -> "default"
          [] n = "redis.db" -> 0
          [] n = "auth.refresh_cookie_secure" -> FALSE
          [] n = "auth.allowed_origins" -> {}
          [] n = "captcha.enabled" -> TRUE
          [] n = "captcha.length" -> 4]

\* yaml.Unmarshal into the defaults: what the file does not name stays.
Unmarshal(file) ==
    [n \in Settings |-> IF n \in DOMAIN file THEN file[n] ELSE Defaults[n]]

\* An environment variable that is empty counts as not set.
Override(c, env) ==
    [n \in Settings |-> IF n \in Overridable /\ env[n] # "" THEN env[n] ELSE c[n]]

Validate(c) ==
    /\ \A n \in NotEmpty : c[n] # ""
    /\ \A n \in Positive : c[n] > 0
    /\ c["redis.db"] >= 0
    /\ c["auth.jwt_secret"] \notin {"", "short"}
    /\ c["captcha.length"] \in 4..6
    /\ c["app.env"] = "production" =>
          c["auth.refresh_cookie_secure"] /\ c["captcha.enabled"]
    /\ \A o \in c["auth.allowed_origins"] : o = "origin"

Loaded(file, env) == Override(Unmarshal(file), env)
=============================================================================
