-------------------------------- MODULE Config --------------------------------
(***************************************************************************)
(* The settings of the service: LoadDotEnv, Load and Validate of           *)
(* internal/config.                                                        *)
(*                                                                         *)
(* An environment is a function of the names of the settings.  Durations   *)
(* are seconds.  Of a secret there is whether it is the default of the     *)
(* source, shorter than 32 characters or neither, of CORS_ORIGINS which    *)
(* kinds of origins are listed, and of other texts whether Validate takes  *)
(* them.                                                                   *)
(***************************************************************************)
EXTENDS Integers

CONSTANTS
  Absent,     \* the value of a setting that is not in the environment
  Malformed,  \* a text that the parser or the format of the setting refuses
  NotFinite   \* RATE_LIMIT_RPS=NaN, Inf

\* Settings that are parsed into numbers, booleans or durations.
Parsed == {
  "DB_MAX_OPEN_CONNS", "DB_MAX_IDLE_CONNS", "DB_CONN_MAX_LIFETIME", "DB_CONN_MAX_IDLE_TIME",
  "AUTO_MIGRATE", "SEED", "ACCESS_TOKEN_TTL", "REFRESH_TOKEN_TTL", "REFRESH_COOKIE_SECURE",
  "RATE_LIMIT_ENABLED", "RATE_LIMIT_RPS", "RATE_LIMIT_BURST", "ORDER_PAYMENT_TTL",
  "ORDER_EXPIRATION_INTERVAL", "ORDER_EXPIRATION_BATCH_SIZE", "PRODUCT_CACHE_TTL",
  "SHUTDOWN_TIMEOUT", "READ_TIMEOUT", "WRITE_TIMEOUT", "IDLE_TIMEOUT", "REQUEST_TIMEOUT"}
Texts == {
  "APP_ENV", "PORT", "LOG_LEVEL", "LOG_FORMAT", "DATABASE_DRIVER", "DATABASE_URL", "JWT_SECRET",
  "JWT_ISSUER", "JWT_AUDIENCE", "REFRESH_COOKIE_NAME", "CORS_ORIGINS",
  "MOCK_PAYMENT_WEBHOOK_SECRET", "REDIS_URL"}
Settings == Parsed \cup Texts

ProductionLike(appEnv) == appEnv \in {"production", "staging"}

\* The process environment takes precedence over the file, an empty value too.
LoadDotEnv(environment, file) ==
  [key \in Settings |-> IF environment[key] # Absent THEN environment[key] ELSE file[key]]

\* The first failure is kept for Validate.
ParseError(environment) == \E key \in Parsed : environment[key] = Malformed

Env(environment, key, fallback) ==
  IF environment[key] = Absent THEN fallback ELSE environment[key]
EnvValue(environment, key, fallback) ==
  IF environment[key] \in {Absent, Malformed} THEN fallback ELSE environment[key]

Load(environment) ==
  LET text(key, fallback) == Env(environment, key, fallback)
      value(key, fallback) == EnvValue(environment, key, fallback)
      production == ProductionLike(text("APP_ENV", "development"))
  IN
  [parseError |-> ParseError(environment),
   AppEnv |-> text("APP_ENV", "development"),
   Port |-> text("PORT", 8002),
   LogLevel |-> text("LOG_LEVEL", "info"),
   LogFormat |-> text("LOG_FORMAT", IF production THEN "json" ELSE "text"),
   DatabaseDriver |-> text("DATABASE_DRIVER", "postgres"),
   DatabaseURL |-> text("DATABASE_URL", "localhost"),
   DBMaxOpenConns |-> value("DB_MAX_OPEN_CONNS", 25),
   DBMaxIdleConns |-> value("DB_MAX_IDLE_CONNS", 5),
   DBConnMaxLifetime |-> value("DB_CONN_MAX_LIFETIME", 1800),
   DBConnMaxIdleTime |-> value("DB_CONN_MAX_IDLE_TIME", 300),
   AutoMigrate |-> value("AUTO_MIGRATE", ~production),
   Seed |-> value("SEED", ~production),
   JWTSecret |-> text("JWT_SECRET", "default"),
   JWTIssuer |-> text("JWT_ISSUER", "vue-h5-template"),
   JWTAudience |-> text("JWT_AUDIENCE", "vue-h5-template-api"),
   AccessTokenTTL |-> value("ACCESS_TOKEN_TTL", 7200),
   RefreshTokenTTL |-> value("REFRESH_TOKEN_TTL", 1209600),
   RefreshCookieName |-> text("REFRESH_COOKIE_NAME", "vh5_refresh"),
   RefreshCookieSecure |-> value("REFRESH_COOKIE_SECURE", production),
   CORSOrigins |-> text("CORS_ORIGINS", {"loopback"}),
   RateLimitEnabled |-> value("RATE_LIMIT_ENABLED", TRUE),
   RateLimitRPS |-> value("RATE_LIMIT_RPS", 20),
   RateLimitBurst |-> value("RATE_LIMIT_BURST", 40),
   OrderPaymentTTL |-> value("ORDER_PAYMENT_TTL", 900),
   OrderExpirationInterval |-> value("ORDER_EXPIRATION_INTERVAL", 30),
   OrderExpirationBatchSize |-> value("ORDER_EXPIRATION_BATCH_SIZE", 100),
   MockPaymentWebhookSecret |-> text("MOCK_PAYMENT_WEBHOOK_SECRET", "default"),
   RedisURL |-> text("REDIS_URL", ""),
   ProductCacheTTL |-> value("PRODUCT_CACHE_TTL", 300),
   ShutdownTimeout |-> value("SHUTDOWN_TIMEOUT", 15),
   ReadTimeout |-> value("READ_TIMEOUT", 15),
   WriteTimeout |-> value("WRITE_TIMEOUT", 30),
   IdleTimeout |-> value("IDLE_TIMEOUT", 60),
   RequestTimeout |-> value("REQUEST_TIMEOUT", 10)]

-----------------------------------------------------------------------------
\* Validate returns nil.

PlatformIsValid(c) ==
  /\ c.AppEnv \in {"local", "development", "test", "staging", "production"}
  /\ c.DatabaseDriver \in {"sqlite", "postgres"}
  /\ c.DatabaseURL # ""
  /\ c.Port # Malformed /\ c.Port \in 0..65535
  /\ c.AppEnv = "test" \/ (c.Port # 0 /\ c.DatabaseDriver = "postgres")
  /\ c.DBMaxOpenConns > 0 /\ c.DBMaxIdleConns \in 0..c.DBMaxOpenConns
  /\ c.DBConnMaxLifetime >= 0 /\ c.DBConnMaxIdleTime >= 0

\* Broken variant: the deadline of a request may be as late as that of its answer.
RequestNotAfterWrite(c) == c.RequestTimeout <= c.WriteTimeout
\* A request that times out can still be answered.
RequestBeforeWrite(c) == c.RequestTimeout < c.WriteTimeout

TimeoutsAreValid(c) ==
  /\ c.ShutdownTimeout > 0 /\ c.ReadTimeout > 0 /\ c.WriteTimeout > 0
  /\ c.IdleTimeout > 0 /\ c.RequestTimeout > 0
  /\ RequestBeforeWrite(c)

TextsAreValid(c) ==
  /\ c.JWTIssuer # "" /\ c.JWTAudience # ""
  /\ c.RefreshCookieName \notin {"", Malformed}
  /\ Malformed \notin c.CORSOrigins
  /\ c.RedisURL # Malformed
  /\ c.LogLevel \in {"debug", "info", "warn", "error"} /\ c.LogFormat \in {"text", "json"}
  /\ c.RateLimitRPS # NotFinite

LongEnough(secret) == secret # "short"

SecretsAreValid(c) ==
  \A secret \in {c.JWTSecret, c.MockPaymentWebhookSecret} :
    /\ LongEnough(secret)
    /\ ProductionLike(c.AppEnv) => secret # "default"

ProductionIsSafe(c) ==
  /\ ~c.Seed /\ c.RefreshCookieSecure
  /\ c.CORSOrigins # {} /\ c.CORSOrigins \cap {"*", "loopback"} = {}
  /\ c.LogFormat = "json"

LimitsAreValid(c) ==
  /\ c.AccessTokenTTL > 0 /\ c.RefreshTokenTTL > c.AccessTokenTTL
  /\ c.RateLimitEnabled => c.RateLimitRPS > 0 /\ c.RateLimitBurst > 0
  /\ c.OrderPaymentTTL > 0 /\ c.OrderExpirationInterval > 0
  /\ c.OrderExpirationBatchSize \in 1..1000
  /\ c.ProductCacheTTL > 0

Validate(c) ==
  /\ ~c.parseError
  /\ PlatformIsValid(c) /\ TimeoutsAreValid(c) /\ TextsAreValid(c) /\ SecretsAreValid(c)
  /\ ProductionLike(c.AppEnv) => ProductionIsSafe(c)
  /\ LimitsAreValid(c)
=============================================================================
