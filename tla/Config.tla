------------------------------- MODULE Config -------------------------------
(***************************************************************************)
(* loadConfig as a function of what the operator set.  A setting comes     *)
(* from the environment or from the config file; what matters of its value *)
(* is whether it is one the parser knows.  The settings are those that     *)
(* decide how requests are authenticated, and one that stands for every    *)
(* setting that must parse (ports, sizes, counts, durations, app names).   *)
(***************************************************************************)
CONSTANTS
    Unset,      \* the variable or the file's field is absent
    Blank,      \* an empty or whitespace-only value
    Typo,       \* a value the parser does not know
    Fatal       \* loadConfig throws and the process exits

Names == {"authMode", "enrollmentMode", "deviceToken", "enrollmentSecret", "parsed"}
AuthModes == {"shared", "per-account"}
EnrollmentModes == {"bootstrap", "account-key"}

\* What an operator can have set: the environment, the file and how it reads,
\* and whether GLANCEVAULT_CONFIG names the file or the default path is tried.
Values == AuthModes \cup EnrollmentModes \cup {"given", Unset, Blank, Typo}
Settings == [env : [Names -> Values], file : [Names -> Values],
             fileState : {"missing", "garbled", "valid"}, requested : BOOLEAN]

ConfigRecord == [authMode : AuthModes, enrollmentMode : EnrollmentModes]

-----------------------------------------------------------------------------
Given(v) == v \notin {Unset, Blank}

ReadFileConfig(s) ==
    IF s.fileState = "valid" THEN s.file
    ELSE IF s.requested THEN Fatal
    ELSE [n \in Names |-> Unset]

WithoutBlankSettings(env) ==
    [n \in Names |-> IF env[n] = Blank THEN Unset ELSE env[n]]

\* env ?? file
Setting(s, n) ==
    LET fromEnv == WithoutBlankSettings(s.env)[n]
    IN IF fromEnv # Unset THEN fromEnv ELSE ReadFileConfig(s)[n]

NormalizeLeniently(v, modes, default) == IF v \in modes THEN v ELSE default
Normalize(v, modes, default) ==
    IF ~Given(v) THEN default ELSE IF v \in modes THEN v ELSE Fatal

AuthMode(s) == Normalize(Setting(s, "authMode"), AuthModes, "shared")
EnrollmentMode(s) == Normalize(Setting(s, "enrollmentMode"), EnrollmentModes, "bootstrap")

Refused(s) ==
    \/ ReadFileConfig(s) = Fatal
    \/ AuthMode(s) = Fatal
    \/ ~Given(Setting(s, "deviceToken"))
    \/ AuthMode(s) = "per-account" /\ ~Given(Setting(s, "enrollmentSecret"))
    \/ EnrollmentMode(s) = Fatal
    \/ EnrollmentMode(s) = "account-key" /\ AuthMode(s) # "per-account"
    \/ Setting(s, "parsed") \in {Blank, Typo}

LoadConfig(s) ==
    IF Refused(s) THEN Fatal
    ELSE [authMode |-> AuthMode(s), enrollmentMode |-> EnrollmentMode(s)]

-----------------------------------------------------------------------------
\* The proofs that get a request past the middleware and routes buildApp
\* registers for a configuration: to the account routes, and to /enroll.
OpenedBy(config) ==
    IF config.authMode = "per-account"
    THEN {"credential", IF config.enrollmentMode = "account-key" THEN "accountKey" ELSE "enrollmentSecret"}
    ELSE {"deviceToken"}
Proofs == {"deviceToken", "credential", "accountKey", "enrollmentSecret"}
=============================================================================
