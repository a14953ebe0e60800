---------------------------- MODULE CryptoProbe -----------------------------
(***************************************************************************)
(* The crypto probe of src/wg_crypto_probe.c on the random source of       *)
(* src/wireguard_platform_vita.c.  wireguard_random_bytes cannot fail to   *)
(* its callers: it gives them zeroes and remembers the error, which        *)
(* run_probe reads once the handshake initiation has been made.            *)
(***************************************************************************)
EXTENDS Naturals

VARIABLES
    crypto_at,        \* where the program is
    g_random_error,   \* an error of the generator, never cleared
    failed,           \* the checks of this run that failed
    log_open,         \* g_log_fd >= 0
    buttons,          \* previous.buttons
    leaving,          \* ~running
    result,           \* the verdict of the last run
    zeroes            \* history: draws of this run that gave zeroes

cryptoVars ==
    <<crypto_at, g_random_error, failed, log_open, buttons, leaving,
      result, zeroes>>

CryptoInit ==
    /\ crypto_at = "start" /\ g_random_error = FALSE /\ failed = {}
    /\ log_open = FALSE /\ buttons = {} /\ leaving = FALSE
    /\ result = "none" /\ zeroes = FALSE

\* Mutant of wireguard_random_bytes: keeps the result of the last draw.
LastDrawOnly(ok) ==
    /\ g_random_error' = ~ok
    /\ zeroes' = (zeroes \/ ~ok)

\* One draw; after a failure the caller goes on with zeroes.
wireguard_random_bytes(ok) ==
    /\ g_random_error' = (g_random_error \/ ~ok)
    /\ zeroes' = (zeroes \/ ~ok)

\* vita2d_init and the font, or the program leaves.
CryptoStart ==
    /\ crypto_at = "start"
    /\ crypto_at' \in {"tests", "exited"}
    /\ UNCHANGED <<g_random_error, failed, log_open, buttons, leaving, result,
                   zeroes>>

\* The log is opened anew if it can be; then the known answers.
KnownAnswers ==
    /\ crypto_at = "tests" /\ crypto_at' = "device"
    /\ log_open' \in BOOLEAN
    /\ failed' \in SUBSET {"BLAKE2s", "X25519", "AEAD"}
    /\ zeroes' = FALSE
    /\ UNCHANGED <<g_random_error, buttons, leaving, result>>

\* wireguard_device_init draws its cookie secret.  Without a device or a
\* peer there is no handshake.
DeviceInit ==
    /\ crypto_at = "device"
    /\ \E ok \in BOOLEAN : wireguard_random_bytes(ok)
    /\ \/ crypto_at' = "initiation" /\ UNCHANGED failed
       \/ crypto_at' = "verdict" /\ failed' = failed \cup {"handshake"}
    /\ UNCHANGED <<log_open, buttons, leaving, result>>

\* The initiation needs an ephemeral key: zeroes do not make it fail.
Initiation ==
    /\ crypto_at = "initiation" /\ crypto_at' = "verdict"
    /\ \E ok \in BOOLEAN : wireguard_random_bytes(ok)
    /\ failed' \in {failed, failed \cup {"handshake"}}
    /\ UNCHANGED <<log_open, buttons, leaving, result>>

\* tsvita_wireguard_random_error, the verdict, and the end of the run.
Verdict ==
    /\ crypto_at = "verdict"
    /\ crypto_at' = IF leaving THEN "exited" ELSE "menu"
    /\ result' = IF failed = {} /\ ~g_random_error THEN "APROVADO"
                                                  ELSE "REPROVADO"
    /\ log_open' = FALSE
    /\ UNCHANGED <<g_random_error, failed, buttons, leaving, zeroes>>

\* CROSS runs the probe again; START leaves, after that run if both.
CryptoButtons(b) ==
    LET pressed == b \ buttons IN
    /\ crypto_at = "menu" /\ buttons' = b
    /\ leaving' = ("START" \in pressed)
    /\ crypto_at' = IF "CROSS" \in pressed THEN "tests"
                    ELSE IF "START" \in pressed THEN "exited" ELSE "menu"
    /\ UNCHANGED <<g_random_error, failed, log_open, result, zeroes>>

CryptoStep ==
    CryptoStart \/ KnownAnswers \/ DeviceInit \/ Initiation \/ Verdict

CryptoNext ==
    CryptoStep \/ \E b \in SUBSET {"START", "CROSS"} : CryptoButtons(b)

CryptoSpec == CryptoInit /\ [][CryptoNext]_cryptoVars

-----------------------------------------------------------------------------
\* "APROVADO" means that every check of this run passed and that none of
\* its random draws gave zeroes, in the handshake that was just made too.
ApprovedMeansRandom ==
    (crypto_at \in {"menu", "exited"} /\ result = "APROVADO") =>
        failed = {} /\ ~zeroes
=============================================================================
