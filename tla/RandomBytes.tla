---------------------------- MODULE RandomBytes ----------------------------
(***************************************************************************)
(* aknano_cli_gen_random_bytes of aknano_client.c: with the TRNG on the    *)
(* RT1060, with the CAAM, initialised by the first call, on the RT1170.    *)
(***************************************************************************)
EXTENDS Integers, OneBoard

CONSTANT Sizes   \* bound: the numbers of bytes a caller asks for

ASSUME SizesAssumption == Sizes \subseteq Nat

RNG_EXAMPLE_RANDOM_BYTES == 16

VARIABLES
    randomInitialized,   \* RT1170: initRandom has been called
    generator,           \* the hardware: "off", "on", or "failed" to start
    rng,                 \* what the call does next, "idle" between calls
    size,                \* what the caller asked for
    filled,              \* how many random bytes were written from its buffer on
    answer               \* what the last call returned

rngVars == <<randomInitialized, generator, rng, size, filled, answer>>

-----------------------------------------------------------------------------
RngInit ==
    /\ randomInitialized = FALSE
    /\ generator = "off"
    /\ rng = "idle"
    /\ size = 0 /\ filled = 0
    /\ answer = "none"

AskRandom ==
    /\ rng = "idle"
    /\ size' \in Sizes
    /\ filled' = 0 /\ answer' = "none"
    /\ rng' = CASE board = "RT1060" -> "config"
                [] board = "RT1170" -> IF randomInitialized THEN "caam" ELSE "caamInit"
    /\ UNCHANGED <<randomInitialized, generator>>

Return(status) == rng' = "idle" /\ answer' = status
GoOn(next) == rng' = next /\ UNCHANGED answer

(* RT1060: TRNG_GetDefaultConfig, with the Von Neumann mode on top.        *)
DefaultConfig ==
    /\ rng = "config"
    /\ GoOn("trngInit") \/ Return("Fail")
    /\ UNCHANGED <<randomInitialized, generator, size, filled>>

TrngInitUnchecked ==   \* mutant of TrngInit: its status is not looked at
    /\ rng = "trngInit"
    /\ generator' \in {"on", "failed"} /\ GoOn("trng")
    /\ UNCHANGED <<randomInitialized, size, filled>>

TrngInit ==
    /\ rng = "trngInit"
    /\ \/ generator' = "on" /\ GoOn("trng")
       \/ generator' = "failed" /\ Return("Fail")
    /\ UNCHANGED <<randomInitialized, size, filled>>

(* A generator that did not start gives no random bytes, whatever status   *)
(* its driver returns.                                                     *)
TrngData ==
    /\ rng = "trng"
    /\ \/ filled' = (IF generator = "on" THEN size ELSE 0) /\ Return("Success")
       \/ UNCHANGED filled /\ Return("Fail")
    /\ UNCHANGED <<randomInitialized, generator, size>>

(* RT1170: initRandom only logs that the CAAM did not start; it is not     *)
(* called again.                                                           *)
initRandom ==
    /\ rng = "caamInit"
    /\ generator' \in {"on", "failed"}
    /\ randomInitialized' = TRUE
    /\ GoOn("caam")
    /\ UNCHANGED <<size, filled>>

(* A job for a fixed number of bytes, written behind the end of a buffer   *)
(* that is shorter; what becomes of the job is not looked at.              *)
CaamData ==
    /\ rng = "caam"
    /\ filled' \in IF generator = "on" THEN {0, RNG_EXAMPLE_RANDOM_BYTES} ELSE {0}
    /\ Return("Success")
    /\ UNCHANGED <<randomInitialized, generator, size>>

RngNext == AskRandom \/ DefaultConfig \/ TrngInit \/ TrngData \/ initRandom \/ CaamData

-----------------------------------------------------------------------------
(* On the RT1060, where the code looks at the status of each driver call,  *)
(* a call that returns success has filled the caller's buffer with random  *)
(* bytes, whatever earlier calls came to.                                  *)
RandomOnSuccess ==
    board = "RT1060" /\ answer = "Success" => filled = size

(* The same on either board: as many random bytes as the caller asked for, *)
(* no fewer, and none behind the end of its buffer.                        *)
EveryByteRandom ==
    answer = "Success" => filled = size
=============================================================================
