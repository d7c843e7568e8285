---------------------------- MODULE SaltSession ----------------------------
(***************************************************************************)
(* The session that SaltManager keeps with salt-api.  The manager has      *)
(* session scope, so its token outlives reverts of the Salt master and     *)
(* jumps of the master's clock, and it asks for a new one only when its    *)
(* own clock says that five minutes have gone by.  Only sync_time throws a *)
(* token away.  UnderlayRegistry is the module that uses it.               *)
(***************************************************************************)
EXTENDS Naturals

CONSTANTS
  Tries,     \* tries_number of the retry around sync_time
  SkipSync   \* settings.SKIP_SYNC_TIME

ASSUME SessionAssumption == Tries \in Nat \ {0} /\ SkipSync \in BOOLEAN

VARIABLES
  api,    \* the client: "none", "bare" (it never logged in), "valid", "stale"
  start,  \* __session_start: "unset", "young", or "old" (five minutes or more)
  clock,  \* the clock of the Salt master is "right" or "behind"
  tries,  \* calls of sync_time made so far
  fault   \* a request of this sync_time failed for another reason than its token

salt == <<api, start, clock, tries, fault>>

SaltInit ==
  /\ api = "none" /\ start = "unset" /\ clock = "right"
  /\ tries = 0 /\ fault = FALSE

SaltTypeOK ==
  /\ api \in {"none", "bare", "valid", "stale"}
  /\ start \in {"unset", "young", "old"}
  /\ clock \in {"right", "behind"}
  /\ tries \in 0..Tries + 1 /\ fault \in BOOLEAN

-----------------------------------------------------------------------------

NeedsLogin(a) == a = "none" \/ start = "old"
Authenticated(a) == NeedsLogin(a) \/ a = "valid"
LoginTime(a) == IF NeedsLogin(a) THEN "young" ELSE start

\* A request that is answered: made with a new login, or with a good token.
Answered(a) == Authenticated(a) /\ api' = "valid" /\ start' = LoginTime(a)

\* A request that is refused for its token, or that has none because the
\* login of this client raised.
Refused(a) == ~ Authenticated(a) /\ api' = a /\ start' = start

\* A login, or the request after it, that fails by itself.
Broken(a) ==
  \/ /\ NeedsLogin(a)
     /\ api' = (IF a = "none" THEN "bare" ELSE a) /\ start' = start
  \/ Answered(a)

\* Five minutes go by; .seconds leaves the days out, so that a session of a
\* day and a minute is a minute old again.
TimePasses ==
  /\ start' \in CASE start = "young" -> {"old"} [] start = "old" -> {"young"}
                  [] OTHER -> {}
  /\ UNCHANGED <<api, clock, tries, fault>>

\* The Salt master is another one now: it was reverted, with its clock, or
\* installed.
MasterReplaced ==
  /\ api' = IF api = "valid" THEN "stale" ELSE api
  /\ clock' = "behind"
  /\ UNCHANGED <<start, tries, fault>>

-----------------------------------------------------------------------------
(***************************************************************************)
(* sync_time: throw the token away, set the clocks, ask for the date, throw *)
(* the token away again.  The retry decorator calls it Tries + 1 times.    *)
(***************************************************************************)

\* What sync_time assigns to __api first.  Mutant: nothing.
KeptApi == api
DroppedApi == "none"

SyncBegin == tries' = 0 /\ fault' = FALSE /\ UNCHANGED <<api, start, clock>>

\* The command that sets the clocks.  The master takes its own clock for the
\* age of the token: a jump makes it refuse the token that it has just given.
\* The exit code of the command is not looked at.
SetClocks ==
  /\ ~ SkipSync /\ Authenticated(DroppedApi)
  /\ clock' \in {clock, "right"}
  /\ api' = IF clock = clock' THEN "valid" ELSE "stale"
  /\ start' = LoginTime(DroppedApi)
  /\ UNCHANGED <<tries, fault>>

\* The call ends with an exception and is made again, or was the last one.
TryEnds == tries' = tries + 1 /\ UNCHANGED clock

ClocksRaise ==
  /\ ~ SkipSync
  /\ \/ Refused(DroppedApi) /\ UNCHANGED fault
     \/ Broken(DroppedApi) /\ fault' = TRUE
  /\ TryEnds

\* The first request of a call with SKIP_SYNC_TIME, the second one without.
DateApi == IF SkipSync THEN DroppedApi ELSE api

DateAnswered ==
  /\ Authenticated(DateApi)
  /\ start' = LoginTime(DateApi) /\ api' = "none"
  /\ tries' = 0 /\ fault' = FALSE /\ UNCHANGED clock

DateRaises ==
  /\ \/ Refused(DateApi) /\ UNCHANGED fault
     \/ Broken(DateApi) /\ fault' = TRUE
  /\ TryEnds

CanTryAgain == tries' <= Tries
=============================================================================
