---------------------------- MODULE CrlFreshness ----------------------------
(***************************************************************************)
(* How long the CRL stays valid: CrlRefreshService regenerates it at boot  *)
(* and every Sunday at midnight, each time for OCM_CRL_DAYS days, and a    *)
(* revocation regenerates it too.  A refresh is best-effort: it may fail.  *)
(* Time advances in days; a refresh that is due runs before the day goes   *)
(* on.  An expired CRL makes OpenVPN reject every client.                  *)
(***************************************************************************)
EXTENDS Naturals

CONSTANTS CrlDays,         \* OCM_CRL_DAYS
          MaxMisses        \* refreshes that may fail one after the other

\* AppConfig.crlDays: @IsInt() @Min(1).
ASSUME CrlDaysAssumption == CrlDays \in Nat \ {0}
ASSUME MaxMissesAssumption == MaxMisses \in Nat

VARIABLES valid,           \* days of validity left; 0 once expired
          weekday,         \* 0 is Sunday
          api,             \* "down", or up: "due" for a refresh, or "idle"
          fresh,           \* some refresh has succeeded since the last boot
          misses           \* refreshes that have failed since the last success

vars == <<valid, weekday, api, fresh, misses>>

TypeOK == /\ valid \in 0 .. CrlDays
          /\ weekday \in 0 .. 6
          /\ api \in {"down", "due", "idle"}
          /\ fresh \in BOOLEAN
          /\ misses \in 0 .. MaxMisses

\* An API that is down beside a CRL of any age.
Init == /\ valid \in 0 .. CrlDays
        /\ weekday \in 0 .. 6
        /\ api = "down" /\ fresh = FALSE
        /\ misses = 0

\* onApplicationBootstrap: the refresh at boot.
Boot == /\ api = "down"
        /\ api' = "due"
        /\ UNCHANGED <<valid, weekday, fresh, misses>>

\* The API stops or crashes; what it had still to refresh is forgotten.
Stop == /\ api # "down"
        /\ api' = "down" /\ fresh' = FALSE
        /\ UNCHANGED <<valid, weekday, misses>>

\* A slip: only the refresh at boot is left, and no cron runs.
OnlyAtBoot == {}

\* CronExpression.EVERY_WEEK
EveryWeek == {0}

\* A day passes.  The cron only runs in a running process.
Day == /\ api # "due"
       /\ valid' = IF valid = 0 THEN 0 ELSE valid - 1
       /\ weekday' = IF weekday = 6 THEN 0 ELSE weekday + 1
       /\ api' = IF api = "idle" /\ weekday' \in EveryWeek THEN "due" ELSE api
       /\ UNCHANGED <<fresh, misses>>

\* regenerateCrl.
RegenerateCrl == /\ api = "due"
                 /\ api' = "idle"
                 /\ valid' = CrlDays /\ fresh' = TRUE /\ misses' = 0
                 /\ UNCHANGED weekday

\* regenerateCrl fails; the failure is logged and nothing retries it.
RegenerateFails == /\ api = "due"
                   /\ misses < MaxMisses
                   /\ api' = "idle"
                   /\ misses' = misses + 1
                   /\ UNCHANGED <<valid, weekday, fresh>>

\* revokeClient regenerates the CRL as well.
Revoke == /\ api # "down"
          /\ valid' = CrlDays
          /\ UNCHANGED <<weekday, api, fresh, misses>>

Next == Boot \/ Stop \/ Day \/ RegenerateCrl \/ RegenerateFails \/ Revoke

Spec == Init /\ [][Next]_vars

\* Days pass, a gen-crl ends or is killed at its timeout, and the API is
\* started again: by systemd after a crash (Restart=on-failure), by the
\* administrator who stopped it otherwise.
LiveSpec == /\ Spec
            /\ WF_vars(Day) /\ WF_vars(Boot)
            /\ WF_vars(RegenerateCrl \/ RegenerateFails)

(***************************************************************************)
(* Correctness.                                                            *)
(***************************************************************************)
\* "CRL never expires": once the running API has refreshed the CRL, it is
\* valid, also on the Sunday that its next refresh is due.  (fresh is FALSE
\* while the API is down.)
NeverExpires == fresh => valid > 0

\* How old the CRL can be, the inductive part of CrlFreshnessProofs: each
\* failed refresh costs a week on top of the days since Sunday.
AgeBound ==
  fresh => CrlDays <= valid + 7 * misses
                            + IF api = "due" /\ weekday = 0 THEN 7 ELSE weekday

\* Once the API stops crashing, an expired CRL does not stay expired: the
\* refresh at boot may fail, but a later Sunday makes up for it.
ExpiryHeals == <>[][~Stop]_vars => (valid = 0 ~> valid > 0)
=============================================================================
