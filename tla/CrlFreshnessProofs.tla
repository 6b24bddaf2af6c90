------------------------- MODULE CrlFreshnessProofs -------------------------
(***************************************************************************)
(* For every CrlDays that outlasts MaxMisses failed refreshes in a row,    *)
(* a running API that has refreshed the CRL once never lets it expire.     *)
(***************************************************************************)
EXTENDS CrlFreshness, TLAPS

\* The configurations that are safe: the window covers the week that each
\* tolerated failure costs, and the week until the next success.
WindowSuffices == CrlDays > 7 * (MaxMisses + 1)

Days == /\ valid \in Nat /\ valid <= CrlDays
        /\ weekday \in 0 .. 6
        /\ misses \in Nat /\ misses <= MaxMisses
        /\ api \in {"down", "due", "idle"}

Running == fresh => api # "down"

Aged == Days /\ Running /\ AgeBound

\* The bound leaves some validity even on the Sunday a refresh is due.
LEMMA AgedIsValid == WindowSuffices /\ Aged => NeverExpires
<1> CrlDays \in Nat /\ MaxMisses \in Nat
  BY CrlDaysAssumption, MaxMissesAssumption
<1> SUFFICES ASSUME WindowSuffices, Aged, fresh
             PROVE  valid > 0
  BY DEF NeverExpires
<1>1. Days /\ CrlDays > 7 * (MaxMisses + 1)
  BY DEF Aged, WindowSuffices
<1>2. CrlDays <= valid + 7 * misses
                       + IF api = "due" /\ weekday = 0 THEN 7 ELSE weekday
  BY DEF Aged, AgeBound
<1> QED BY <1>1, <1>2 DEF Days

\* Initially the API is down, so the bound says nothing.
LEMMA InitAged == Init => Aged
<1> CrlDays \in Nat /\ MaxMisses \in Nat
  BY CrlDaysAssumption, MaxMissesAssumption
<1> SUFFICES ASSUME Init PROVE Aged
  OBVIOUS
<1>1. Days
  BY DEF Init, Days
<1>2. ~fresh
  BY Zenon DEF Init
<1> QED BY <1>1, <1>2 DEF Aged, Running, AgeBound

\* A CRL just generated is younger than the days since Sunday.
LEMMA NewCrlAge == ASSUME NEW day \in Nat
                   PROVE  CrlDays <= CrlDays + 7 * 0 + day
BY CrlDaysAssumption

\* Only the passing of a day uses up the bound, and it gives back a day of
\* weekday (or the week of a Sunday) for the day of validity it takes.
LEMMA NextAged == WindowSuffices /\ Aged /\ [Next]_vars => Aged'
<1> CrlDays \in Nat /\ MaxMisses \in Nat
  BY CrlDaysAssumption, MaxMissesAssumption
<1> SUFFICES ASSUME WindowSuffices, Aged, [Next]_vars
             PROVE  Aged'
  OBVIOUS
<1>1. CASE Boot
  BY <1>1 DEF Boot, Aged, Days, Running, AgeBound
<1>2. CASE Stop
  <2>1. ~fresh'
    BY <1>2, Zenon DEF Stop
  <2>2. Days'
    BY <1>2 DEF Stop, Aged, Days
  <2> QED BY <2>1, <2>2 DEF Aged, Running, AgeBound
<1>3. CASE Day
  <2>1. fresh => valid > 0
    BY AgedIsValid DEF NeverExpires
  <2> QED BY <1>3, <2>1 DEF Day, EveryWeek, Aged, Days, Running, AgeBound
<1>4. CASE RegenerateCrl
  <2>1. valid' = CrlDays /\ misses' = 0 /\ api' = "idle"
    BY <1>4 DEF RegenerateCrl
  <2>2. Days' /\ weekday' \in Nat
    BY <1>4 DEF RegenerateCrl, Aged, Days
  <2>3. CrlDays <= valid' + 7 * misses' + weekday'
    BY <2>1, <2>2, NewCrlAge
  <2>4. AgeBound'
    BY <2>1, <2>3, Zenon DEF AgeBound
  <2>5. Running'
    BY <2>1 DEF Running
  <2> QED BY <2>2, <2>4, <2>5 DEF Aged
<1>5. CASE RegenerateFails
  BY <1>5 DEF RegenerateFails, Aged, Days, Running, AgeBound
<1>6. CASE Revoke
  BY <1>6 DEF Revoke, Aged, Days, Running, AgeBound
<1>7. CASE UNCHANGED vars
  BY <1>7 DEF vars, Aged, Days, Running, AgeBound
<1> QED BY <1>1, <1>2, <1>3, <1>4, <1>5, <1>6, <1>7 DEF Next

\* The age of the CRL while the API runs: a week per failed refresh on top
\* of the days since Sunday.
THEOREM CrlAge == WindowSuffices => (Spec => []AgeBound)
<1> SUFFICES ASSUME WindowSuffices PROVE Spec => []AgeBound
  OBVIOUS
<1>1. Aged /\ [Next]_vars => Aged'
  BY NextAged
<1>2. Aged => AgeBound
  BY DEF Aged
<1> QED BY InitAged, <1>1, <1>2, PTL DEF Spec

\* "Keeps the OpenVPN CRL fresh so it never expires": true of a window of
\* more than 7 * (MaxMisses + 1) days, and of no smaller one.
THEOREM CrlNeverExpires == WindowSuffices => (Spec => []NeverExpires)
<1> SUFFICES ASSUME WindowSuffices PROVE Spec => []NeverExpires
  OBVIOUS
<1>1. Aged /\ [Next]_vars => Aged'
  BY NextAged
<1>2. Aged => NeverExpires
  BY AgedIsValid
<1> QED BY InitAged, <1>1, <1>2, PTL DEF Spec
=============================================================================
