------------------------ MODULE ModemMonitorTheorems ------------------------
(***************************************************************************)
(* Theorems about the LTE monitor, for any number of troubles, mishaps and *)
(* requested tests.                                                        *)
(***************************************************************************)
EXTENDS ModemMonitor, TLAPS

USE DEF Exchange, CheckEnds

\* Where start() is tells what the flags can be: nothing is configured before the first check, a
\* check is made of a responding modem only, and the steps of a check come in their order.
PlaceTellsFlags ==
    /\ pc \in {"first_wait", "power_key", "second_wait"} => ~ responding /\ ~ pdp_configured
    /\ pc \in Check \cup {"ping"} => responding
    /\ starting => ~ data_active
    /\ pc \in {"profile", "attached", "attach", "address"} => ready
    /\ pc = "new_address" /\ activation_ok => bearer \/ excused
    /\ pc = "ping" /\ data_active => bearer \/ excused

\* The inductive invariant, but for the flags' being Boolean.
OrderOK ==
    /\ pc \in Places /\ test \in {"none", "created", "ping"}
    /\ troubles \in 0..MaxTroubles /\ mishaps \in 0..MaxMishaps /\ tests \in 0..MaxTests
    /\ pc = "activate" => ready /\ ~ mobile_ip /\ ~ activation_ok
    /\ PlaceTellsFlags /\ ProfileKnown /\ RestsTruthfully

IInv == FlagsOK /\ ModemOK /\ OrderOK

\* The program starts in it.
LEMMA InitInv == Init => IInv
<1> SUFFICES ASSUME Init PROVE FlagsOK /\ ModemOK /\ OrderOK
  BY DEF IInv
<1>1. FlagsOK
  BY Zenon DEF Init, FlagsOK
<1>3. ModemOK
  BY Zenon DEF Init, ModemOK
<1>2. OrderOK
  BY MonitorAssumption
     DEF MonitorAssumption, Init, OrderOK, PlaceTellsFlags, ProfileKnown, RestsTruthfully, LteUp, Places, Check
<1> QED
  BY <1>1, <1>2, <1>3

\* Every step keeps the flags Boolean.
LEMMA FlagsStay == IInv /\ [Next]_vars => FlagsOK'
<1> SUFFICES ASSUME IInv, [Next]_vars PROVE FlagsOK'
  OBVIOUS
<1> USE DEF IInv, FlagsOK, flags, modem, bounds, profile_history
<1>1. CASE FirstWait
  BY <1>1, Zenon DEF FirstWait, Answered, Silent
<1>2. CASE PowerKeySequence
  BY <1>2, Zenon DEF PowerKeySequence
<1>3. CASE SecondWait
  BY <1>3, Zenon DEF SecondWait, Answered, Silent
<1>4. CASE Slept
  BY <1>4, Zenon DEF Slept
<1>5. CASE WaitForModem
  BY <1>5, Zenon DEF WaitForModem, Answered, Silent
<1>6. CASE PeriodicTestEnds
  BY <1>6, Zenon DEF PeriodicTestEnds
<1>7. CASE CheckFails
  BY <1>7, Zenon DEF CheckFails, Raises, Executes, AllowError
<1>8. ASSUME NEW answer \in {"own", "other", "error"}, CheckStep(answer) PROVE FlagsOK'
  <2>1. CASE ReadSim(answer)
    BY <1>8, <2>1, Zenon DEF CheckStep, ReadSim
  <2>2. CASE ReadRegistration(answer)
    BY <1>8, <2>2, Zenon DEF CheckStep, ReadRegistration
  <2>3. CASE SetProfile(answer)
    BY <1>8, <2>3, Zenon DEF CheckStep, SetProfile, Executed, Executes
  <2>4. CASE ReadAttached(answer)
    BY <1>8, <2>4, Zenon DEF CheckStep, ReadAttached
  <2>5. CASE Attach(answer)
    BY <1>8, <2>5, Zenon DEF CheckStep, Attach
  <2>6. CASE ReadAddress(answer)
    BY <1>8, <2>6, Zenon DEF CheckStep, ReadAddress
  <2>7. CASE Activate(answer)
    BY <1>8, <2>7, Zenon DEF CheckStep, Activate, Executed, Executes
  <2>8. CASE ReadNewAddress(answer)
    BY <1>8, <2>8, Zenon DEF CheckStep, ReadNewAddress
  <2> QED
    BY <1>8, <2>1, <2>2, <2>3, <2>4, <2>5, <2>6, <2>7, <2>8 DEF CheckStep
<1>9. CASE StartInternetTest
  BY <1>9, Zenon DEF StartInternetTest, internet_test_running
<1>10. CASE TestRuns \/ TestEnds
  <2>1. UNCHANGED flags /\ UNCHANGED modem /\ UNCHANGED profile_history /\ UNCHANGED excused
    BY <1>10 DEF TestRuns, TestEnds
  <2> QED
    BY <2>1, Zenon
<1>11. CASE Reboots \/ NetworkLost \/ BearerLost
  BY <1>11, Zenon DEF Trouble, Reboots, NetworkLost, BearerLost
<1>12. CASE ModemBoots \/ NetworkReturns
  BY <1>12, Zenon DEF ModemBoots, NetworkReturns
<1>13. CASE UNCHANGED vars
  BY <1>13, Zenon DEF vars
<1> QED
  BY <1>1, <1>2, <1>3, <1>4, <1>5, <1>6, <1>7, <1>8, <1>9, <1>10, <1>11, <1>12, <1>13
     DEF Next, Monitor

\* Every step keeps what is known of the modem Boolean.
LEMMA ModemStays == IInv /\ [Next]_vars => ModemOK'
<1> SUFFICES ASSUME IInv, [Next]_vars PROVE ModemOK'
  OBVIOUS
<1> USE DEF IInv, ModemOK, flags, modem, bounds, profile_history
<1>1. CASE FirstWait
  BY <1>1, Zenon DEF FirstWait, Answered, Silent
<1>2. CASE PowerKeySequence
  BY <1>2, Zenon DEF PowerKeySequence
<1>3. CASE SecondWait
  BY <1>3, Zenon DEF SecondWait, Answered, Silent
<1>4. CASE Slept
  BY <1>4, Zenon DEF Slept
<1>5. CASE WaitForModem
  BY <1>5, Zenon DEF WaitForModem, Answered, Silent
<1>6. CASE PeriodicTestEnds
  BY <1>6, Zenon DEF PeriodicTestEnds
<1>7. CASE CheckFails
  BY <1>7, Zenon DEF CheckFails, Raises, Executes, AllowError
<1>8. ASSUME NEW answer \in {"own", "other", "error"}, CheckStep(answer) PROVE ModemOK'
  <2>1. CASE ReadSim(answer)
    BY <1>8, <2>1, Zenon DEF CheckStep, ReadSim
  <2>2. CASE ReadRegistration(answer)
    BY <1>8, <2>2, Zenon DEF CheckStep, ReadRegistration
  <2>3. CASE SetProfile(answer)
    BY <1>8, <2>3, Zenon DEF CheckStep, SetProfile, Executed, Executes
  <2>4. CASE ReadAttached(answer)
    BY <1>8, <2>4, Zenon DEF CheckStep, ReadAttached
  <2>5. CASE Attach(answer)
    BY <1>8, <2>5, Zenon DEF CheckStep, Attach
  <2>6. CASE ReadAddress(answer)
    BY <1>8, <2>6, Zenon DEF CheckStep, ReadAddress
  <2>7. CASE Activate(answer)
    BY <1>8, <2>7, Zenon DEF CheckStep, Activate, Executed, Executes
  <2>8. CASE ReadNewAddress(answer)
    BY <1>8, <2>8, Zenon DEF CheckStep, ReadNewAddress
  <2> QED
    BY <1>8, <2>1, <2>2, <2>3, <2>4, <2>5, <2>6, <2>7, <2>8 DEF CheckStep
<1>9. CASE StartInternetTest
  BY <1>9, Zenon DEF StartInternetTest, internet_test_running
<1>10. CASE TestRuns \/ TestEnds
  <2>1. UNCHANGED flags /\ UNCHANGED modem /\ UNCHANGED profile_history /\ UNCHANGED excused
    BY <1>10 DEF TestRuns, TestEnds
  <2> QED
    BY <2>1, Zenon
<1>11. CASE Reboots \/ NetworkLost \/ BearerLost
  BY <1>11, Zenon DEF Trouble, Reboots, NetworkLost, BearerLost
<1>12. CASE ModemBoots \/ NetworkReturns
  BY <1>12, Zenon DEF ModemBoots, NetworkReturns
<1>13. CASE UNCHANGED vars
  BY <1>13, Zenon DEF vars
<1> QED
  BY <1>1, <1>2, <1>3, <1>4, <1>5, <1>6, <1>7, <1>8, <1>9, <1>10, <1>11, <1>12, <1>13
     DEF Next, Monitor

\* Every step keeps what the place of start() tells, the order of the check, and the two invariants.
LEMMA OrderStays == IInv /\ [Next]_vars => OrderOK'
<1> SUFFICES ASSUME IInv, [Next]_vars PROVE OrderOK'
  OBVIOUS
<1> USE MonitorAssumption DEF MonitorAssumption
<1> USE DEF IInv, OrderOK, PlaceTellsFlags, ProfileKnown, RestsTruthfully, LteUp, Places, Check,
            flags, modem, bounds, profile_history
<1>1. CASE FirstWait
  BY <1>1 DEF FirstWait, Answered, Silent
<1>2. CASE PowerKeySequence
  BY <1>2 DEF PowerKeySequence
<1>3. CASE SecondWait
  BY <1>3 DEF SecondWait, Answered, Silent
<1>4. CASE Slept
  BY <1>4 DEF Slept
<1>5. CASE WaitForModem
  BY <1>5 DEF WaitForModem, Answered, Silent
<1>6. CASE PeriodicTestEnds
  BY <1>6 DEF PeriodicTestEnds
<1>7. CASE CheckFails
  <2>1. (profile => profile') /\ (bearer => bearer')
    <3>1. UNCHANGED modem \/ Executes
      <4> HIDE DEF Exchange, modem
      <4> QED
        BY <1>7, Zenon DEF CheckFails, Raises
    <3>2. CASE UNCHANGED modem
      BY <3>2, Zenon
    <3>3. CASE Executes
      BY <3>3, Zenon DEF Executes
    <3> QED
      BY <3>1, <3>2, <3>3
  <2>2. mishaps' \in 0..MaxMishaps /\ UNCHANGED <<troubles, tests, test>>
    BY <1>7 DEF CheckFails, Raises
  <2> QED
    BY <1>7, <2>1, <2>2 DEF CheckFails
<1>8. ASSUME NEW answer \in {"own", "other", "error"}, CheckStep(answer) PROVE OrderOK'
  <2>1. CASE ReadSim(answer)
    BY <1>8, <2>1 DEF CheckStep, ReadSim
  <2>2. CASE ReadRegistration(answer)
    BY <1>8, <2>2 DEF CheckStep, ReadRegistration
  <2>3. CASE SetProfile(answer)
    <3>1. profile' \/ misread'
      BY <2>3, Zenon DEF SetProfile
    <3>2. bearer => bearer'
      BY <2>3, Zenon DEF SetProfile, Executed, Executes
    <3> QED
      BY <1>8, <2>3, <3>1, <3>2 DEF CheckStep, SetProfile
  <2>4. CASE ReadAttached(answer)
    BY <1>8, <2>4 DEF CheckStep, ReadAttached
  <2>5. CASE Attach(answer)
    BY <1>8, <2>5 DEF CheckStep, Attach
  <2>6. CASE ReadAddress(answer)
    <3>1. ~ activation_ok'
      BY <2>6, Zenon DEF ReadAddress
    <3>2. mobile_ip' => bearer
      BY <2>6, Zenon DEF ReadAddress
    <3> QED
      BY <1>8, <2>6, <3>1, <3>2 DEF CheckStep, ReadAddress
  <2>7. CASE Activate(answer)
    <3>1. activation_ok' => bearer' \/ excused'
      BY <2>7, Zenon DEF Activate, Executed, Executes
    <3>2. profile => profile'
      BY <2>7, Zenon DEF Activate, Executed, Executes
    <3> QED
      BY <1>8, <2>7, <3>1, <3>2 DEF CheckStep, Activate, Executed, Executes
  <2>8. CASE ReadNewAddress(answer)
    <3>1. mobile_ip' => bearer
      BY <2>8, Zenon DEF ReadNewAddress
    <3>2. data_active' => mobile_ip' \/ activation_ok
      BY <2>8, Zenon DEF ReadNewAddress
    <3> QED
      BY <1>8, <2>8, <3>1, <3>2 DEF CheckStep, ReadNewAddress
  <2> QED
    BY <1>8, <2>1, <2>2, <2>3, <2>4, <2>5, <2>6, <2>7, <2>8 DEF CheckStep
<1>9. CASE StartInternetTest
  BY <1>9 DEF StartInternetTest, internet_test_running
<1>10. CASE TestRuns \/ TestEnds
  BY <1>10 DEF TestRuns, TestEnds
<1>11. CASE Reboots \/ NetworkLost \/ BearerLost
  BY <1>11 DEF Trouble, Reboots, NetworkLost, BearerLost
<1>12. CASE ModemBoots \/ NetworkReturns
  BY <1>12 DEF ModemBoots, NetworkReturns
<1>13. CASE UNCHANGED vars
  BY <1>13 DEF vars
<1> QED
  BY <1>1, <1>2, <1>3, <1>4, <1>5, <1>6, <1>7, <1>8, <1>9, <1>10, <1>11, <1>12, <1>13
     DEF Next, Monitor

\* Every reachable state satisfies the invariant.
LEMMA Invariance == Spec => []IInv
<1>1. Init => IInv
  BY InitInv
<1>2. IInv /\ [Next]_vars => IInv'
  BY FlagsStay, ModemStays, OrderStays DEF IInv
<1> QED
  BY <1>1, <1>2, PTL DEF Spec

\* The flags, the place of start() and the modem keep their types, and an activation is counted
\* in its own check only.
THEOREM TypeCorrect == Spec => []TypeOK
<1>1. IInv => TypeOK
  BY DEF IInv, TypeOK, OrderOK
<1> QED
  BY <1>1, Invariance, PTL

\* The profile is missing behind _pdp_configured only after a reboot that the loop has not
\* noticed, or after another call's OK was taken for that of AT+CGDCONT.
THEOREM ProfileIsKnown == Spec => []ProfileKnown
<1>1. IInv => ProfileKnown
  BY DEF IInv, OrderOK
<1> QED
  BY <1>1, Invariance, PTL

\* A check, failed or not, leaves LTE shown as up only with a connection, one that was lost
\* since, or an activation misread.
THEOREM RestIsTruthful == Spec => []RestsTruthfully
<1>1. IInv => RestsTruthfully
  BY DEF IInv, OrderOK
<1> QED
  BY <1>1, Invariance, PTL
=============================================================================
