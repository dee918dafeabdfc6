---------------------------- MODULE ModemMonitor ----------------------------
(***************************************************************************)
(* The LTE monitor of gateway/modem_manager.py: start() with its wait for  *)
(* the modem, the PWRKEY pulse, the check that configures and activates    *)
(* the data connection, and the internet tests.  The publisher goes by     *)
(* what it leaves in responding and data_active.                           *)
(*                                                                         *)
(* An exchange with the modem is one step, the one in which its result is  *)
(* acted upon.  As AtCommands shows, it returns the modem's own answer, an *)
(* error, a timeout, or the OK of an earlier call that was abandoned.  The *)
(* modem and the network are external: a modem that reboots by itself      *)
(* loses its profile and its data connection.                              *)
(***************************************************************************)
EXTENDS Naturals

CONSTANTS
    MaxTroubles,   \* bound: reboots of the modem and losses of the network or of the data connection
    MaxMishaps,    \* bound: exchanges that go wrong with a modem that is up
    MaxTests       \* bound: internet tests asked for by the dashboard

ASSUME MonitorAssumption ==
    MaxTroubles \in Nat /\ MaxMishaps \in Nat /\ MaxTests \in Nat

VARIABLES
    pc,                  \* where start() is: the exchange it makes, its sleep or its own test
    starting,            \* it is before its loop: waits for the modem, or makes the first check
    responding, data_active,
    ready,               \* what the check has read: the SIM ready, the modem registered
    mobile_ip,           \* an address is known
    pdp_configured,      \* _pdp_configured
    activation_ok,       \* of the check in progress
    test,                \* the requested test, "none" if there is none
    up, net, profile, bearer,   \* external: the modem answers, is registered, has its profile, is connected
    troubles, mishaps, tests,   \* bounds reached so far
    unnoticed,           \* history: the modem has rebooted and no exchange of the loop has failed since
    misread,             \* history: the OK of another call was taken for that of the profile, which is not written
    excused              \* history: bearer lost, or an activation misread, in or since the last check

flags == <<starting, responding, data_active, ready, mobile_ip, pdp_configured, activation_ok>>
modem == <<up, net, profile, bearer>>
bounds == <<troubles, mishaps, tests>>
profile_history == <<unnoticed, misread>>
vars == <<pc, flags, test, modem, bounds, profile_history, excused>>

\* _configure_and_check, by its exchanges: identity and SIM; signal, registration and operator; the rest.
Check == {"sim", "registration", "profile", "attached", "attach", "address", "activate", "new_address"}
Places == Check \cup {"first_wait", "power_key", "second_wait", "sleep", "wait", "ping"}

\* internet_test_running: from the request to the end of the task.
internet_test_running == test # "none"

\* What the publisher waits for.
LteUp == responding /\ data_active

Init ==
    /\ pc = "first_wait" /\ starting = TRUE
    /\ responding = FALSE /\ data_active = FALSE /\ ready = FALSE /\ mobile_ip = FALSE
    /\ pdp_configured = FALSE /\ activation_ok = FALSE /\ test = "none"
    /\ up \in BOOLEAN /\ net \in BOOLEAN /\ profile = FALSE /\ bearer = FALSE
    /\ troubles = 0 /\ mishaps = 0 /\ tests = 0
    /\ unnoticed = FALSE /\ misread = FALSE /\ excused = FALSE

-----------------------------------------------------------------------------
(* An exchange. *)

\* A modem that is down does not answer; one that is up may answer with an error, too late,
\* or with the OK of an earlier call.
Exchange(answer) ==
    /\ answer # "timeout" => up
    /\ IF ~ up \/ answer = "own" THEN UNCHANGED mishaps
       ELSE mishaps < MaxMishaps /\ mishaps' = mishaps + 1
    /\ UNCHANGED <<troubles, tests, test>>

\* _wait_for_modem asks until there is an OK, whosever it is, or its time is over.
Answered == Exchange("own") \/ Exchange("other")
Silent == Exchange("timeout")

\* A check is over; in the loop, with data, an internet test may be due.
CheckEnds(active) ==
    /\ data_active' = active /\ starting' = FALSE
    /\ pc' \in {"sleep"} \cup {p \in {"ping"} : active /\ ~ starting}

-----------------------------------------------------------------------------
(* start(). *)

FirstWait ==
    /\ pc = "first_wait"
    /\ (Answered /\ pc' = "second_wait") \/ (Silent /\ pc' = "power_key")
    /\ UNCHANGED <<flags, modem, profile_history, excused>>

\* The pulse turns on a modem that is off.
PowerKeySequence ==
    /\ pc = "power_key" /\ pc' = "second_wait"
    /\ UNCHANGED up \/ up' = TRUE
    /\ UNCHANGED <<flags, test, net, profile, bearer, bounds, profile_history, excused>>

SecondWait ==
    /\ pc = "second_wait"
    /\ \/ Answered /\ responding' = TRUE /\ pc' = "sim" /\ UNCHANGED starting
       \/ Silent /\ starting' = FALSE /\ pc' = "sleep" /\ UNCHANGED responding
    /\ UNCHANGED <<data_active, ready, mobile_ip, pdp_configured, activation_ok, modem, profile_history, excused>>

\* The interval passes.
Slept ==
    /\ pc = "sleep" /\ pc' = IF responding THEN "sim" ELSE "wait"
    /\ UNCHANGED <<flags, test, modem, bounds, profile_history, excused>>

\* Mutated form: the profile is taken to be as it was.
WaitForModem_KeepsProfile ==
    /\ pc = "wait"
    /\ \/ Answered /\ responding' = TRUE /\ unnoticed' = FALSE /\ pc' = "sim"
       \/ Silent /\ pc' = "sleep" /\ UNCHANGED <<responding, unnoticed>>
    /\ UNCHANGED <<starting, data_active, ready, mobile_ip, pdp_configured, activation_ok, modem, misread, excused>>

\* A modem that did not respond is asked again; when it does, its profile may be gone.
WaitForModem ==
    /\ pc = "wait"
    /\ \/ Answered /\ responding' = TRUE /\ pdp_configured' = FALSE /\ unnoticed' = FALSE /\ pc' = "sim"
       \/ Silent /\ pc' = "sleep" /\ UNCHANGED <<responding, pdp_configured, unnoticed>>
    /\ UNCHANGED <<starting, data_active, ready, mobile_ip, activation_ok, modem, misread, excused>>

\* The periodic test returns, whatever came of it.
PeriodicTestEnds ==
    /\ pc = "ping" /\ pc' = "sleep"
    /\ UNCHANGED <<flags, test, modem, bounds, profile_history, excused>>

-----------------------------------------------------------------------------
(* _configure_and_check(), an exchange that counts for each step. *)

\* These two read an ERROR like any other answer.
AllowError == {"address", "activate", "new_address"}

\* What the modem does with a command, whether or not its answer comes in time.
Executes ==
    /\ profile' = (profile \/ pc = "profile")
    /\ bearer' = (bearer \/ (pc = "activate" /\ net /\ profile))
    /\ UNCHANGED <<up, net>>

\* What makes an exchange raise: no answer in time, an ERROR that is not allowed.
Raises ==
    \/ Exchange("timeout") /\ (UNCHANGED modem \/ (up /\ Executes))
    \/ pc \notin AllowError /\ Exchange("error") /\ UNCHANGED modem
    \/ pc = "attach" /\ ~ net /\ Exchange("own") /\ UNCHANGED modem

\* Mutated form: the loop, too, only records the error.
CheckFails_KeepsResponding ==
    /\ pc \in Check /\ pc' = "sleep" /\ Raises
    /\ starting' = FALSE
    /\ unnoticed' = (unnoticed /\ starting) /\ misread' = (misread /\ starting)
    /\ UNCHANGED <<responding, data_active, ready, mobile_ip, pdp_configured, activation_ok, excused>>

\* An exchange raises: the check is over, and what it had not read yet stays as it was.  The
\* loop takes the modem not to respond; the first check only records the error.
CheckFails ==
    /\ pc \in Check /\ pc' = "sleep" /\ Raises
    /\ starting' = FALSE /\ responding' = starting
    /\ unnoticed' = (unnoticed /\ starting) /\ misread' = (misread /\ starting)
    /\ UNCHANGED <<data_active, ready, mobile_ip, pdp_configured, activation_ok, excused>>

\* ATI and AT+CPIN?: an answer without the line that was asked for reads UNKNOWN.
ReadSim(answer) ==
    /\ pc = "sim" /\ answer \in {"own", "other"} /\ pc' = "registration"
    /\ responding' = TRUE /\ ready' = (answer = "own") /\ excused' = FALSE
    /\ UNCHANGED <<starting, data_active, mobile_ip, pdp_configured, activation_ok, modem, profile_history>>

\* Mutated form: without registration the flags stay as they are.
ReadRegistration_KeepsActive(answer) ==
    /\ pc = "registration" /\ answer \in {"own", "other"}
    /\ ready' = (ready /\ answer = "own" /\ net)
    /\ pc' = IF ~ ready' THEN "sleep" ELSE IF pdp_configured THEN "attached" ELSE "profile"
    /\ UNCHANGED <<starting, responding, data_active, mobile_ip, pdp_configured, activation_ok>>
    /\ UNCHANGED <<modem, profile_history, excused>>

\* AT+CSQ, AT+CEREG? and AT+COPS?: without SIM or registration there are no data.
ReadRegistration(answer) ==
    /\ pc = "registration" /\ answer \in {"own", "other"}
    /\ ready' = (ready /\ answer = "own" /\ net)
    /\ IF ready'
       THEN /\ pc' = IF pdp_configured THEN "attached" ELSE "profile"
            /\ UNCHANGED <<starting, mobile_ip, data_active>>
       ELSE mobile_ip' = FALSE /\ CheckEnds(FALSE)
    /\ UNCHANGED <<responding, pdp_configured, activation_ok, modem, profile_history, excused>>

\* The command of an answer that is its own has been executed; when the OK is that of another
\* call, the line may have been taken for data, or is yet to be refused.
Executed(answer) == Executes \/ (answer = "other" /\ UNCHANGED modem)

\* AT+CGDCONT: the profile counts as written, whosever the OK is, and is not written again until
\* the modem has stopped responding.
SetProfile(answer) ==
    /\ pc = "profile" /\ answer \in {"own", "other"} /\ pc' = "attached"
    /\ pdp_configured' = TRUE /\ Executed(answer)
    /\ unnoticed' = FALSE /\ misread' = ~ profile'
    /\ UNCHANGED <<starting, responding, data_active, ready, mobile_ip, activation_ok, excused>>

\* AT+CGATT?: a modem that says it is not attached, or says something else, is told to attach.
ReadAttached(answer) ==
    /\ pc = "attached" /\ answer \in {"own", "other"}
    /\ pc' \in {"attach"} \cup {p \in {"address"} : answer = "own" /\ net}
    /\ UNCHANGED <<flags, modem, profile_history, excused>>

\* AT+CGATT=1, an error unless there is a network.
Attach(answer) ==
    /\ pc = "attach" /\ (answer = "own" => net) /\ answer # "error" /\ pc' = "address"
    /\ UNCHANGED <<flags, modem, profile_history, excused>>

\* Mutated form: the outcome of an earlier activation still counts.
ReadAddress_KeepsActivation(answer) ==
    /\ pc = "address" /\ answer # "timeout"
    /\ mobile_ip' = (answer = "own" /\ bearer)
    /\ IF mobile_ip' THEN CheckEnds(TRUE) ELSE pc' = "activate" /\ UNCHANGED <<starting, data_active>>
    /\ UNCHANGED <<responding, ready, pdp_configured, activation_ok, modem, profile_history, excused>>

\* AT+CGPADDR: there is an address if there is a connection.
ReadAddress(answer) ==
    /\ pc = "address" /\ answer # "timeout"
    /\ mobile_ip' = (answer = "own" /\ bearer) /\ activation_ok' = FALSE
    /\ IF mobile_ip' THEN CheckEnds(TRUE) ELSE pc' = "activate" /\ UNCHANGED <<starting, data_active>>
    /\ UNCHANGED <<responding, ready, pdp_configured, modem, profile_history, excused>>

\* AT+CGACT: activated is whatever is not an ERROR.
Activate(answer) ==
    /\ pc = "activate" /\ answer # "timeout" /\ pc' = "new_address"
    /\ activation_ok' = (answer = "other" \/ (answer = "own" /\ net /\ profile))
    /\ IF answer = "error" THEN UNCHANGED modem ELSE Executed(answer)
    /\ excused' = (excused \/ answer = "other")
    /\ UNCHANGED <<starting, responding, data_active, ready, mobile_ip, pdp_configured, profile_history>>

\* AT+CGPADDR again.
ReadNewAddress(answer) ==
    /\ pc = "new_address" /\ answer # "timeout"
    /\ mobile_ip' = (answer = "own" /\ bearer) /\ CheckEnds(mobile_ip' \/ activation_ok)
    /\ UNCHANGED <<responding, ready, pdp_configured, activation_ok, modem, profile_history, excused>>

CheckStep(answer) ==
    /\ Exchange(answer)
    /\ \/ ReadSim(answer) \/ ReadRegistration(answer) \/ SetProfile(answer) \/ ReadAttached(answer)
       \/ Attach(answer) \/ ReadAddress(answer) \/ Activate(answer) \/ ReadNewAddress(answer)

Monitor ==
    \/ FirstWait \/ PowerKeySequence \/ SecondWait \/ Slept \/ WaitForModem \/ PeriodicTestEnds
    \/ CheckFails \/ \E answer \in {"own", "other", "error"} : CheckStep(answer)

-----------------------------------------------------------------------------
(* The test that the dashboard asks for. *)

\* start_internet_test: one at a time.
StartInternetTest ==
    /\ tests < MaxTests /\ tests' = tests + 1
    /\ test' = IF internet_test_running THEN test ELSE "created"
    /\ UNCHANGED <<pc, flags, modem, troubles, mishaps, profile_history, excused>>

\* Mutated form: the early return is before the try.
TestRuns_EarlyReturn ==
    /\ test = "created" /\ LteUp /\ test' = "ping"
    /\ UNCHANGED <<pc, flags, modem, bounds, profile_history, excused>>

\* The task runs: without LTE the test has failed at once, else it waits for the line and pings.
TestRuns ==
    /\ test = "created" /\ test' = IF LteUp THEN "ping" ELSE "none"
    /\ UNCHANGED <<pc, flags, modem, bounds, profile_history, excused>>

\* The ping is answered, refused or out of time.
TestEnds ==
    /\ test = "ping" /\ test' = "none"
    /\ UNCHANGED <<pc, flags, modem, bounds, profile_history, excused>>

-----------------------------------------------------------------------------
(* The modem and the network. *)

Trouble ==
    /\ troubles < MaxTroubles /\ troubles' = troubles + 1
    /\ UNCHANGED <<pc, flags, test, mishaps, tests>>

\* The modem reboots: profile and data connection are gone.
Reboots ==
    /\ Trouble /\ up /\ up' = FALSE /\ profile' = FALSE /\ bearer' = FALSE
    /\ unnoticed' = TRUE /\ excused' = TRUE /\ UNCHANGED <<net, misread>>

NetworkLost ==
    /\ Trouble /\ net /\ net' = FALSE /\ bearer' = FALSE
    /\ excused' = TRUE /\ UNCHANGED <<up, profile, profile_history>>

BearerLost ==
    /\ Trouble /\ bearer /\ bearer' = FALSE
    /\ excused' = TRUE /\ UNCHANGED <<up, net, profile, profile_history>>

ModemBoots ==
    /\ ~ up /\ up' = TRUE
    /\ UNCHANGED <<pc, flags, test, net, profile, bearer, bounds, profile_history, excused>>

NetworkReturns ==
    /\ ~ net /\ net' = TRUE
    /\ UNCHANGED <<pc, flags, test, up, profile, bearer, bounds, profile_history, excused>>

Next ==
    \/ Monitor
    \/ StartInternetTest \/ TestRuns \/ TestEnds
    \/ Reboots \/ NetworkLost \/ BearerLost \/ ModemBoots \/ NetworkReturns

Spec == Init /\ [][Next]_vars

\* Every exchange returns (AtCommands) and the loop runs both tasks.  Nothing is assumed of
\* the modem and the network.
FairSpec == Spec /\ WF_vars(Monitor) /\ WF_vars(TestRuns \/ TestEnds)

-----------------------------------------------------------------------------
(* Properties. *)

\* The monitor's flags are Boolean.
FlagsOK ==
    /\ starting \in BOOLEAN /\ responding \in BOOLEAN /\ data_active \in BOOLEAN /\ ready \in BOOLEAN
    /\ mobile_ip \in BOOLEAN /\ pdp_configured \in BOOLEAN /\ activation_ok \in BOOLEAN

\* So is what is known of the modem.
ModemOK ==
    /\ up \in BOOLEAN /\ net \in BOOLEAN /\ profile \in BOOLEAN /\ bearer \in BOOLEAN
    /\ unnoticed \in BOOLEAN /\ misread \in BOOLEAN /\ excused \in BOOLEAN

\* Every variable has its type, and a check that comes to the activation has read the SIM, the
\* registration and no address, and counts no earlier activation.
TypeOK ==
    /\ FlagsOK /\ ModemOK
    /\ pc \in Places /\ test \in {"none", "created", "ping"}
    /\ troubles \in 0..MaxTroubles /\ mishaps \in 0..MaxMishaps /\ tests \in 0..MaxTests
    /\ pc = "activate" => ready /\ ~ mobile_ip /\ ~ activation_ok

\* A profile that the monitor of a responding modem takes for written is there, with two
\* exceptions: the modem has rebooted and the loop has had no failure since (a reboot that only
\* the first check met counts for none), or the OK that counted was that of another call.
ProfileKnown == responding /\ pdp_configured => profile \/ unnoticed \/ misread

\* Between two checks the publisher is told that LTE is up only if there is a connection,
\* unless it was lost since the check began or the check took the OK of another call for that of
\* the activation.  A check that failed never leaves LTE shown as up: the loop clears responding,
\* and the first check, which does not, fails before it has set data_active.
RestsTruthfully == pc \in {"sleep", "wait"} /\ LteUp => bearer \/ excused

\* Once modem and network stay up, LTE is up for good, but for the same two exceptions, in
\* which the profile that is missing is never written again.
Well == up /\ net
LteReturns == <>[](Well /\ ~ unnoticed /\ ~ misread) => <>[]LteUp

\* A test that was asked for ends and another can be started, whatever the monitor meets.
TestsEnd == internet_test_running ~> ~ internet_test_running

\* modem_manager.py:69 and the data flow guide, line 409: a modem that has rebooted and lost
\* its profile gets it back, and LTE reconnects.
LteReconnects == <>[]Well => <>[]LteUp
=============================================================================
